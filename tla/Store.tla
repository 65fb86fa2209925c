-------------------------------- MODULE Store --------------------------------
(***************************************************************************)
(* The profile store on its disk, one file operation after the other, with *)
(* the daemon or the machine stopping between any two of them.  A publish  *)
(* stages its objects in a transaction directory, moves them to their      *)
(* places and then replaces the manifest; a removal replaces the manifest  *)
(* and then moves the object away; OpenStore puts right what either left   *)
(* behind.  One call at a time, since each holds s.mu.                     *)
(*                                                                         *)
(* What a power loss leaves of a directory is known only after it has been *)
(* synced.  What is in .transactions, .garbage and .executions is not part *)
(* of the state: nothing but the call that put it there, and OpenStore,    *)
(* which erases it, ever looks at it.                                      *)
(* Source: src/internal/profiles/store.go, src/internal/securefs.          *)
(***************************************************************************)
EXTENDS Library

VARIABLES
  mem,        \* s.manifest, None while no store is open
  unknown,    \* s.durabilityUnknown
  file,       \* the manifest a reader of the file sees
  disk,       \* the manifest a power loss leaves, unless it leaves file
  object,     \* the directory of each object at its place in the library
  after,      \* what a power loss may make of it
  at,         \* the step the call in progress is at
  serving,    \* OpenStore has returned
  todo,       \* objects the call has still to stage, to place or to move away
  moving,     \* the object it has moved and not yet synced
  staged,     \* objects whole and synced in its transaction directory
  candidate   \* the manifest it is about to publish

vars == <<mem, unknown, file, disk, object, after, at, serving, todo, moving,
          staged, candidate>>

manifests == <<mem, unknown, file, disk>>
objects   == <<object, after>>

-----------------------------------------------------------------------------
(* broken: not exactly the one file with the content the ID stands for.    *)
Objects == {"absent", "whole", "broken"}

(* objectDir is in the directory of its protocol, synced as one.           *)
Beside(p, q) == {p, q} \subseteq OpenVPN \/ {p, q} \subseteq WireGuard

Settled(p) == IF object[p] = "absent" THEN {"absent"} ELSE after[p] \ {"absent"}

(* fsync of the library directory p is in.                                 *)
SyncBeside(p) ==
  after' = [q \in Profiles |-> IF Beside(p, q) THEN Settled(q) ELSE after[q]]

Init ==
  /\ mem = None /\ unknown = FALSE
  /\ file = EmptyLibrary.mem /\ disk = EmptyLibrary.mem
  /\ object = [p \in Profiles |-> "absent"]
  /\ after = [p \in Profiles |-> {"absent"}]
  /\ at = "closed" /\ serving = FALSE
  /\ todo = {} /\ moving = None /\ staged = {} /\ candidate = None

(* The call returns and s.mu is released.                                  *)
Return ==
  /\ at' = "idle" /\ serving' = TRUE
  /\ todo' = {} /\ moving' = None /\ staged' = {} /\ candidate' = None

(* The daemon ends, of itself or because OpenStore returned an error.      *)
Close ==
  /\ at' = "closed" /\ serving' = FALSE /\ mem' = None /\ unknown' = FALSE
  /\ todo' = {} /\ moving' = None /\ staged' = {} /\ candidate' = None

-----------------------------------------------------------------------------
(* Mutant of OpenStore: the manifest read is not synced.                   *)
OpenStoreUnsynced ==
  /\ at = "closed"
  /\ mem' = file
  /\ at' = "collecting"
  /\ todo' = {p \in Profiles \ file.installed : object[p] # "absent"}
  /\ UNCHANGED <<unknown, file, disk, object, after, serving, moving, staged, candidate>>

(* Mutant of OpenStore: an orphan is only looked for if a profile is known. *)
OpenStoreEmptySkipped ==
  /\ at = "closed"
  /\ mem' = file /\ disk' = file
  /\ at' = "collecting"
  /\ todo' = IF file.installed = {} THEN {}
             ELSE {p \in Profiles \ file.installed : object[p] # "absent"}
  /\ UNCHANGED <<unknown, file, object, after, serving, moving, staged, candidate>>

(* The manifest is read, and synced before anything is done because of     *)
(* what it says; then whatever it does not name is collected.              *)
OpenStore ==
  /\ at = "closed"
  /\ mem' = file /\ disk' = file
  /\ at' = "collecting"
  /\ todo' = {p \in Profiles \ file.installed : object[p] # "absent"}
  /\ UNCHANGED <<unknown, file, object, after, serving, moving, staged, candidate>>

(* quarantineUnreferenced and garbageCollectObjectLocked: an object is     *)
(* renamed into .garbage, which replaces nothing, ...                      *)
Quarantine(p) ==
  /\ at = "collecting"
  /\ p \in todo
  /\ object[p] = "whole"
  /\ object' = [object EXCEPT ![p] = "absent"]
  /\ after' = [after EXCEPT ![p] = @ \cup {"absent"}]
  /\ at' = "moved" /\ moving' = p
  /\ UNCHANGED <<manifests, serving, todo, staged, candidate>>

(* ... both directories are synced, and it is erased.                      *)
SyncQuarantine ==
  /\ at = "moved"
  /\ SyncBeside(moving)
  /\ at' = "collecting" /\ todo' = todo \ {moving} /\ moving' = None
  /\ UNCHANGED <<manifests, object, serving, staged, candidate>>

Collected ==
  /\ at = "collecting"
  /\ todo = {}
  /\ Return
  /\ UNCHANGED <<manifests, objects>>

(* What remains is left for the next OpenStore.                            *)
CollectionFails ==
  /\ at \in {"collecting", "moved"}
  /\ May("store")
  /\ IF serving THEN Return /\ UNCHANGED <<mem, unknown>> ELSE Close
  /\ UNCHANGED <<file, disk, objects>>

-----------------------------------------------------------------------------
(* repairDurabilityLocked, called by every mutation and by an import that  *)
(* is confirmed again.                                                     *)
Repair ==
  /\ at = "idle"
  /\ unknown
  /\ \A p \in file.installed : object[p] = "whole"
  /\ mem' = file /\ disk' = file /\ unknown' = FALSE
  /\ UNCHANGED <<file, objects, at, serving, todo, moving, staged, candidate>>

(* Mutant of Prepared: mutations go ahead without repairing.               *)
PreparedUnrepaired == at = "idle"

(* prepareMutationLocked has succeeded.                                    *)
Prepared == at = "idle" /\ ~unknown

(* mutate and Remove: the candidate goes straight to publishManifestLocked.*)
Mutate(changed) ==
  /\ Legal(changed)
  /\ candidate' = changed
  /\ at' = "writing"
  /\ UNCHANGED <<manifests, objects, serving, todo, moving, staged>>

(* SetConnection; SetPreferences; Remove.                                  *)
Mutation ==
  /\ Prepared
  /\ \/ \E d \in Profiles \cup {None}, c \in BOOLEAN : Mutate(Connection(mem, d, c))
     \/ \E m \in {"manual", "restore"} : Mutate([mem EXCEPT !.mode = m])
     \/ \E p \in mem.installed : Mutate(Without(mem, p))

-----------------------------------------------------------------------------
(* Publish: new objects only.  An ID whose object is still there comes     *)
(* from a publish that failed and is tried again with the same receipt.    *)
Publish(batch) ==
  /\ Prepared
  /\ batch # {} /\ batch \cap mem.installed = {}
  /\ Legal(With(mem, batch))
  /\ candidate' = With(mem, batch)
  /\ at' = "staging" /\ todo' = batch
  /\ UNCHANGED <<manifests, objects, serving, moving, staged>>

(* Mutant of Stage: neither the file nor its directory is synced.          *)
StageUnsynced(p) ==
  /\ at = "staging"
  /\ p \in todo
  /\ todo' = todo \ {p}
  /\ UNCHANGED <<manifests, objects, at, serving, moving, staged, candidate>>

(* The object's directory is made, its file written and both synced.       *)
Stage(p) ==
  /\ at = "staging"
  /\ p \in todo
  /\ todo' = todo \ {p} /\ staged' = staged \cup {p}
  /\ UNCHANGED <<manifests, objects, at, serving, moving, candidate>>

(* The transaction directory is synced.                                    *)
SyncTransaction ==
  /\ at = "staging"
  /\ todo = {}
  /\ at' = "placing" /\ todo' = candidate.installed \ mem.installed
  /\ UNCHANGED <<manifests, objects, serving, moving, staged, candidate>>

(* RenameNoReplace to the object's place; an object found there has to be  *)
(* the one expected.                                                       *)
Place(p) ==
  /\ at = "placing"
  /\ p \in todo
  /\ \/ /\ object[p] = "absent"
        /\ object' = [object EXCEPT ![p] = "whole"]
        /\ after' = [after EXCEPT ![p] =
             @ \cup (IF p \in staged THEN {"whole"} ELSE {"whole", "broken"})]
     \/ object[p] = "whole" /\ UNCHANGED objects
  /\ at' = "placed" /\ moving' = p
  /\ UNCHANGED <<manifests, serving, todo, staged, candidate>>

(* The directory it was moved to is synced.                                *)
SyncPlaced ==
  /\ at = "placed"
  /\ SyncBeside(moving)
  /\ at' = "placing" /\ todo' = todo \ {moving} /\ moving' = None
  /\ UNCHANGED <<manifests, object, serving, staged, candidate>>

AllPlaced ==
  /\ at = "placing"
  /\ todo = {}
  /\ at' = "writing"
  /\ UNCHANGED <<manifests, objects, serving, todo, moving, staged, candidate>>

(* An error before the manifest's rename: what was staged or placed stays. *)
Fails ==
  /\ at \in {"staging", "placing", "placed", "writing"}
  /\ May("store")
  /\ Return
  /\ UNCHANGED <<manifests, objects>>

-----------------------------------------------------------------------------
(* WriteJSONAtomic: the temporary file, written and synced, replaces the   *)
(* manifest, ...                                                           *)
RenameManifest ==
  /\ at = "writing"
  /\ file' = candidate
  /\ at' = "renamed"
  /\ UNCHANGED <<mem, unknown, disk, objects, serving, todo, moving, staged, candidate>>

(* ... and its directory is synced.  Only a removal has more to do that    *)
(* matters to others.                                                      *)
SyncManifest ==
  /\ at = "renamed"
  /\ mem' = candidate /\ disk' = file /\ unknown' = FALSE
  /\ LET removed == mem.installed \ candidate.installed IN
       IF removed = {}
       THEN Return
       ELSE /\ at' = "collecting" /\ todo' = removed
            /\ UNCHANGED <<serving, moving, staged, candidate>>
  /\ UNCHANGED <<file, objects>>

(* Mutant of Ambiguous: an error means that nothing has changed.           *)
AmbiguousForgotten ==
  /\ at = "renamed"
  /\ May("store")
  /\ Return
  /\ UNCHANGED <<manifests, objects>>

(* Mutant of Ambiguous: the durability is not recorded as unknown.         *)
AmbiguousUnflagged ==
  /\ at = "renamed"
  /\ May("store")
  /\ mem' = candidate
  /\ Return
  /\ UNCHANGED <<unknown, file, disk, objects>>

(* An error after the rename: ErrOutcomeAmbiguous, and nothing collected.  *)
Ambiguous ==
  /\ at = "renamed"
  /\ May("store")
  /\ mem' = candidate /\ unknown' = TRUE
  /\ Return
  /\ UNCHANGED <<file, disk, objects>>

-----------------------------------------------------------------------------
Crash ==
  /\ at # "closed"
  /\ Close
  /\ UNCHANGED <<file, disk, objects>>

(* Each directory is found as one of the states it may have been left in.  *)
PowerLoss ==
  /\ Close
  /\ file' \in {file, disk} /\ disk' = file'
  /\ object' \in [Profiles -> Objects]
  /\ \A p \in Profiles : object'[p] \in after[p]
  /\ after' = [p \in Profiles |-> {object'[p]}]

Opening == OpenStore \/ (\E p \in Profiles : Quarantine(p)) \/ SyncQuarantine
             \/ Collected \/ CollectionFails

Publishing == (\E p \in Profiles : Stage(p) \/ Place(p)) \/ SyncTransaction
                \/ SyncPlaced \/ AllPlaced \/ Fails

Writing == RenameManifest \/ SyncManifest \/ Ambiguous

Next ==
  \/ Opening \/ Repair
  \/ Mutation \/ \E batch \in SUBSET Profiles : Publish(batch)
  \/ Publishing \/ Writing
  \/ Crash \/ PowerLoss

Spec == Init /\ [][Next]_vars

-----------------------------------------------------------------------------
(* Whatever store.go and securefs.go do on the disk, manifests and objects *)
(* are well formed, and a manifest wants only a profile it has.            *)
Good == {manifest \in Manifests : manifest.desired \in manifest.installed \cup {None}}

TypeOK ==
  /\ mem \in Good \cup {None} /\ unknown \in BOOLEAN
  /\ file \in Good /\ disk \in Good
  /\ object \in [Profiles -> Objects]
  /\ after \in [Profiles -> SUBSET Objects]
  /\ at \in {"closed", "idle", "staging", "placing", "placed", "writing",
             "renamed", "collecting", "moved"}
  /\ serving \in BOOLEAN
  /\ todo \subseteq Profiles /\ staged \subseteq Profiles
  /\ moving \in Profiles \cup {None}
  /\ candidate \in Good \cup {None}

Safe(manifest) ==
  \A p \in manifest.installed : object[p] = "whole" /\ after[p] = {"whole"}

(* Publish puts objects in place before the manifest that names them, and  *)
(* Remove takes one away only after a manifest without it: at every moment *)
(* each object named by the manifest, or by the one a power loss would     *)
(* bring back, is there and would survive the power loss too.              *)
ReferencedObjectsAreThere == Safe(file) /\ Safe(disk)

(* What Snapshot, Resolve and PrepareExecution read from memory is what    *)
(* the file says, also after an error whose outcome is ambiguous.          *)
ReadersSeeThePublished == serving /\ at # "renamed" => mem = file

(* Unless durabilityUnknown is set, what a call has published cannot be    *)
(* taken back by a power loss.                                             *)
NoFlagMeansDurable == at = "idle" /\ ~unknown => file = disk

(* However a call was interrupted, no object is left that would make the   *)
(* next OpenStore, which refuses what it cannot validate, fail for good.   *)
NoBrokenObject == \A p \in Profiles : "broken" \notin after[p]

(* When OpenStore returns, whatever calls were interrupted before, the     *)
(* library holds the objects of its manifest and no others.                *)
OpenLeavesNoOrphans ==
  [][at' = "idle" /\ ~serving =>
       {p \in Profiles : object'[p] # "absent"} = mem'.installed]_vars

(* The store as its callers see it: a change is made or not made, and is   *)
(* never built on one whose durability is unknown.                         *)
Published == INSTANCE PublishedLibrary
               WITH lib <- [mem |-> file, disk |-> disk, unknown |-> file # disk]

ImplementsLibrary == Published!Spec
=============================================================================

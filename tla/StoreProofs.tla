----------------------------- MODULE StoreProofs -----------------------------
(***************************************************************************)
(* Proofs about Store, for every set of profiles and faults.  The          *)
(* strengthening relates the step a call is at to what the manifests in    *)
(* memory, in the file and on the disk have in common, and to what is      *)
(* already known of the objects it is about to name or to take away.       *)
(***************************************************************************)
EXTENDS Store, TLAPS

(* No interrupted call leaves an object in pieces, and what is seen may    *)
(* also be what a power loss leaves.                                       *)
ObjectsKnown ==
  \A p \in Profiles :
    object[p] \in after[p] /\ after[p] \subseteq {"absent", "whole"}

(* The three manifests differ only around the rename, and until the        *)
(* repair of a call whose outcome was ambiguous.                           *)
ManifestsKnown ==
  /\ at = "closed" => ~serving
  /\ at \notin {"closed", "collecting", "moved"} => serving
  /\ at \notin {"closed", "renamed"} => mem = file
  /\ at \notin {"closed", "idle"} => mem = disk
  /\ at = "idle" /\ ~unknown => mem = disk
  /\ at = "renamed" => file = candidate

(* The objects a publish has not staged or placed are those in todo; those *)
(* a call takes away are not named by the manifest it has published.       *)
CallKnown ==
  /\ at \in {"staging", "placing", "placed", "writing", "renamed"} => candidate \in Good
  /\ at \in {"staging", "placing", "placed", "writing"} =>
       candidate \in Changes(mem) /\ Legal(candidate)
  /\ at = "staging" => candidate.installed \subseteq mem.installed \cup todo \cup staged
  /\ at \in {"placing", "placed"} =>
       /\ todo \subseteq staged
       /\ \A p \in candidate.installed \ todo : object[p] = "whole" /\ after[p] = {"whole"}
  /\ at = "placed" => moving \in todo /\ object[moving] = "whole"
  /\ at \in {"writing", "renamed"} => Safe(candidate)
  /\ at \in {"collecting", "moved"} =>
       /\ todo \cap mem.installed = {}
       /\ ~serving => \A p \in Profiles \ (mem.installed \cup todo) : object[p] = "absent"
  /\ at = "moved" => moving \in todo /\ object[moving] = "absent"

IInv ==
  /\ TypeOK
  /\ ObjectsKnown
  /\ ReferencedObjectsAreThere
  /\ ManifestsKnown
  /\ CallKnown

-----------------------------------------------------------------------------
(* What the store's mutations make of a well-formed manifest is well       *)
(* formed, given that ValidateManifest accepts it.                         *)
LEMMA ChangesAreGood ==
  ASSUME NEW manifest \in Good
  PROVE  /\ \A d \in Profiles \cup {None}, c \in BOOLEAN :
              Legal(Connection(manifest, d, c)) => Connection(manifest, d, c) \in Good
         /\ \A m \in {"manual", "restore"} : [manifest EXCEPT !.mode = m] \in Good
         /\ \A p \in Profiles : Without(manifest, p) \in Good
         /\ \A batch \in SUBSET Profiles : With(manifest, batch) \in Good
  BY DEF Good, Manifests, Legal, Connection, Without, With

(* The initial state, before the first OpenStore.                          *)
LEMMA InitEstablishesInv == Init => IInv
<1> SUFFICES ASSUME Init PROVE IInv
  OBVIOUS
<1>1. EmptyLibrary.mem = [desired |-> None, connected |-> FALSE, mode |-> "manual", installed |-> {}]
  BY DEF EmptyLibrary, Durable
<1>2. file \in Good /\ disk \in Good
  BY <1>1 DEF Init, Good, Manifests
<1>3. TypeOK
  BY <1>2 DEF Init, TypeOK, Objects
<1>4. ObjectsKnown
  BY DEF Init, ObjectsKnown
<1>5. ReferencedObjectsAreThere
  BY <1>1 DEF Init, ReferencedObjectsAreThere, Safe
<1>6. ManifestsKnown
  BY DEF Init, ManifestsKnown
<1>7. CallKnown
  BY DEF Init, CallKnown
<1> QED
  BY <1>3, <1>4, <1>5, <1>6, <1>7 DEF IInv

(* A step that leaves the files alone keeps what is known of them.         *)
LEMMA FilesUntouched ==
  ASSUME IInv, UNCHANGED <<file, disk, objects>>
  PROVE  ObjectsKnown' /\ ReferencedObjectsAreThere'
  BY DEF IInv, ObjectsKnown, ReferencedObjectsAreThere, Safe, objects

(* The end of the daemon, with or without an error of OpenStore.           *)
LEMMA CloseKeepsInv ==
  ASSUME IInv, Close, UNCHANGED <<file, disk, objects>>
  PROVE  IInv'
<1>1. TypeOK'
  BY DEF IInv, TypeOK, Close, objects
<1>2. ManifestsKnown' /\ CallKnown'
  BY DEF Close, ManifestsKnown, CallKnown
<1> QED
  BY <1>1, <1>2, FilesUntouched DEF IInv

(* The end of a call that leaves memory as the file is, and says so if     *)
(* that may not be what the disk has.                                      *)
LEMMA ReturnKeepsInv ==
  ASSUME IInv, Return, UNCHANGED <<file, disk, objects>>,
         mem' = file, unknown' \in BOOLEAN, unknown' \/ mem' = disk
  PROVE  IInv'
<1>1. TypeOK'
  BY DEF IInv, TypeOK, Return, objects
<1>2. ManifestsKnown'
  BY DEF Return, ManifestsKnown
<1>3. CallKnown'
  BY DEF Return, CallKnown
<1> QED
  BY <1>1, <1>2, <1>3, FilesUntouched DEF IInv

(* OpenStore and its removal of what no manifest names.                    *)
LEMMA OpenStoreKeepsInv ==
  ASSUME IInv, OpenStore
  PROVE  IInv'
<1>1. TypeOK'
  BY DEF IInv, TypeOK, OpenStore
<1>2. ObjectsKnown' /\ ReferencedObjectsAreThere'
  BY DEF IInv, OpenStore, ObjectsKnown, ReferencedObjectsAreThere, Safe
<1>3. ManifestsKnown'
  BY DEF OpenStore, IInv, ManifestsKnown
<1>4. CallKnown'
  BY DEF OpenStore, CallKnown, IInv, TypeOK
<1> QED
  BY <1>1, <1>2, <1>3, <1>4 DEF IInv

(* An object is only moved away when neither manifest names it.            *)
LEMMA QuarantineKeepsInv ==
  ASSUME IInv, NEW p \in Profiles, Quarantine(p)
  PROVE  IInv'
<1>1. mem = file /\ mem = disk /\ p \notin mem.installed
  BY DEF IInv, ManifestsKnown, CallKnown, Quarantine
<1>2. TypeOK'
  BY DEF IInv, TypeOK, Quarantine, manifests, Objects
<1>3. ObjectsKnown'
  BY DEF IInv, TypeOK, ObjectsKnown, Quarantine
<1>4. ReferencedObjectsAreThere'
  BY <1>1 DEF IInv, TypeOK, ReferencedObjectsAreThere, Safe, Quarantine, manifests
<1>5. ManifestsKnown'
  BY DEF IInv, ManifestsKnown, Quarantine, manifests
<1>6. CallKnown'
  BY DEF IInv, TypeOK, CallKnown, Quarantine, manifests
<1> QED
  BY <1>2, <1>3, <1>4, <1>5, <1>6 DEF IInv

(* A directory synced makes what is seen there what a power loss leaves.   *)
LEMMA SyncKeepsObjects ==
  ASSUME IInv, NEW p \in Profiles, SyncBeside(p), object' = object
  PROVE  /\ after' \in [Profiles -> SUBSET Objects]
         /\ ObjectsKnown'
         /\ \A q \in Profiles :
              object[q] = "whole" /\ (after[q] = {"whole"} \/ q = p) => after'[q] = {"whole"}
<1>1. \A q \in Profiles : Settled(q) \subseteq {"absent", "whole"} /\ object[q] \in Settled(q)
  BY DEF IInv, ObjectsKnown, Settled
<1>2. \A q \in Profiles : object[q] = "whole" => Settled(q) = {"whole"}
  BY DEF IInv, ObjectsKnown, Settled
<1>3. \A q \in Profiles : after'[q] \in {Settled(q), after[q]}
  BY DEF SyncBeside
<1>4. Beside(p, p)
  BY DEF Beside, Profiles
<1>5. after'[p] = Settled(p)
  BY <1>4 DEF SyncBeside
<1>6. ObjectsKnown'
  BY <1>1, <1>3 DEF IInv, ObjectsKnown
<1>7. \A q \in Profiles :
        object[q] = "whole" /\ (after[q] = {"whole"} \/ q = p) => after'[q] = {"whole"}
  BY <1>2, <1>3, <1>5
<1>8. after' \in [Profiles -> SUBSET Objects]
  BY <1>1 DEF SyncBeside, IInv, TypeOK, Objects
<1> QED
  BY <1>6, <1>7, <1>8

(* The quarantine is made durable.                                         *)
LEMMA SyncQuarantineKeepsInv ==
  ASSUME IInv, SyncQuarantine
  PROVE  IInv'
<1>1. moving \in Profiles
  BY DEF IInv, CallKnown, TypeOK, SyncQuarantine
<1>2. after' \in [Profiles -> SUBSET Objects] /\ ObjectsKnown'
  BY <1>1, SyncKeepsObjects DEF SyncQuarantine
<1>3. ReferencedObjectsAreThere'
  BY <1>1, SyncKeepsObjects
     DEF IInv, TypeOK, Good, Manifests, ReferencedObjectsAreThere, Safe, SyncQuarantine, manifests
<1>4. TypeOK'
  BY <1>2 DEF IInv, TypeOK, SyncQuarantine, manifests
<1>5. ManifestsKnown'
  BY DEF IInv, ManifestsKnown, SyncQuarantine, manifests
<1>6. CallKnown'
  BY DEF IInv, TypeOK, CallKnown, SyncQuarantine, manifests
<1> QED
  BY <1>2, <1>3, <1>4, <1>5, <1>6 DEF IInv

(* The collection ends, with or without an error.                          *)
LEMMA CollectionEndsKeepsInv ==
  ASSUME IInv, Collected \/ CollectionFails
  PROVE  IInv'
<1>1. mem = file /\ mem = disk
  BY DEF IInv, ManifestsKnown, Collected, CollectionFails
<1>2. CASE Collected
  BY <1>1, <1>2, ReturnKeepsInv DEF Collected, manifests, objects, IInv, TypeOK
<1>3. CASE CollectionFails
  BY <1>1, <1>3, ReturnKeepsInv, CloseKeepsInv DEF CollectionFails, objects, IInv, TypeOK
<1> QED
  BY <1>2, <1>3

-----------------------------------------------------------------------------
(* RepairDurability.                                                       *)
LEMMA RepairKeepsInv ==
  ASSUME IInv, Repair
  PROVE  IInv'
<1>1. TypeOK'
  BY DEF IInv, TypeOK, Repair, objects
<1>2. ObjectsKnown' /\ ReferencedObjectsAreThere'
  BY DEF IInv, ObjectsKnown, ReferencedObjectsAreThere, Safe, Repair, objects
<1>3. ManifestsKnown'
  BY DEF IInv, ManifestsKnown, Repair
<1>4. CallKnown'
  BY DEF Repair, CallKnown
<1> QED
  BY <1>1, <1>2, <1>3, <1>4 DEF IInv

(* A mutation that names no new object may be written at once.             *)
LEMMA MutateKeepsInv ==
  ASSUME IInv, Prepared, NEW changed \in Good \cap Changes(mem), changed.installed \subseteq mem.installed,
         Mutate(changed)
  PROVE  IInv'
<1>1. mem = file /\ mem = disk
  BY DEF IInv, ManifestsKnown, Prepared
<1>2. TypeOK'
  BY DEF IInv, TypeOK, Mutate, manifests, objects
<1>3. ManifestsKnown'
  BY <1>1 DEF IInv, ManifestsKnown, Prepared, Mutate, manifests
<1>4. Safe(changed)'
  BY <1>1 DEF IInv, ReferencedObjectsAreThere, Safe, Mutate, objects
<1>5. changed \in Changes(mem') /\ Legal(changed)
  BY DEF Mutate, manifests
<1>6. CallKnown'
  BY <1>4, <1>5 DEF CallKnown, Mutate, Safe
<1> QED
  BY <1>2, <1>3, <1>6, FilesUntouched DEF IInv, Mutate, manifests

(* SetConnection, SetPreferences and Remove.                               *)
LEMMA MutationKeepsInv ==
  ASSUME IInv, Mutation
  PROVE  IInv'
<1>1. Prepared /\ mem = file /\ mem \in Good
  BY DEF Mutation, Prepared, IInv, ManifestsKnown, TypeOK
<1>2. ASSUME NEW d \in Profiles \cup {None}, NEW c \in BOOLEAN, Mutate(Connection(mem, d, c))
      PROVE  IInv'
  <2>1. Connection(mem, d, c) \in Good
    BY <1>1, <1>2, ChangesAreGood DEF Mutate
  <2>3. Connection(mem, d, c) \in Changes(mem)
    BY DEF Changes
  <2>2. Connection(mem, d, c).installed = mem.installed
    BY <1>1 DEF Connection, Good, Manifests
  <2> QED
    BY <1>1, <1>2, <2>1, <2>2, <2>3, MutateKeepsInv
<1>3. ASSUME NEW m \in {"manual", "restore"}, Mutate([mem EXCEPT !.mode = m])
      PROVE  IInv'
  <2>1. [mem EXCEPT !.mode = m] \in Good
    BY <1>1, ChangesAreGood
  <2>3. [mem EXCEPT !.mode = m] \in Changes(mem)
    BY DEF Changes
  <2>2. [mem EXCEPT !.mode = m].installed = mem.installed
    BY <1>1 DEF Good, Manifests
  <2> QED
    BY <1>1, <1>3, <2>1, <2>2, <2>3, MutateKeepsInv
<1>4. ASSUME NEW p \in mem.installed, Mutate(Without(mem, p))
      PROVE  IInv'
  <2>1. Without(mem, p) \in Good
    BY <1>1, ChangesAreGood DEF Good, Manifests
  <2>3. Without(mem, p) \in Changes(mem)
    BY DEF Changes
  <2>2. Without(mem, p).installed \subseteq mem.installed
    BY <1>1 DEF Without, Good, Manifests
  <2> QED
    BY <1>1, <1>4, <2>1, <2>2, <2>3, MutateKeepsInv
<1> QED
  BY <1>2, <1>3, <1>4 DEF Mutation

-----------------------------------------------------------------------------
(* Publish, up to the manifest.                                            *)
LEMMA PublishKeepsInv ==
  ASSUME IInv, NEW batch \in SUBSET Profiles, Publish(batch)
  PROVE  IInv'
<1>1. mem = file /\ mem = disk /\ mem \in Good
  BY DEF Publish, Prepared, IInv, ManifestsKnown, TypeOK
<1>2. With(mem, batch) \in Good
  BY <1>1, ChangesAreGood
<1>3. With(mem, batch).installed = mem.installed \cup batch
  BY <1>1 DEF With, Good, Manifests
<1>4. TypeOK'
  BY <1>2 DEF IInv, TypeOK, Publish, manifests, objects
<1>5. ManifestsKnown'
  BY <1>1 DEF IInv, ManifestsKnown, Publish, Prepared, manifests
<1>6. With(mem, batch) \in Changes(mem') /\ Legal(With(mem, batch))
  BY <1>1 DEF Publish, manifests, Changes, Good, Manifests
<1>7. CallKnown'
  BY <1>2, <1>3, <1>6 DEF CallKnown, Publish, manifests
<1> QED
  BY <1>4, <1>5, <1>7, FilesUntouched DEF IInv, Publish, manifests

(* Staging adds to what is known to be whole in the transaction directory. *)
LEMMA StageKeepsInv ==
  ASSUME IInv, NEW p \in Profiles, Stage(p)
  PROVE  IInv'
<1>1. TypeOK'
  BY DEF IInv, TypeOK, Stage, manifests, objects
<1>2. ManifestsKnown'
  BY DEF IInv, ManifestsKnown, Stage, manifests
<1>3. CallKnown'
  BY DEF IInv, CallKnown, Stage, manifests
<1> QED
  BY <1>1, <1>2, <1>3, FilesUntouched DEF IInv, Stage, manifests

(* Everything the candidate adds has been staged.                          *)
LEMMA SyncTransactionKeepsInv ==
  ASSUME IInv, SyncTransaction
  PROVE  IInv'
<1>1. candidate \in Good /\ mem = file
  BY DEF IInv, CallKnown, ManifestsKnown, SyncTransaction
<1>2. TypeOK'
  BY <1>1 DEF IInv, TypeOK, Good, Manifests, SyncTransaction, manifests, objects
<1>3. ManifestsKnown'
  BY DEF IInv, ManifestsKnown, SyncTransaction, manifests
<1>4. candidate.installed \ todo' \subseteq file.installed /\ todo' \subseteq staged
  BY <1>1 DEF IInv, CallKnown, SyncTransaction
<1>5. CallKnown'
  BY <1>1, <1>4
     DEF IInv, ReferencedObjectsAreThere, Safe, CallKnown, SyncTransaction, manifests, objects
<1> QED
  BY <1>2, <1>3, <1>5, FilesUntouched DEF IInv, SyncTransaction, manifests

(* What is placed is whole, since it has been staged and synced.           *)
LEMMA PlaceKeepsInv ==
  ASSUME IInv, NEW p \in Profiles, Place(p)
  PROVE  IInv'
<1>1. p \in staged
  BY DEF IInv, CallKnown, Place
<1>2. /\ object' \in [Profiles -> Objects] /\ object'[p] = "whole"
      /\ after' \in [Profiles -> SUBSET Objects]
      /\ \A q \in Profiles \ {p} : object'[q] = object[q] /\ after'[q] = after[q]
      /\ after'[p] \in {after[p], after[p] \cup {"whole"}} /\ object'[p] \in after'[p]
      /\ object[p] = "whole" => after'[p] = after[p]
  BY <1>1 DEF IInv, TypeOK, ObjectsKnown, Objects, Place, objects
<1>3. TypeOK'
  BY <1>2 DEF IInv, TypeOK, Place, manifests
<1>4. ObjectsKnown'
  BY <1>2 DEF IInv, ObjectsKnown
<1>5. ReferencedObjectsAreThere'
  BY <1>2 DEF IInv, TypeOK, Good, Manifests, ReferencedObjectsAreThere, Safe, Place, manifests
<1>6. ManifestsKnown'
  BY DEF IInv, ManifestsKnown, Place, manifests
<1>7. CallKnown'
  <2>1. /\ candidate \in Good /\ todo \subseteq staged
        /\ candidate \in Changes(mem) /\ Legal(candidate)
    BY DEF IInv, CallKnown, Place
  <2>2. \A q \in candidate.installed \ todo : q \in Profiles \ {p} /\ object[q] = "whole" /\ after[q] = {"whole"}
    BY <2>1 DEF IInv, CallKnown, Place, Good, Manifests
  <2> QED
    BY <1>2, <2>1, <2>2 DEF CallKnown, Place, manifests
<1> QED
  BY <1>3, <1>4, <1>5, <1>6, <1>7 DEF IInv

(* A placed object becomes durable with its directory.                     *)
LEMMA SyncPlacedKeepsInv ==
  ASSUME IInv, SyncPlaced
  PROVE  IInv'
<1>1. moving \in Profiles /\ object[moving] = "whole" /\ candidate \in Good /\ todo \subseteq staged
  BY DEF IInv, CallKnown, TypeOK, SyncPlaced
<1>2. after' \in [Profiles -> SUBSET Objects] /\ ObjectsKnown'
  BY <1>1, SyncKeepsObjects DEF SyncPlaced
<1>3. ReferencedObjectsAreThere'
  BY <1>1, SyncKeepsObjects
     DEF IInv, TypeOK, Good, Manifests, ReferencedObjectsAreThere, Safe, SyncPlaced, manifests
<1>4. TypeOK'
  BY <1>2 DEF IInv, TypeOK, SyncPlaced, manifests
<1>5. ManifestsKnown'
  BY DEF IInv, ManifestsKnown, SyncPlaced, manifests
<1>6. CallKnown'
  <2>1. \A q \in candidate.installed \ (todo \ {moving}) :
          q \in Profiles /\ object[q] = "whole" /\ (after[q] = {"whole"} \/ q = moving)
    BY <1>1 DEF IInv, CallKnown, SyncPlaced, Good, Manifests
  <2>2. \A q \in candidate.installed \ (todo \ {moving}) : after'[q] = {"whole"}
    BY <1>1, <2>1, SyncKeepsObjects DEF SyncPlaced
  <2>3. candidate \in Changes(mem) /\ Legal(candidate)
    BY DEF IInv, CallKnown, SyncPlaced
  <2> QED
    BY <1>1, <2>1, <2>2, <2>3 DEF CallKnown, SyncPlaced, manifests
<1> QED
  BY <1>2, <1>3, <1>4, <1>5, <1>6 DEF IInv

(* The manifest is written when every object it names is durable.          *)
LEMMA AllPlacedKeepsInv ==
  ASSUME IInv, AllPlaced
  PROVE  IInv'
<1>1. TypeOK'
  BY DEF IInv, TypeOK, AllPlaced, manifests, objects
<1>2. ManifestsKnown'
  BY DEF IInv, ManifestsKnown, AllPlaced, manifests
<1>3. CallKnown'
  BY DEF IInv, CallKnown, Safe, AllPlaced, manifests, objects
<1> QED
  BY <1>1, <1>2, <1>3, FilesUntouched DEF IInv, AllPlaced, manifests

(* An error before the rename leaves all three manifests as they are.      *)
LEMMA FailsKeepsInv ==
  ASSUME IInv, Fails
  PROVE  IInv'
<1>1. mem = file /\ mem = disk
  BY DEF IInv, ManifestsKnown, Fails
<1> QED
  BY <1>1, ReturnKeepsInv DEF Fails, manifests, objects, IInv, TypeOK

-----------------------------------------------------------------------------
(* WriteJSONAtomic.                                                        *)
LEMMA RenameManifestKeepsInv ==
  ASSUME IInv, RenameManifest
  PROVE  IInv'
<1>1. candidate \in Good /\ Safe(candidate)
  BY DEF IInv, CallKnown, RenameManifest
<1>2. TypeOK'
  BY <1>1 DEF IInv, TypeOK, RenameManifest, objects
<1>3. ObjectsKnown' /\ ReferencedObjectsAreThere'
  BY <1>1 DEF IInv, ObjectsKnown, ReferencedObjectsAreThere, Safe, RenameManifest, objects
<1>4. ManifestsKnown'
  BY DEF IInv, ManifestsKnown, RenameManifest
<1>5. CallKnown'
  BY <1>1 DEF CallKnown, Safe, RenameManifest, objects
<1> QED
  BY <1>2, <1>3, <1>4, <1>5 DEF IInv

(* The published manifest is durable; what it no longer names may go.      *)
LEMMA SyncManifestKeepsInv ==
  ASSUME IInv, SyncManifest
  PROVE  IInv'
<1>1. candidate \in Good /\ file = candidate /\ mem = disk /\ serving
  BY DEF IInv, CallKnown, ManifestsKnown, SyncManifest
<1>2. TypeOK'
  BY <1>1 DEF IInv, TypeOK, SyncManifest, Return, objects, Good, Manifests
<1>3. ObjectsKnown' /\ ReferencedObjectsAreThere'
  BY DEF IInv, ObjectsKnown, ReferencedObjectsAreThere, Safe, SyncManifest, objects
<1>4. ManifestsKnown'
  BY <1>1 DEF ManifestsKnown, SyncManifest, Return
<1>5. CallKnown'
  BY <1>1 DEF CallKnown, SyncManifest, Return
<1> QED
  BY <1>2, <1>3, <1>4, <1>5 DEF IInv

(* After an error behind the rename memory follows the file, flagged.      *)
LEMMA AmbiguousKeepsInv ==
  ASSUME IInv, Ambiguous
  PROVE  IInv'
<1>1. file = candidate
  BY DEF IInv, ManifestsKnown, Ambiguous
<1> QED
  BY <1>1, ReturnKeepsInv DEF Ambiguous, objects

(* Either manifest a power loss may leave names only objects it leaves.    *)
LEMMA PowerLossKeepsInv ==
  ASSUME IInv, PowerLoss
  PROVE  IInv'
<1>1. \A p \in Profiles : object'[p] \in after[p] /\ after'[p] = {object'[p]}
  BY DEF PowerLoss
<1>2. TypeOK'
  BY DEF IInv, TypeOK, PowerLoss, Close
<1>3. ObjectsKnown'
  BY <1>1 DEF IInv, ObjectsKnown
<1>4. ReferencedObjectsAreThere'
  BY <1>1 DEF IInv, TypeOK, Good, Manifests, ReferencedObjectsAreThere, Safe, PowerLoss
<1>5. ManifestsKnown' /\ CallKnown'
  BY DEF PowerLoss, Close, ManifestsKnown, CallKnown
<1> QED
  BY <1>2, <1>3, <1>4, <1>5 DEF IInv

(* Every step of the store, of the daemon and of the machine.              *)
LEMMA NextKeepsInv == IInv /\ [Next]_vars => IInv'
<1> SUFFICES ASSUME IInv, [Next]_vars PROVE IInv'
  OBVIOUS
<1>1. CASE Opening
  BY <1>1, OpenStoreKeepsInv, QuarantineKeepsInv, SyncQuarantineKeepsInv, CollectionEndsKeepsInv
     DEF Opening
<1>2. CASE Repair
  BY <1>2, RepairKeepsInv
<1>3. CASE Mutation
  BY <1>3, MutationKeepsInv
<1>4. CASE \E batch \in SUBSET Profiles : Publish(batch)
  BY <1>4, PublishKeepsInv
<1>5. CASE Publishing
  BY <1>5, StageKeepsInv, PlaceKeepsInv, SyncTransactionKeepsInv, SyncPlacedKeepsInv,
     AllPlacedKeepsInv, FailsKeepsInv DEF Publishing
<1>6. CASE Writing
  BY <1>6, RenameManifestKeepsInv, SyncManifestKeepsInv, AmbiguousKeepsInv DEF Writing
<1>7. CASE Crash
  BY <1>7, CloseKeepsInv DEF Crash
<1>8. CASE PowerLoss
  BY <1>8, PowerLossKeepsInv
<1>9. CASE UNCHANGED vars
  BY <1>9 DEF IInv, TypeOK, ObjectsKnown, ReferencedObjectsAreThere, Safe, ManifestsKnown,
     CallKnown, vars
<1> QED
  BY <1>1, <1>2, <1>3, <1>4, <1>5, <1>6, <1>7, <1>8, <1>9 DEF Next

-----------------------------------------------------------------------------
(* The invariant, for every set of profiles and faults.                    *)
THEOREM StoreInvariant == Spec => []IInv
<1>1. Init => IInv
  BY InitEstablishesInv
<1>2. IInv /\ [Next]_vars => IInv'
  BY NextKeepsInv
<1> QED
  BY <1>1, <1>2, PTL DEF Spec

(* Manifests and objects are well formed, whatever is interrupted.         *)
THEOREM StoreTypeCorrect == Spec => []TypeOK
<1>1. IInv => TypeOK
  BY DEF IInv
<1> QED
  BY <1>1, StoreInvariant, PTL

(* No crash and no power loss leaves a manifest that names a missing       *)
(* object.                                                                 *)
THEOREM ObjectsOutliveManifests == Spec => []ReferencedObjectsAreThere
<1>1. IInv => ReferencedObjectsAreThere
  BY DEF IInv
<1> QED
  BY <1>1, StoreInvariant, PTL

(* Snapshot, Resolve and PrepareExecution read what is published.          *)
THEOREM MemoryIsTheFile == Spec => []ReadersSeeThePublished
<1>1. IInv => ReadersSeeThePublished
  BY DEF IInv, ManifestsKnown, ReadersSeeThePublished
<1> QED
  BY <1>1, StoreInvariant, PTL

(* A call that returned without ErrOutcomeAmbiguous is durable.            *)
THEOREM SuccessIsDurable == Spec => []NoFlagMeansDurable
<1>1. IInv => NoFlagMeansDurable
  BY DEF IInv, ManifestsKnown, NoFlagMeansDurable
<1> QED
  BY <1>1, StoreInvariant, PTL

(* OpenStore never meets an object it would refuse.                        *)
THEOREM ObjectsAreNeverBroken == Spec => []NoBrokenObject
<1>1. IInv => NoBrokenObject
  BY DEF IInv, ObjectsKnown, NoBrokenObject
<1> QED
  BY <1>1, StoreInvariant, PTL

(* OpenStore returns only after it has removed what the manifest does not  *)
(* name.                                                                   *)
THEOREM OpeningCollectsOrphans == Spec => OpenLeavesNoOrphans
<1>1. IInv /\ [Next]_vars =>
        [at' = "idle" /\ ~serving =>
           {p \in Profiles : object'[p] # "absent"} = mem'.installed]_vars
  <2> SUFFICES ASSUME IInv, Next, at' = "idle", ~serving
               PROVE  {p \in Profiles : object'[p] # "absent"} = mem'.installed
    OBVIOUS
  <2>1. at \in {"closed", "collecting", "moved"}
    BY DEF IInv, ManifestsKnown, TypeOK
  <2>2. Collected
    BY <2>1 DEF Next, Opening, OpenStore, Quarantine, SyncQuarantine, CollectionFails, Close,
       Repair, Mutation, Prepared, Publish, Publishing, Stage, Place, SyncTransaction,
       SyncPlaced, AllPlaced, Fails, Writing, RenameManifest, SyncManifest, Ambiguous,
       Crash, PowerLoss
  <2>3. todo = {} /\ mem = file /\ mem' = mem /\ object' = object /\ at = "collecting"
    BY <2>2 DEF Collected, manifests, objects, IInv, ManifestsKnown
  <2>4. \A p \in Profiles \ mem.installed : object[p] = "absent"
    BY <2>3 DEF IInv, CallKnown
  <2>5. mem.installed \subseteq Profiles
    BY <2>3 DEF IInv, TypeOK, Good, Manifests
  <2>6. \A p \in mem.installed : object[p] = "whole"
    BY <2>3 DEF IInv, ReferencedObjectsAreThere, Safe
  <2> QED
    BY <2>3, <2>4, <2>5, <2>6
<1> QED
  BY <1>1, StoreInvariant, PTL DEF Spec, OpenLeavesNoOrphans

-----------------------------------------------------------------------------
(* The store's files, seen as a Library.                                   *)
Visible == [mem |-> file, disk |-> disk, unknown |-> file # disk]

(* Syncing the published manifest is the repair of its durability.         *)
LEMMA SyncIsRepair ==
  ASSUME file' = file, disk' = file
  PROVE  Published!Repair
<1> DEFINE repaired == IF Visible.unknown THEN Published!Durable(Visible.mem) ELSE Visible
<1>1. Visible' = repaired
  <2>1. Visible.unknown <=> file # disk
    BY DEF Visible
  <2>2. CASE file = disk
    BY <2>1, <2>2 DEF Visible
  <2>3. CASE file # disk
    BY <2>1, <2>3 DEF Visible, Published!Durable
  <2> QED
    BY <2>2, <2>3
<1>2. [lib |-> repaired, ok |-> TRUE] \in Published!RepairOutcomes(Visible)
  BY DEF Published!RepairOutcomes
<1>3. [lib |-> repaired, ok |-> TRUE].lib = repaired
  OBVIOUS
<1>4. \E r \in Published!RepairOutcomes(Visible) : Visible' = r.lib
  BY <1>1, <1>2, <1>3 DEF repaired
<1> QED
  BY <1>4 DEF Published!Repair, Visible

(* Each step is one of PublishedLibrary's, or changes nothing it shows.    *)
LEMMA StepIsPublished ==
  ASSUME May("store"), IInv, [Next]_vars
  PROVE  [Published!Next]_Visible
<1>1. CASE UNCHANGED <<file, disk>>
  BY <1>1 DEF Visible
<1>2. CASE OpenStore \/ Repair \/ SyncManifest
  BY <1>2, SyncIsRepair DEF Published!Next, OpenStore, Repair, SyncManifest
<1>3. CASE RenameManifest
  <2>1. /\ file = disk /\ disk' = disk /\ file' = candidate
        /\ candidate \in Changes(file) /\ Legal(candidate)
    BY <1>3 DEF IInv, ManifestsKnown, CallKnown, RenameManifest
  <2>2. CASE candidate = file
    BY <2>1, <2>2 DEF Visible
  <2>3. CASE candidate # file
    <3>1. Visible' = [mem |-> candidate, disk |-> Visible.mem, unknown |-> TRUE]
      BY <2>1, <2>3 DEF Visible
    <3>2. ~Visible.unknown /\ Visible.mem = file
      BY <2>1 DEF Visible
    <3>3. Published!Changes(file) = Changes(file) /\ (Published!Legal(candidate) <=> Legal(candidate))
      BY DEF Published!Changes, Changes, Published!Legal, Legal, Published!Connection, Connection,
         Published!Without, Without, Published!With, With, Published!Profiles, Profiles
    <3>4. [lib |-> Visible', ok |-> FALSE] \in Published!PublishOutcomes(Visible, candidate)
      BY <3>1 DEF Published!PublishOutcomes, Published!May, May
    <3>5. \E w \in Published!PublishOutcomes(Visible, candidate) : Visible' = w.lib
      BY <3>4
    <3>6. candidate \in Published!Changes(Visible.mem) /\ Published!Legal(candidate)
      BY <2>1, <3>2, <3>3
    <3>7. Published!Write
      BY <3>2, <3>5, <3>6 DEF Published!Write, Visible
    <3> QED
      BY <3>7 DEF Published!Next
  <2> QED
    BY <2>2, <2>3
<1>4. CASE PowerLoss
  <2>1. file' \in {file, disk} /\ disk' = file'
    BY <1>4 DEF PowerLoss
  <2>2. Visible' \in {Published!Durable(Visible.disk), Published!Durable(Visible.mem)}
    BY <2>1 DEF Visible, Published!Durable
  <2> QED
    BY <2>2 DEF Published!Next, Published!PowerLoss, Published!ReopenedAfterPowerLoss, Visible
<1> QED
  BY <1>1, <1>2, <1>3, <1>4
     DEF Next, Opening, Quarantine, SyncQuarantine, Collected, CollectionFails, Mutation,
     Mutate, Publish, Publishing, Stage, Place, SyncTransaction, SyncPlaced, AllPlaced, Fails,
     Writing, Ambiguous, Crash, manifests, vars

(* The store refines PublishedLibrary: a call that is interrupted is made  *)
(* or not made, and nothing is written over a change that may not last.    *)
THEOREM StoreImplementsLibrary == May("store") => (Spec => ImplementsLibrary)
<1> SUFFICES ASSUME May("store") PROVE Spec => ImplementsLibrary
  OBVIOUS
<1>1. Init => Published!Init
  BY DEF Init, Published!Init, EmptyLibrary, Durable, Published!EmptyLibrary, Published!Durable
<1>2. IInv /\ [Next]_vars => [Published!Next]_Visible
  BY StepIsPublished
<1>3. Spec => Published!Init /\ [][Published!Next]_Visible
  BY <1>1, <1>2, StoreInvariant, PTL DEF Spec
<1> QED
  BY <1>3 DEF ImplementsLibrary, Published!Spec, Visible
=============================================================================

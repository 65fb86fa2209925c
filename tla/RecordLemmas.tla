---------------------------- MODULE RecordLemmas ----------------------------
(***************************************************************************)
(* The records of an inspection, for any batch and library: what both the  *)
(* proofs of the service and those of the dialog need of them.             *)
(***************************************************************************)
EXTENDS ImportRecords, WellFoundedInduction, TLAPS

(* Of equal files in a batch there is a first.                             *)
LEMMA FirstOfEqual ==
  ASSUME NEW batch \in Seq(Contents), NEW i \in DOMAIN batch
  PROVE  \E k \in DOMAIN batch :
           batch[k] = batch[i] /\ \A j \in 1..(k-1) : batch[j] # batch[k]
<1> DEFINE T == {k \in DOMAIN batch : batch[k] = batch[i]}
<1> DEFINE n == Len(batch)
<1>d. n \in Nat /\ DOMAIN batch = 1..n
  OBVIOUS
<1> HIDE DEF n
<1>1. T \subseteq Nat /\ T # {}
  BY <1>d
<1>2. PICK k \in T : \A j \in T : <<j, k>> \notin OpToRel(<, Nat)
  BY <1>1, NatLessThanWellFounded, WFMin
<1>3. ASSUME NEW j \in 1..(k-1), batch[j] = batch[k]
      PROVE  FALSE
  <2>0. k \in DOMAIN batch /\ batch[k] = batch[i]
    OBVIOUS
  <2>1. k \in 1..n /\ j \in Nat /\ j < k /\ j \in 1..n
    <3>1. k \in 1..n
      BY <1>d, <2>0
    <3> HIDE DEF T
    <3> QED
      BY <1>d, <3>1, <1>3
  <2>a. j \in T
    BY <1>d, <2>0, <1>3, <2>1
  <2>2. <<j, k>> \in OpToRel(<, Nat)
    BY <2>1 DEF OpToRel
  <2> QED
    BY <2>a, <2>2, <1>2
<1> QED
  BY <1>2, <1>3

(* generateIdentity's names are IDs, and a content's own one if it has one.*)
LEMMA NamesKnown ==
  ASSUME NEW batch, NEW profiles, NEW docs, NEW name \in Namings(batch, profiles, docs)
  PROVE  /\ \A x \in Accepted(batch) : name[x] \in Profiles
         /\ \A x \in Accepted(batch) :
              Holds(profiles, x) => [id |-> name[x], content |-> x] \in profiles
  BY DEF Namings

(* An inspection is complete: a file that is neither new nor in the        *)
(* library repeats one that is new.                                        *)
LEMMA RecordsKnown ==
  ASSUME NEW batch \in Batches, NEW profiles \in SUBSET Entries, NEW docs,
         NEW name \in Namings(batch, profiles, docs)
  PROVE  /\ RecordsOf(batch, name, profiles) \subseteq Records
         /\ Described(RecordsOf(batch, name, profiles))
              \subseteq profiles \cup Added(RecordsOf(batch, name, profiles))
<1> DEFINE records == RecordsOf(batch, name, profiles)
           New(i) == ~Holds(profiles, batch[i]) /\ \A j \in 1..(i-1) : batch[j] # batch[i]
<1>1. batch \in Seq(Contents)
  BY ImportAssumption
<1>2. records = {[id |-> name[batch[i]], content |-> batch[i], new |-> New(i)] :
                   i \in {k \in DOMAIN batch : batch[k] \in Accepted(batch)}}
  BY DEF RecordsOf
<1>3. records \subseteq Records
  <2> SUFFICES ASSUME NEW r \in records PROVE r \in Records
    OBVIOUS
  <2>1. PICK i \in DOMAIN batch :
          /\ batch[i] \in Accepted(batch)
          /\ r = [id |-> name[batch[i]], content |-> batch[i], new |-> New(i)]
    BY <1>2
  <2>2. New(i) \in BOOLEAN
    OBVIOUS
  <2>3. batch[i] \in Contents /\ name[batch[i]] \in Profiles
    BY <1>1, <2>1, NamesKnown
  <2> HIDE DEF New
  <2> QED
    BY <2>1, <2>2, <2>3 DEF Records
<1>4. ASSUME NEW e \in Described(records) PROVE e \in profiles \cup Added(records)
  <2>1. PICK r \in records : e = [id |-> r.id, content |-> r.content]
    BY <1>4 DEF Described
  <2>2. PICK i \in DOMAIN batch :
          /\ batch[i] \in Accepted(batch)
          /\ r = [id |-> name[batch[i]], content |-> batch[i], new |-> New(i)]
    BY <1>2
  <2>3. e = [id |-> name[batch[i]], content |-> batch[i]]
    BY <2>1, <2>2
  <2>4. CASE Holds(profiles, batch[i])
    BY <2>2, <2>3, <2>4, NamesKnown
  <2>5. CASE ~Holds(profiles, batch[i])
    <3>1. PICK k \in DOMAIN batch :
            batch[k] = batch[i] /\ \A j \in 1..(k-1) : batch[j] # batch[k]
      BY <1>1, FirstOfEqual
    <3> DEFINE first == [id |-> name[batch[k]], content |-> batch[k], new |-> New(k)]
    <3>2. first \in records
      BY <1>2, <2>2, <3>1
    <3>3. New(k)
      BY <2>5, <3>1
    <3>4. first.new /\ e = [id |-> first.id, content |-> first.content]
      BY <3>1, <3>3, <2>3
    <3> HIDE DEF first
    <3>5. e \in Added(records)
      BY <3>2, <3>4 DEF Added, Described
    <3> QED
      BY <3>5
  <2> QED
    BY <2>4, <2>5
<1> QED
  BY <1>3, <1>4

(* An entry of an inspection is one the library has or bears an ID that    *)
(* was not in use, and of two entries with one ID there is only one.       *)
LEMMA EntriesNamed ==
  ASSUME NEW batch, NEW profiles, NEW docs, NEW name \in Namings(batch, profiles, docs),
         NEW e \in Described(RecordsOf(batch, name, profiles))
  PROVE  /\ e \in profiles \/ e.id \notin Ids(profiles) \cup UNION {Ids(d.records) : d \in docs}
         /\ \A f \in Described(RecordsOf(batch, name, profiles)) : e.id = f.id => e = f
<1>1. ASSUME NEW f \in Described(RecordsOf(batch, name, profiles))
      PROVE  \E x \in Accepted(batch) : f = [id |-> name[x], content |-> x]
  <2>1. PICK r \in RecordsOf(batch, name, profiles) : f = [id |-> r.id, content |-> r.content]
    BY <1>1 DEF Described
  <2>2. \E x \in Accepted(batch) : r.id = name[x] /\ r.content = x
    BY DEF RecordsOf
  <2> QED
    BY <2>1, <2>2
<1>2. PICK x \in Accepted(batch) : e = [id |-> name[x], content |-> x]
  BY <1>1
<1>3. e \in profiles \/ e.id \notin Ids(profiles) \cup UNION {Ids(d.records) : d \in docs}
  BY <1>2 DEF Namings
<1>4. ASSUME NEW f \in Described(RecordsOf(batch, name, profiles)), e.id = f.id PROVE e = f
  <2>1. PICK y \in Accepted(batch) : f = [id |-> name[y], content |-> y]
    BY <1>1
  <2>2. x = y
    BY <1>2, <1>4, <2>1 DEF Namings
  <2> QED
    BY <1>2, <2>1, <2>2
<1> QED
  BY <1>3, <1>4
=============================================================================

--------------------------- MODULE ImportRecords ---------------------------
(***************************************************************************)
(* What an import is about: files, the records of their inspection and the *)
(* entries they become in the library.                                     *)
(* Source: src/internal/profiles/import.go.                                *)
(***************************************************************************)
EXTENDS Library, Naturals, Sequences

CONSTANTS Contents,       \* the contents of the files
          Unacceptable,   \* the contents the import policy refuses
          Batches,        \* the sequences of files a client may choose
          Calls,          \* the requests that may be under way at a time
          MaxInspections  \* bound: how many inspections clients are given

ASSUME ImportAssumption ==
  /\ Unacceptable \subseteq Contents
  /\ Batches \subseteq Seq(Contents)
  /\ None \notin Calls
  /\ MaxInspections \in Nat

Entries == [id : Profiles, content : Contents]

(* InspectionRecord: new is the disposition "new", as opposed to           *)
(* "already_imported".                                                     *)
Records == [id : Profiles, content : Contents, new : BOOLEAN]

Ids(profiles) == {p.id : p \in profiles}

Holds(profiles, content) == \E p \in profiles : p.content = content

Described(records) == {[id |-> r.id, content |-> r.content] : r \in records}

Added(records) == Described({r \in records : r.new})

Files(batch) == {batch[i] : i \in DOMAIN batch}

Accepted(batch) == Files(batch) \ Unacceptable

Ready(batch) == Files(batch) \cap Unacceptable = {}

Unique(profiles) ==
  \A p, q \in profiles : p.id = q.id \/ p.content = q.content => p = q

(* generateIdentity: an ID per content, drawn from so many that none comes *)
(* up twice; a content already in the library keeps its own.               *)
Namings(batch, profiles, given) ==
  LET used == Ids(profiles) \cup UNION {Ids(d.records) : d \in given} IN
    {name \in [Accepted(batch) -> Profiles] :
       /\ \A x, y \in Accepted(batch) : name[x] = name[y] => x = y
       /\ \A x \in Accepted(batch) :
            IF Holds(profiles, x)
            THEN [id |-> name[x], content |-> x] \in profiles
            ELSE name[x] \notin used}

RecordsOf(batch, name, profiles) ==
  {[id |-> name[batch[i]], content |-> batch[i],
    new |-> /\ ~Holds(profiles, batch[i])
            /\ \A j \in 1..(i-1) : batch[j] # batch[i]] :
     i \in {k \in DOMAIN batch : batch[k] \in Accepted(batch)}}

-----------------------------------------------------------------------------
(* What a client is answered: refused stands for the errors after which    *)
(* the same request may be made again, reinspect for those after which the *)
(* inspection is useless, lost for a daemon that stopped.                  *)
Answers == {None, "inspected", "issues", "imported", "refused", "reinspect",
            "ambiguous", "lost"}

NoCall == [at |-> "free", files |-> <<>>, doc |-> None, answer |-> None]

Answered(answer) == [NoCall EXCEPT !.at = "answered", !.answer = answer]
=============================================================================

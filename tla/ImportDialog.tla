---------------------------- MODULE ImportDialog ----------------------------
(***************************************************************************)
(* The import dialog of one browser tab, against what ImportContract       *)
(* promises: the user chooses files, has them inspected, reviews and       *)
(* imports them, and may cancel, close, discard or reload at any moment;   *)
(* answers are late or lost, and an import whose outcome is uncertain is   *)
(* reconciled with the library before the dialog says how it ended.        *)
(* Source: src/internal/web/assets/import.js.                              *)
(***************************************************************************)
EXTENDS ImportContract

VARIABLES
  tab,    \* the dialog's variables
  flow,   \* for each request, how far a commit() that waits for it has come
  ever    \* history: the profiles the library has ever held

dialog == <<tab, flow>>

ASSUME InspectionAssumption == None \notin Inspections

(* reset(); inspection keeps the answer, ready its commit_ready; asking is *)
(* the controller of the inspection, busy is appState.importBusy.          *)
Fresh == [phase |-> "choose", files |-> <<>>, inspection |-> None, ready |-> FALSE,
          asking |-> None, committing |-> FALSE, busy |-> FALSE, notice |-> FALSE,
          outcome |-> None, open |-> FALSE]

NoFlow == [at |-> "none", doc |-> None, present |-> {}]

DialogInit ==
  /\ Init
  /\ tab = Fresh
  /\ flow = [c \in Calls |-> NoFlow]
  /\ ever = {}

-----------------------------------------------------------------------------
Open ==
  /\ ~tab.open /\ ~tab.busy
  /\ tab' = [tab EXCEPT !.open = TRUE]
  /\ UNCHANGED <<vars, flow>>

SelectFiles(batch) ==
  /\ tab.open /\ tab.phase = "choose"
  /\ tab' = [tab EXCEPT !.files = batch, !.inspection = None, !.ready = FALSE,
                        !.outcome = None]
  /\ UNCHANGED <<vars, flow>>

Asked == {c \in Calls : calls[c].at = "asked"}

(* inspect(), by either of its buttons.                                    *)
InspectFiles(c) ==
  /\ Cardinality(given) + Cardinality(Asked) < MaxInspections
  /\ tab.open /\ tab.phase \in {"choose", "review"}
  /\ ~tab.committing /\ tab.asking = None
  /\ tab.files # <<>>
  /\ flow[c] = NoFlow
  /\ Ask(c, tab.files)
  /\ tab' = [tab EXCEPT !.phase = "inspect", !.asking = c, !.busy = TRUE]
  /\ UNCHANGED flow

NotInspected == tab' = [tab EXCEPT !.phase = "choose", !.asking = None, !.busy = FALSE]

Cancel ==
  /\ tab.open /\ tab.phase = "inspect"
  /\ tab.asking # None
  /\ NotInspected
  /\ UNCHANGED <<vars, flow>>

Reviewed(c) ==
  IF calls[c].answer \in {"inspected", "issues"}
  THEN tab' = [tab EXCEPT !.inspection = calls[c].doc, !.phase = "review",
                          !.ready = calls[c].answer = "inspected",
                          !.asking = None, !.busy = FALSE]
  ELSE NotInspected

(* Mutant of Inspected: an answer nobody waits for any more is taken.      *)
InspectedLate(c) ==
  /\ flow[c] = NoFlow
  /\ calls[c].doc # None
  /\ Receive(c)
  /\ Reviewed(c)
  /\ UNCHANGED flow

(* The answer is shown, unless its request was cancelled or discarded.     *)
Inspected(c) ==
  /\ tab.asking = c
  /\ Receive(c)
  /\ Reviewed(c)
  /\ UNCHANGED flow

InspectionLost ==
  /\ tab.asking # None
  /\ May("network")
  /\ NotInspected
  /\ UNCHANGED <<vars, flow>>

-----------------------------------------------------------------------------
(* commit() up to its await; trust is confirmed and the metadata valid.    *)
Commit(c) ==
  /\ tab.open /\ tab.phase = "review"
  /\ ~tab.committing /\ ~tab.busy
  /\ tab.ready
  /\ flow[c] = NoFlow
  /\ Submit(c, tab.files, tab.inspection)
  /\ tab' = [tab EXCEPT !.phase = "import", !.committing = TRUE, !.busy = TRUE]
  /\ flow' = [flow EXCEPT ![c] = [NoFlow EXCEPT !.at = "waiting", !.doc = tab.inspection]]

Return(c) == flow' = [flow EXCEPT ![c] = NoFlow]

(* settleSuccess, finishCommitAttempt.                                     *)
Complete(c, profiles) ==
  /\ tab' = [tab EXCEPT !.outcome = profiles, !.busy = FALSE, !.phase = "outcome",
                        !.committing = FALSE]
  /\ Return(c)

(* Nothing more can be done with the dialog: "Do not retry".               *)
Block(c) ==
  /\ tab' = [tab EXCEPT !.busy = TRUE, !.open = FALSE, !.committing = FALSE]
  /\ Return(c)

(* Mutant of BackToReview: the page is left busy.                          *)
BackToReviewBusy(c) ==
  /\ tab' = [tab EXCEPT !.phase = "review", !.committing = FALSE]
  /\ Return(c)

BackToReview(c) ==
  /\ tab' = [tab EXCEPT !.phase = "review", !.busy = FALSE, !.committing = FALSE]
  /\ Return(c)

(* With nothing left to mark as not ready, the handler ends by a TypeError.*)
InspectAgain(c) ==
  /\ tab' = IF tab.inspection = None THEN [tab EXCEPT !.phase = "review"]
            ELSE [tab EXCEPT !.phase = "review", !.ready = FALSE, !.busy = FALSE,
                             !.committing = FALSE]
  /\ Return(c)

(* Mutant of Uncertain: what was asked for is taken to be done.            *)
UncertainTrusted(c) == Complete(c, Described(flow[c].doc.records))

(* reconcileOutcome, up to its await: it goes by the inspection the dialog *)
(* has now, and if there is none ends by a TypeError, which is caught.     *)
Uncertain(c) ==
  IF tab.inspection = None THEN Block(c)
  ELSE IF Added(tab.inspection.records) = {}
       THEN Complete(c, Described(tab.inspection.records))
  ELSE /\ flow' = [flow EXCEPT ![c].at = "reconciling", ![c].doc = tab.inspection]
       /\ UNCHANGED tab

CommitAnswered(c) ==
  /\ flow[c].at = "waiting"
  /\ Receive(c)
  /\ CASE calls[c].answer = "imported"  -> Complete(c, Described(flow[c].doc.records))
       [] calls[c].answer = "refused"   -> BackToReview(c)
       [] calls[c].answer = "reinspect" -> InspectAgain(c)
       [] calls[c].answer \in {"ambiguous", "lost"} -> Uncertain(c)

(* The connection breaks; the daemon may not have noticed.                 *)
AnswerLost(c) ==
  /\ flow[c].at = "waiting"
  /\ May("network")
  /\ Uncertain(c)
  /\ UNCHANGED vars

(* The proxy answers in its stead: an error with a code of no meaning.     *)
ProxyAnswers(c) ==
  /\ flow[c].at = "waiting"
  /\ May("proxy")
  /\ BackToReview(c)
  /\ UNCHANGED vars

(* reconcileImport: the library is read ...                                *)
List(c) ==
  /\ flow[c].at = "reconciling"
  /\ \/ /\ flow' = [flow EXCEPT ![c].at = "listed",
               ![c].present = Ids(Added(flow[c].doc.records)) \cap Ids(lib.mem)]
        /\ UNCHANGED tab
     \/ May("network") /\ Block(c)
  /\ UNCHANGED vars

(* Mutant of Conclude: as long as nothing is there, the library is read    *)
(* again.                                                                  *)
ConcludePolling(c) ==
  /\ flow[c].at = "listed"
  /\ IF flow[c].present = {}
     THEN flow' = [flow EXCEPT ![c].at = "reconciling"] /\ UNCHANGED tab
     ELSE Complete(c, Added(flow[c].doc.records))
  /\ UNCHANGED vars

(* ... and its answer arrives.                                             *)
Conclude(c) ==
  /\ flow[c].at = "listed"
  /\ LET proposed == Added(flow[c].doc.records) IN
       IF flow[c].present = Ids(proposed) THEN Complete(c, proposed)
       ELSE IF flow[c].present = {}
            THEN BackToReview(c)
       ELSE Block(c)
  /\ UNCHANGED vars

-----------------------------------------------------------------------------
(* requestClose().                                                         *)
Close ==
  /\ tab.open
  /\ tab' = IF ~tab.committing /\ tab.files # <<>> /\ tab.outcome = None
            THEN [tab EXCEPT !.notice = TRUE]
            ELSE [tab EXCEPT !.open = FALSE]
  /\ UNCHANGED <<vars, flow>>

KeepReviewing ==
  /\ tab.open /\ tab.notice
  /\ tab' = [tab EXCEPT !.notice = FALSE]
  /\ UNCHANGED <<vars, flow>>

(* The buttons "Discard and close" and "Return to profiles".               *)
Leave ==
  /\ tab.open
  /\ tab.notice \/ tab.phase = "outcome"
  /\ tab' = Fresh
  /\ UNCHANGED <<vars, flow>>

Reload ==
  /\ tab' = Fresh
  /\ flow' = [c \in Calls |-> NoFlow]
  /\ UNCHANGED vars

(* Mutant of Drop: an answer is lost that is waited for.                   *)
DropAny(c) == Receive(c) /\ UNCHANGED dialog

(* An answer nobody waits for.                                             *)
Drop(c) ==
  /\ tab.asking # c /\ flow[c].at # "waiting"
  /\ Receive(c)
  /\ UNCHANGED dialog

User ==
  \/ Open \/ Cancel \/ Close \/ KeepReviewing \/ Leave \/ Reload
  \/ \E batch \in Batches : SelectFiles(batch)
  \/ \E c \in Calls : InspectFiles(c) \/ Commit(c)

Await(c) ==
  Inspected(c) \/ CommitAnswered(c) \/ List(c) \/ Conclude(c)

Breakdown == InspectionLost \/ \E c \in Calls : AnswerLost(c) \/ ProxyAnswers(c)

Remembered == ever' = ever \cup lib'.mem

(* The daemon's handler of a request, and what the browser awaits of it.   *)
Handle(c) == Serve(c) /\ UNCHANGED dialog /\ Remembered

Resume(c) == (Await(c) \/ Drop(c)) /\ Remembered

DialogNext ==
  \/ (User \/ Breakdown) /\ Remembered
  \/ Environment /\ UNCHANGED dialog /\ Remembered
  \/ \E c \in Calls : Handle(c) \/ Resume(c)

dialogVars == <<vars, dialog, ever>>

(* Handlers run to their end, and what the browser awaits is answered or   *)
(* fails; the user need do nothing.                                        *)
DialogFairness ==
  \A c \in Calls : WF_dialogVars(Handle(c)) /\ WF_dialogVars(Resume(c))

DialogSpec == DialogInit /\ [][DialogNext]_dialogVars /\ DialogFairness

-----------------------------------------------------------------------------
(* What the dialog holds is well formed, and what it waits for is a        *)
(* request that is under way or answered.                                  *)
DialogTypeOK ==
  /\ tab.phase \in {"choose", "inspect", "review", "import", "outcome"}
  /\ tab.inspection \in given \cup {None}
  /\ tab.asking \in Calls \cup {None}
  /\ tab.asking # None => calls[tab.asking].at \in {"asked", "answered"}
  /\ \A c \in Calls :
       /\ flow[c].at \in {"none", "waiting", "reconciling", "listed"}
       /\ flow[c].at = "none" <=> flow[c].doc = None
       /\ flow[c].at = "waiting" => calls[c].at \in {"sent", "done", "answered"}

(* What the user reviews and confirms is the inspection of the very files  *)
(* that would be sent, whatever was cancelled, discarded and chosen anew.  *)
ReviewMatchesFiles == tab.inspection # None => tab.inspection.files = tab.files

(* "Import complete" is said only of profiles that have all been in the    *)
(* library, also when the answer was lost and the dialog concludes it from *)
(* what it finds there (README.md: "all-or-none publication").             *)
OutcomeIsTrue == tab.outcome # None => tab.outcome \subseteq ever

(* A commit() that runs on though the dialog was discarded under it.       *)
Abandoned == ~tab.committing /\ \E c \in Calls : flow[c].at # "none"

(* An import under way settles without the user doing anything, and gives  *)
(* the dialog back: commit() returns, a dialog that is open is not busy    *)
(* for ever, and unless it was discarded under a running import (see       *)
(* NoOtherImportMeanwhile) committing is reset.                            *)
CommitSettles ==
  /\ \A c \in Calls : flow[c].at # "none" ~> flow[c].at = "none"
  /\ tab.busy ~> ~tab.busy \/ ~tab.open
  /\ []~Abandoned => (tab.committing ~> ~tab.committing)

(* CHANGELOG.md, on import outcomes: they are reconciled "before           *)
(* permitting another import".                                             *)
NoOtherImportMeanwhile == (\E c \in Calls : flow[c].at # "none") => tab.busy
=============================================================================

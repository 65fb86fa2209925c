# Tunnelfolio: verification development

TLA+ models of Tunnelfolio, a daemon that keeps a library of VPN profiles
(OpenVPN and WireGuard) and connects at most one of them at a time. The models
are translated from the Go source, and for the import dialog from its
JavaScript; this document says which module stands for
which code, what TLC checks on small instances, and what TLAPS proves for all.

## 1. The system

| Component | Source | State it keeps | Operations |
| --- | --- | --- | --- |
| Tunnel manager | `internal/manager/manager.go` | gate (a one-token channel), lifecycle and its profile, execution copies by profile | Connect, Disconnect, Remove, SetPreferences, UpdateMetadata, AcquireLibraryOperation, ReconcileStartup, handleUnexpectedExit, Shutdown, Status |
| Profile store | `internal/profiles/store.go`, `model.go` | manifest, `durabilityUnknown`, object files, `.transactions`, `.garbage`, `.executions` | OpenStore, SetConnection, SetPreferences, UpdateMetadata, Remove, Publish, PrepareExecution, RepairDurability |
| OpenVPN adapter | `internal/tunnel/openvpn_adapter.go` | `current`: the profile and copy it owns | Observe, Start, Stop, Status, Shutdown, unexpectedExit |
| OpenVPN supervisor | `internal/tunnel/openvpn.go` | `proc` with done/ready/exited/stopping/accepted/unexpected | Activate, Deactivate, State, wait and drain goroutines, stopProcess |
| WireGuard backend | `internal/tunnel/wireguard.go` | none: the kernel's interfaces | Observe, Start, cleanupFailedStart, Stop, Status |
| Import service | `internal/profiles/import.go` | a gate and the key that signs receipts | Inspect (gives a signed receipt for a library revision), Commit (checks it, replays or publishes) |
| Import policies | `internal/profiles/*_policy.go` | none | validation of configuration text |
| Secure files | `internal/securefs` | none | private directories, WriteJSONAtomic, locks |
| HTTP API | `internal/httpapi` | `importGate`, admission limits | inspectImport, commitImport; one handler per manager call |
| Daemon | `cmd/tunnelfolio/main.go` | none | start order, shutdown |
| Import dialog | `internal/web/assets/import.js`, `app.js`, `api.js` | files, inspection, phase, `committing`, `importBusy`, `settled` | selectFiles, inspect, commit, reconcileOutcome, requestClose, reset |
| Web client (rest) | `internal/web/assets` | cached status, library and preferences | polling, mutations, views |

**How they interact.** HTTP handlers call the manager from many goroutines. An
operation that changes tunnels takes the manager's gate without waiting (a busy
gate refuses the request); two goroutines wait for it: `ReconcileStartup`, started
beside the HTTP server, and `handleUnexpectedExit`, called by the supervisor's
wait goroutine through the adapter. Under the gate the manager observes both
backends, starts and stops tunnels through private execution copies of a
profile prepared by the store, and records what is desired with
`Store.SetConnection`. `SetPreferences` and `UpdateMetadata` go straight to the
store. WireGuard interfaces live in the kernel and outlive the daemon; OpenVPN
processes are its children. An import takes two requests: the first has the files
inspected and is answered with records and a receipt for the library's
revision; the second brings files, records and receipt again and has them
published. Each holds `importGate` throughout; the second also takes the
manager's gate for the part that looks at the library and writes it.

**What is hard.** Every external call can fail, and a failure can be one of
three kinds: nothing happened, something happened, or nobody knows. Starts and
stops can leave a process group or an interface whose absence is not proved. A
manifest write can be visible and yet be lost by a power failure. The daemon can end
between any two calls. An OpenVPN process exits on its own, and its report
waits for the gate while other operations run. Requests arrive before startup
has been reconciled. Other tools may raise WireGuard interfaces.
`PROJECT.json` lists these hazards at their lines, with the properties that
would catch each one going wrong.

**What makes each component correct.** Manager: never two tunnels; a reported
disconnection is true and lasts; a conflict is not forgotten without proof;
what is recorded survives a restart; no operation keeps the gate. Store: every
manifest on disk refers only to objects that are there; an interrupted change
is either made or not. Supervisor: it never lets go of a process group that may
be alive, and always lets go of one that is gone. Import service: a
batch is published as a whole or not at all, onto the library its inspection
showed, and at most once, however often it is committed; what is reported as
imported stays. Import dialog: it reviews the files it will send, and says how
an import ended only when that is known.

## 2. The modules

```
Library   the manifest in memory and on disk, outcomes of one store call
  |   \
  |    PublishedLibrary   those outcomes as steps: what the store promises
  |      ^ implemented by
  |    Store --- StoreProofs     the store, one file operation after the other
  |
Tunnels   what runs, outcomes of one backend call, exits
  |
  |    ConnectionContract    what the manager promises its users
  |      ^ implemented by
Manager --- MCManager           the manager's operations, step by step, with
  |                             restarts and exits; instances for TLC
StatusPoll --- MCStatusPoll     a Status request that reads between those steps
  |
ManagerProofs --- RecordProofs  theorems: what is up, how long operations take,
                                what Status says; what is recorded and reported,
                                and that Manager implements ConnectionContract

OwnedProcess              what the supervisor promises of its one process
  ^ implemented by
Supervisor --- SupervisorProofs   its goroutines, one step after the other

Library
  |
ImportRecords             files, inspections, answers
  |        \
  |         ImportContract --- ImportDialog --- MCImportDialog, DialogProofs
  |           ^   what clients are promised; the browser's dialog on it
  |           | implemented by
Import --- MCImport       the import service, one step after the other
  |
ImportProofs --- ImportRefinement    theorems, and that Import implements
                                     ImportContract
RecordLemmas              lemmas on the records of an inspection, for the proofs
                          of the service and of the dialog
```

`Manager` needs of a store call and of a backend call only their possible
outcomes, as does its state space. `Store` and `Supervisor` open up the two
components where the outcomes are decided.

### Library (store.go, model.go)

The part of the manifest the manager acts on: the desired profile, whether
`ConnectedAt` is non-zero, the startup mode and the installed profiles. `mem` is
the published manifest, `disk` the one a power loss is known to leave, and
`unknown` is `durabilityUnknown`. A call is a *set of outcomes* `[lib, ok]`:
`publishManifestLocked` succeeds, fails with nothing changed, or fails with the
manifest visible and its durability unknown; `mutate` first repairs. `Reopened`
and `ReopenedAfterPowerLoss` are what `OpenStore` finds.

### Tunnels (openvpn_adapter.go, openvpn.go, wireguard.go, Manager.observe)

One record for both backends: the supervisor's process (`running`; `leaving`,
ready but a stop of it failed; `stuck`, a group present and not ready; `gone`,
nothing left but not yet released), the adapter's `owner`, the exits whose wait goroutine has
not yet reported (`reaping`) and the WireGuard interfaces present. `Observations`,
`BackendStart` and `BackendStop` give the outcomes of the calls. An observation distinguishes
success, failure, and several active tunnels, as `observe` does; a failed start is
`failed` (nothing left) or `unproved` (`ErrCleanupUnproved`). `Reaped` is the
wait goroutine's own cleanup and the adapter's release of whatever it owns.

### Manager (manager.go)

| Variable | Code |
| --- | --- |
| `op` | the operation holding `m.gate` and its locals: next step, target, previous, tunnels left to stop, errors so far; `Idle` when the token is in the channel |
| `life` | `lifecycle`, `lifecycleProfile` |
| `lib`, `net` | the store, the backends |
| `held` | `executions`: the profile each private copy is kept for |
| `events` | exit handlers blocked on the gate |
| `reconciled` | `ReconcileStartup` has had its turn in this run |

A step is the code between two calls that take time. Connect is `Connect`, then `RecordActive`,
or `StopPrevious`, `StartTarget`, `RestorePrevious`, `ForgetConnection`,
`RecordTarget`; a record that fails goes through `CompensateStop`,
`CompensateStart`, `CompensateStore` (`recoverPersistenceFailure`). Disconnect
is `Disconnect`, `RecoverBackends`, `StopNext` for each tunnel, `AllStopped`,
`ClearConnection`. Startup is `StartupBegin` to `StartupRepair`. `HandleExit`
and `ExitRecord` are `handleUnexpectedExit`. `Exit`, `Wither`, `Report`, `Drop`
and `Raise` are steps of the world; `DaemonEnds` and `MachineStops` the two
kinds of crash, possible between any two steps.

Between the steps of an operation other things happen: exits, reports, dropped
interfaces, preference changes (which take no gate), crashes. The set `Faults`
says which failures an instance allows; the proofs hold for every set.
Requests refused without effect are not steps. A missing backend
(`ErrUnavailable`), read-only mode, recents, favorites and metadata are left
out, since none of the properties below depends on them.

### ConnectionContract

What the manager promises whoever uses it, in four variables: what is up, the
lifecycle (`starting` and `switching` are both `connecting`, and nothing is said
before startup has been reconciled), the desired profile and the one a power loss
would leave. A tunnel comes up only while a connection is being opened and on an
empty network; `active` needs what is up to be desired; `disconnected`
needs nothing up and nothing desired, in memory and on disk; a conflict ends in a
disconnection, or when nothing is up. Steps, gates, copies, observations and
compensations do not appear, though a restart does, and what others do
(`Outsiders`). `ImplementsConnection` maps `Manager` to it (`Visible`).

### StatusPoll (manager.go `Status`, and both backends' `Observe`)

`Status` takes no gate. Its reads are steps between `Manager`'s: the lifecycle
(`ReadLifecycle`, which is the answer during an operation and in a conflict), the
manifest, the supervisor's process, the profile the adapter owns, the WireGuard
interfaces. `poll` holds what has been read and the answer, and two facts about
what has been the case since the request began: that nothing was up at some
moment (`empty`), and that a tunnel came up beside another (`beside`). One request is enough,
since requests change nothing. The model says nothing of what `active` in an
answer is worth: the adapter takes on a profile before its process is up, which
`Tunnels` does not distinguish.

### Store (store.go, securefs.go) and PublishedLibrary

| Variable | Code |
| --- | --- |
| `mem`, `unknown` | `s.manifest`, `s.durabilityUnknown` |
| `file`, `disk` | the manifest file as readers see it, and as a power loss may leave it instead |
| `object`, `after` | each object directory under `library/<protocol>`, and the states a power loss may leave it in |
| `at`, `todo`, `moving`, `staged`, `candidate` | the call in progress and its locals |
| `serving` | `OpenStore` has returned |

Between two steps there is an fsync, a rename, or the return of the call, and
at each of them the call may return an error, the daemon may end (`Crash`) or
the machine (`PowerLoss`). A rename is visible at once and durable once the
directory has been synced; a sync covers every entry of its directory, hence
`Beside`. `Publish` stages the objects (`Stage`, `SyncTransaction`), moves them
(`Place`, `SyncPlaced`) and then writes the manifest (`RenameManifest`,
`SyncManifest` or `Ambiguous`). `Remove` writes the manifest first and then goes
through `Quarantine` and `SyncQuarantine`, as does `OpenStore` with every object
its manifest does not name. `SetConnection` and `SetPreferences` only write.
`Quarantine` stands for both functions that move an object to `.garbage`; erasing it
from there changes nothing that is looked at again.

Left out: the first creation of the manifest, read-only mode, metadata texts, the
library revision (two calls never overlap, so it matters to receipts only), and
the names in `.transactions` and `.garbage`, which are unique to a call.
`PublishedLibrary` makes steps of `Library`'s outcomes; `ImplementsLibrary` maps
its `lib` to the two manifests, with durability unknown when they differ.

### Supervisor (openvpn.go) and OwnedProcess

| Variable | Code |
| --- | --- |
| `slot` | `b.proc` |
| `leader`, `others` | the process the supervisor started (alive, exited, waited for) and whether others of its session remain |
| `ready`, `accepted`, `stopping` | the `ready` channel, and the flags `accepted` and `stopping` of each process |
| `call` | what the manager's operation, `Shutdown`, and the wait goroutine of each process are at, or the last result of each |

`Activate` takes the slot under `b.mu`; `Accept` and `StartFails` are its select;
`Deactivate` and the wait goroutine (`Reap`) both run `stopProcess`, which is
`StopProved` or, stage by stage, `StopTimesOut`, after which it gives up without proof.
`Die`, `Fork` and `OthersDie` are the processes'. Signals have no effect
of their own: a process may end at any time and need not. A
scan of `/proc` is one step; one that fails reads as "still there", which is a
wait that goes on. Reuse of a process ID within such a scan is not modelled.
`OwnedProcess` is the promise: one process at a time, let go of only
when nothing of it is left.

### Import (import.go, server.go), ImportRecords and ImportContract

| Variable | Code |
| --- | --- |
| `lib` | the store's manifest in memory and on disk: here a revision and a set of entries (ID and content) |
| `calls` | each request: the step of its handler, its files, its inspection, its answer |
| `gate` | the request that holds `importGate` |
| `given`, `issued` | the inspections clients have been answered, and those whose receipt is still honoured: neither expired nor signed with an earlier daemon's key |
| `acked` | history: the profiles reported as imported |

`Ask` and `Submit` are the client's two requests; any inspection ever given may
be sent at any time and by any request. `Enter` and `TurnAway` are
`acquireImport`. An inspection is one step (`Inspect`), since it reads one
snapshot. A commit is `Admit` (the manager's gate), `Validate` (the checks and
the snapshot), then `Publish`, or, if the revision has moved, `Repaired` and
`Replay`; `Report` looks the profiles up for the answer after the manager's gate
has been released. Meanwhile preferences and metadata change (`Change`),
profiles are removed, receipts expire, the daemon or the machine restarts. The
publication is `Store.Publish` with its checks and `Library`'s outcomes.

Contents are values; those the policies refuse are `Unacceptable`. Records are a
set: two records of one batch with the same content share their ID, and `new`
says which of them adds the profile. IDs are random and are taken never to come
up twice (`Namings`), not even among inspections that were never committed. The
checks of `Commit` before its snapshot are one step, as none of them has an
effect. The import service's own gate is taken only under `importGate` and so
is never contended.

`ImportContract` says what clients see of it: a request is `asked` or `sent`,
then the whole batch is there at once (`Publish`), or was already and is durable
(`Confirm`), or nothing has happened, and the answer says which or that it is
not known: after a write that is visible and not known to be durable it is never a
refusal. Revisions, receipts and gates do not appear in it.
`ImplementsContract` is the refinement (`Promised`); with it the dialog can be
modelled on the contract instead of the service.

### ImportDialog (import.js, app.js)

| Variable | Code |
| --- | --- |
| `tab` | the controller's variables: `phase`, `files`, `inspection`, `controller` (`asking`), `committing`, `settled` (with the profiles reported: `outcome`), `appState.importBusy` (`busy`), whether the dialog and its discard question are visible |
| `flow` | each `commit()` that has not returned: which await it is at and the inspection it goes by |
| `ever` | history: every entry the library has held |

One step is the code between two awaits, or an event handler. `InspectFiles`,
`Commit` and `List` end where the browser awaits an answer; `Inspected`,
`CommitAnswered`, `Conclude` go on when it comes. `AnswerLost` breaks the
connection while the daemon's handler runs on; `ProxyAnswers` puts an error page
in place of the answer, which `APIError` turns into a definite failure.
`reconcileOutcome` looks at the dialog's *current* inspection, and the two
TypeErrors that are possible when that is gone are modelled as what they do.
`onLibraryChanged`, awaited before a success is shown, is folded into
`CommitAnswered`: it decides only about the wording. Metadata and the trust box
are taken to be valid.

## 3. What TLC checks

Each property in the passing runs is also broken by a plausible bug in the code
it is about (`PROJECT.json`, "mutants"; the mutated definitions stand beside
the originals in the modules, marked as mutants and used nowhere else).

| Run | Instance | Shows |
| --- | --- | --- |
| `safety` | 1 OpenVPN, 1 WireGuard profile, all faults, imports and removals, requests before reconciliation | `TypeOK`, `AtMostOneTunnel`, `SettledNetworkIsDesired`, `ImplementsConnection` |
| `records` | 2 OpenVPN, 1 WireGuard profile, all faults | `ActiveIsRecorded`, `DisconnectedStaysDown`, `DisconnectedLeavesNoCopies`, `ConflictClearedByProof` |
| `external` | 2 OpenVPN, 1 WireGuard profile, interfaces raised by others, no exits, a Status request (`StatusPoll`) | `StartsAlone`, `LiveTunnelKeepsItsCopy`, `DownWasTrue` |
| `progress` | 1 profile of each protocol, exits, crashes, preference changes, interfaces raised by others, fairness | `OperationsSettle`, `DeadTunnelIsNoticed` |
| `store` | 2 OpenVPN, 1 WireGuard profile, errors, crashes and power losses between any two file operations | `TypeOK`, `ReferencedObjectsAreThere`, `ReadersSeeThePublished`, `NoFlagMeansDurable`, `NoBrokenObject`, `OpenLeavesNoOrphans`, `ImplementsLibrary` |
| `supervisor` | 2 processes, the manager's calls and `Shutdown` beside them, fairness | `TypeOK`, `ProvedMeansGone`, `NothingLeftAfterProof`, `ImplementsOwnedProcess`, `CallsReturn`, `DeathIsNoticed` |
| `import` | 4 batches of 4 contents (one file, two, a file chosen twice, one with an issue), 3 IDs, 2 requests, 2 inspections, libraries of up to 2 profiles | `TypeOK`, `GateIsHeldInside`, `RevisionIdentifiesLibrary`, `NoContentTwice`, `AcknowledgedSurvives`, `PublishesWhatWasInspected`, `ImplementsContract` |
| `import_dialog` | 2 batches, 2 requests, 2 inspections, lost answers, a proxy's errors, restarts | `DialogTypeOK`, `ReviewMatchesFiles`, `OutcomeIsTrue` |
| `import_settles` | 1 batch, 1 ID, 2 requests, 2 inspections, failing writes too, fairness | `CommitSettles` |
| `stale_exit` | 2 OpenVPN profiles, exits | violates `LiveTunnelKeepsItsCopy` |
| `late_stop` | 2 OpenVPN profiles, failing stops | violates `DisconnectedReleasesOpenVPN` |
| `import_discard` | as `import_dialog` | violates `NoOtherImportMeanwhile` |

**Bounds.** Two profiles of one protocol are needed for a switch within a
backend (they share the supervisor's slot), one of each for a switch across
backends or, when others raise interfaces, several tunnels at once; no code path
relates three profiles. `Copies` bounds the execution copies that exist at a
time: one of the running tunnel, one being prepared, and one or two left behind by
failed removals; with all of them in use a preparation fails, which the code
can do too. `MaxReports` bounds the exits not yet handled: one in all
runs, the only instance of two would need two processes to exit while the first
report waits. `store` has two profiles that share a directory and one beside
them, published together or apart, which is all that its steps distinguish. In
`import` two requests are enough for one to hold the gate while another is turned
away, or to follow it; two inspections for one to be stale because of the other.
`MaxInspections` counts all that are ever given. `MaxProfiles` of 2 with three
contents meets the capacity limit; `MaxRevision` of 2 stops changes and removals,
not publications, so a power loss and other changes can bring a revision up
again. In the dialog two requests are an import still running and a new attempt. In
`import_settles` the one content and its ID suffice for the second inspection to
replace the one a running commit was sent with, once the library holds the
profile; batches that are found in part are in `import_dialog`. `supervisor`
has two processes, an old one whose goroutines are not done and its successor; any
more old ones would be as the first. Deadlock is checked everywhere.

**Fairness** (`progress`). A step of an operation in progress is weakly fair:
every call it makes is bounded by a timeout. So is the report of an exit: the
wait goroutine's cleanup ends at a fixed budget. The startup goroutine and the
exit handlers block on the gate's channel, and Go hands a token to a waiting receiver
before a later non-blocking receive can take it, so they are strongly fair:
enabled each time the gate is given back. Requests, failures and exits have no fairness.
In `import_settles` a request's handler runs to its end (`Handle`: its reads have
deadlines and the store's calls end) and so does what the browser awaits
(`Resume`): an answer, the library, or the error that takes their place. Users,
the network and the daemon's restarts have no fairness. `CommitSettles` asks
that `commit()` return, that an open dialog not stay busy,
and that `committing` be reset, the last only if no dialog was discarded under
a running import (`Abandoned`): after such a discard an earlier commit can
reset what a later one has set, the files be chosen anew under the later one,
and its `reinspect` answer then ends in the TypeError of `InspectAgain` with
`committing` left set (two requests and three inspections are needed). That is
a consequence of what `import_discard` shows. `importBusy` stays set only with
the dialog closed, after "Do not retry".
In `supervisor`, the select of `Activate` and each stage of a stop have a timer, and
`cmd.Wait` returns once the leader has exited; no process is ever obliged to
get ready, to obey a signal or to exit.

**An orphan that comes back.** `OpenLeavesNoOrphans` speaks of what is visible.
The stronger statement, that no power loss brings a collected object back, is
false: when the daemon ends between the rename into `.garbage` and its sync,
the next `OpenStore` finds nothing to collect and syncs nothing, and a later power loss may
undo the rename. That is harmless, since the `OpenStore` after it collects the
object again and, by `ReferencedObjectsAreThere`, no manifest names it.

**Three disagreements.** `stale_exit`: the adapter labels an exit with the
profile and copy it owns when the wait goroutine gets to report, and gives up
that ownership. If a Disconnect and a new Connect come in between, the handler
removes the private copy of the new tunnel and the adapter no longer knows it,
so observing it is an error from then on. A test asserts the opposite outcome
(`internal/manager/manager_test.go:841`), but with an event that carries the old
path. `late_stop`: after a stop that failed on a process that dies soon after,
Disconnect observes nothing and reports disconnected without asking the
supervisor to let go, and OpenVPN cannot be started again before the daemon is
restarted; `docs/operations.md:231` offers Disconnect as the way out.
`import_discard`: closing the dialog on a reviewed batch asks whether to discard
it; the question stays while the user confirms the import instead, and its
"Discard" then resets the dialog under the running request. Another import can
begin before the first has been reconciled, against `CHANGELOG.md:73` and the
dialog's own words ("Another import is blocked until it settles."). What the
dialog reports stays true all the same (`OutcomeIsTrue`), since
`reconcileOutcome` then finds no inspection, or compares another one with the
library.

## 4. What TLAPS proves

`ManagerProofs` proves, for every set of profiles, faults and features and
every bound, from `ProfilesAssumption` (the two protocols' profiles are disjoint and
none of them is `None`), `BoundsAssumption` and, where steps are counted,
`FiniteAssumption` (profile IDs have a fixed length, `model.go:254`, so there are
finitely many):

| Theorem | Statement |
| --- | --- |
| `InductiveInvariant` | `Spec => []IInv` |
| `TypeCorrect` | `Spec => []TypeOK` |
| `OperationsStartAlone` | `Spec => StartsAlone` |
| `DisconnectIsComplete` | `Spec => DisconnectEndsDown` |
| `OneTunnel` | `~May("external")` implies `Spec => []AtMostOneTunnel` |
| `DisconnectedIsTrue` | `~May("external")` implies `Spec => []DisconnectedIsDown` |
| `OperationsAreBounded` | `Spec => []HeldForAWhile /\ OnlyGoesOn` |
| `StatusTellsOfAMoment` | `PollSpec => []DownWasTrue` |
| `StatusIsNeverTorn` | `~May("external")` implies `PollSpec => []DownWasSeen` |

`DisconnectEndsDown` and `DisconnectedIsDown` are not checked by a run of their own:
the first follows from `ConnectionContract`, the second too where nobody else raises
tunnels.

**The argument.** None of the properties is inductive: whether a start is safe
depends on what the operation observed some steps before, and what has happened
since. `IInv` strengthens `TypeOK` with what each step of an operation may still
rely on. `TargetsKnown`: the profiles it starts and stops are installed, so that
observations cover them. `NetworkKnown`: before a start nothing is up; before the
stop of a switch at most the previous tunnel; before a record at most the
target; while Disconnect stops, and no stop has failed, at most what it has
still to stop. `NetworkSeen`: what the supervisor runs and the adapter owns
agree, and everything up is installed, so an observation that succeeds accounts
for everything. `LifeKnown`: an operation that may start or stop a tunnel does
not run under the lifecycle "disconnected". All of this is stable under
exits, withering and drops, since those only shrink the network, and under
`Raise`, which happens between operations only: `NetworkKnown` says nothing then.

The proofs go bottom up: lemmas on store outcomes (the installed set is kept),
on backend outcomes (`BackendStartIsSound`, `BackendStopIsSound`,
`ObservationsSeeAll`), on the manager's start and stop with their copies, one
lemma per action (`...KeepsInv`), `NextKeepsInv`. The theorems follow from
the invariant and from `NetworkGrows` and `DisconnectionIsProved`, which say how any step
can change what is up and how a disconnection comes to be reported.
`~May("external")` is needed where it is assumed: with interfaces raised by
others two tunnels can be up, and a disconnected daemon can have one up.

`StatusTellsOfAMoment` needs less than it seems. While a request is under way,
nothing has come up beside something else and something has been up all the time,
whatever is up now has been up since it began (`PollKnows`). So it is installed in the
manifest that was read (`NetworkSeen`), and the read of its protocol, whenever it
came, has shown it or failed. That no tunnel comes up beside another unless others
raise it is `NetworkGrows` once more, hence `StatusIsNeverTorn`.

`RecordProofs` goes on from `IInv`. Each of its theorems names what it needs
absent; everything else may fail or happen:

| Theorem | Statement | Without |
| --- | --- | --- |
| `WaitingInvariant` | `Spec => []Waiting` (says something without "early") | |
| `SettledInvariant`, `NetworkIsDesired` | `Spec => []Settled`, `Spec => []SettledNetworkIsDesired` | "external" |
| `ActiveIsDurable` | `Spec => []ActiveIsRecorded` | "external", "early", "library" |
| `DisconnectionLasts` | `Spec => []DisconnectedStaysDown` | "early", "prefs" |
| `NoCopiesLeft` | `Spec => []DisconnectedLeavesNoCopies` | "early" |
| `ConflictsLast` | `Spec => ConflictClearedByProof` | "early" |
| `TunnelsKeepTheirCopies` | `Spec => []LiveTunnelKeepsItsCopy` (of ready processes) | "exit" |
| `LifecycleTells` | `Spec => []Told` | |
| `ManagerKeepsItsPromise` | `Spec => ImplementsConnection` | |

A write that returns no error is durable (`WriteIsDurable`), whatever was left
by the writes before it; one that returns an error is followed by another that
returns none, or by a conflict. `Waiting` holds what a daemon before
reconciliation has not yet touched, and that an operation in progress is never
under a conflict, nor one about to report a disconnection with copies left.
`Settled` says what the library records: between operations whatever is up;
during a switch the previous tunnel, which may have to be brought back; and
that a compensation, a startup or an exit that reports no conflict has nothing
else up.

`ManagerKeepsItsPromise` is the refinement, and assumes nothing absent: what requests
before reconciliation, other people's tunnels and removals can spoil, the contract
says. Its steps need `IInv` for what is up; `Told`, by which the lifecycle says what
kind of operation is in progress, so that a start happens under `connecting` or `restoring` and
the end of a Disconnect under `disconnecting`; and `Recording`, which is `Settled`
with `AtMostOneTunnel`, or nothing when others raise tunnels. One lemma per group of actions (`...Shown`) names the step
of the contract that each takes. A write is one of the contract's `Written` whether it succeeds, fails or is
ambiguous, and what a failure leaves in doubt is settled by the next write or ends
in `Conflict`.

The assumptions of the other theorems are not for convenience. A request admitted before startup is
reconciled can leave copies, a conflict or an unrecorded tunnel, on which
`ReconcileStartup` then reports in its own terms. A daemon that
starts in mode `manual` reports disconnected and keeps the desired profile, so
changing the mode to `restore` afterwards makes the next start restore it.
A profile whose tunnel died can be removed while its exit has not been
reported, and is then reported active without being recorded. A tunnel raised
by others is recorded nowhere. With exits, `LiveTunnelKeepsItsCopy` is false
(`stale_exit`); it speaks of processes that became ready, as the copy of a
failed start is removed even if its process is not proved gone
(`manager.go:644`).

`StoreProofs` proves, for every set of profiles and from `ProfilesAssumption`
only:

| Theorem | Statement |
| --- | --- |
| `StoreInvariant`, `StoreTypeCorrect` | `Spec => []IInv`, `Spec => []TypeOK` |
| `ObjectsOutliveManifests` | `Spec => []ReferencedObjectsAreThere` |
| `MemoryIsTheFile`, `SuccessIsDurable` | `Spec => []ReadersSeeThePublished`, `Spec => []NoFlagMeansDurable` |
| `ObjectsAreNeverBroken` | `Spec => []NoBrokenObject` |
| `OpeningCollectsOrphans` | `Spec => OpenLeavesNoOrphans` |
| `StoreImplementsLibrary` | `May("store") => (Spec => ImplementsLibrary)` |

That the manifests' objects are there is not inductive: it depends on the rename of the
manifest coming after every object of the candidate has been placed and
synced, and on a collection beginning only when memory, file and disk agree.
`ManifestsKnown` says at which steps they do; `CallKnown` says which objects of
the candidate are known to be durable, and that nothing still to be moved
away is named. `May("store")` is needed for the refinement because
between the rename and the sync the store shows the state an ambiguous error
would leave.

`SupervisorProofs` proves, for any set of processes and from `ThreadsAssumption`:
`SupervisorInvariant`, `SupervisorTypeCorrect`, `ProofsAreTrue`
(`[]ProvedMeansGone`), `NothingIsLeft` (`[]NothingLeftAfterProof`) and
`ImplementsOwner` (`Spec => ImplementsOwnedProcess`), `CallsAreBounded`
(`[]FewStages /\ OnlyEscalates`) and `NoEndIsPassedOver` (`[]EndsAreStopped`). The invariant says that whatever is on the
machine is in the slot, so a stop of another process can only be of one that
is gone; and that what is gone stays gone, since a process is started once.

`ImportProofs` and `ImportRefinement` prove, for any contents, batches, IDs,
number of requests, limits and faults, from `ProfilesAssumption`,
`ImportAssumption` (batches are sequences of contents, `None` is no request),
`LimitsAssumption` and `NoneAssumption` (`None` is no inspection):

| Theorem | Statement |
| --- | --- |
| `ImportInvariant`, `ImportTypeCorrect` | `Spec => []IInv`, `Spec => []TypeOK` |
| `GateIsGivenBack` | `Spec => []GateIsHeldInside` |
| `RevisionIsEnough` | `Spec => []RevisionIdentifiesLibrary` |
| `DuplicatesAreExcluded`, `AcknowledgedIsDurable` | `Spec => []NoContentTwice`, `Spec => []AcknowledgedSurvives` |
| `OnlyInspectedIsPublished` | `Spec => PublishesWhatWasInspected` |
| `ImportImplementsContract` | `Spec => ImplementsContract` |

What a commit may rely on was established by an inspection long before.
`LibraryKnown` says what remains of it: an honoured inspection's revision is that
of the library it showed, or an earlier one; memory and disk agree unless the
store says it does not know; and each inspection is complete, that is, every
record is of the library it showed or is added by it, which needs that of equal
files in a batch there is a first (`FirstOfEqual`, by well-foundedness).
`RequestsKnown` keeps this through a commit: at `publish` the inspection is still
current, though its receipt may have expired meanwhile, and at `replay` the
library is durable. That holds beside everything else that happens because
removals need the manager's gate, a request inside is alone (`OthersOutside`),
and changes that need no gate raise the revision. `ImportRefinement` maps each
action (`...Shown`) to one of the contract; most of its work is the outcomes of
`Store.Publish` (`PublishAtCases`).

`DialogProofs` proves, from the same assumptions on files and from
`InspectionAssumption` (`None` is no inspection), for any number of requests:
`DialogInvariant`, `DialogTypeCorrect` (`[]DialogTypeOK`), `ReviewedIsSent`
(`[]ReviewMatchesFiles`), `CommitsAreBounded` (`[]CommitIsShort /\ CommitGoesOn`) and
`ReportedWasImported` (`[]OutcomeIsTrue`). The last is the one that needs an argument. When a commit's answer is lost the dialog
only compares IDs with the library's, and by the inspection it has *now*. That is
enough because every profile the library has ever held comes from some
inspection, and in all inspections ever given an ID stands for one content
(`LibraryKnown`, by `EntriesNamed`): an ID found is the proposed profile itself. An
inspection that adds nothing describes only profiles that have been there. For the
rest, `FlowKnown` and `TabKnown` say what an answer on its way is worth: one that says
"imported" answers the inspection its `commit()` goes by, and one to an
inspection is of the files still chosen, since none can be chosen while one is
asked for.

**The provable half of liveness.** Three theorems count. Whoever holds the
manager's gate, a call of the supervisor, and a commit of the dialog each have a
number of steps left (`StepsLeft`, `StagesLeft`) that is bounded, that each of their own steps
lowers, that nobody else's step raises, and that is 0 only when the gate is
free, the call has returned or the commit is over. Hence no interleaving
of failures, exits, restarts and requests keeps an operation going: it can only
fail to end by not being scheduled. `NoEndIsPassedOver` is the same for
`DeathIsNoticed`: once `cmd.Wait` has returned somebody has begun the stop. What is left
to TLC is that a next step is always possible (ENABLED) and, under the fairness
above, taken.

**Model-checked only.** Every invariant and action property of the passing runs,
and each of the four refinements, is proved. Liveness under fairness
(`OperationsSettle`, `DeadTunnelIsNoticed`, `CallsReturn`, `DeathIsNoticed`,
`CommitSettles`) and ENABLED are out of the prover's reach and stay with TLC.

## 5. Not modelled, and the plan

Not modelled at all: import policies and OpenVPN configuration rewriting (pure
text), ownership and mode checks of `securefs`, HTTP parsing and authentication,
the client's views and its status polling (display only; what is stale is
replaced by the next poll), the last error the supervisor
keeps for display, the command runner, installer and release scripts.
Preferences are left out as data: the client reads them and writes them back
with a patch, so concurrent changes of favorites may be lost, which no document
excludes.

The plan, in order:

1. `Manager` and its proofs (done).
2. `Store`, shown to implement `Library`'s write outcomes, and its proofs (done).
3. `Supervisor` as goroutines over a process group, shown to implement
   `OwnedProcess`, and its proofs (done). To come: the adapter's ownership
   beside it, so that `Tunnels`' outcomes are derived rather than stated, and
   `Manager.Shutdown`.
4. `Import`, shown to implement `ImportContract`, the dialog on the contract, and
   the proofs of both (done).
5. The rest of the theorems about `Manager`: what it records and reports, and that
   it implements `ConnectionContract`; `Status` beside its operations (done).
6. To come: the import policies as predicates on parsed configurations.

------------------------------- MODULE Library -------------------------------
(***************************************************************************)
(* The profile library as its callers see it: the manifest held in memory, *)
(* what a power loss could leave of it on disk, and the outcomes of one    *)
(* store call.  A call that returns an error may have published its        *)
(* manifest (durability unknown) or may have changed nothing, so each call *)
(* is the set of its possible outcomes [lib |-> ..., ok |-> ...].          *)
(* Source: src/internal/profiles/store.go.                                 *)
(***************************************************************************)
EXTENDS FiniteSets

CONSTANTS OpenVPN,    \* profiles run by the OpenVPN backend
          WireGuard,  \* profiles run by the WireGuard backend
          None,       \* the empty profile ID
          Faults      \* the kinds of failure the environment may produce

ASSUME ProfilesAssumption ==
  /\ OpenVPN \cap WireGuard = {}
  /\ None \notin OpenVPN \cup WireGuard

Profiles == OpenVPN \cup WireGuard

May(fault) == fault \in Faults

(* The part of the manifest the manager acts on: ConnectedAt is kept as    *)
(* "is it zero", favorites, recents and metadata are left out.             *)
Manifests == [desired   : Profiles \cup {None},
              connected : BOOLEAN,
              mode      : {"manual", "restore"},
              installed : SUBSET Profiles]

(* mem is the published manifest (in memory and in the file the rename     *)
(* made visible); disk is the one known to survive a power loss; they may  *)
(* differ only while the store's durabilityUnknown flag is set.            *)
Libraries == [mem : Manifests, disk : Manifests, unknown : BOOLEAN]

Durable(manifest) == [mem |-> manifest, disk |-> manifest, unknown |-> FALSE]

EmptyLibrary ==
  Durable([desired |-> None, connected |-> FALSE, mode |-> "manual", installed |-> {}])

-----------------------------------------------------------------------------
(* RepairDurability: fsync the published manifest and its directory.       *)
RepairOutcomes(lib) ==
  {[lib |-> IF lib.unknown THEN Durable(lib.mem) ELSE lib, ok |-> TRUE]}
    \cup (IF lib.unknown /\ May("store") THEN {[lib |-> lib, ok |-> FALSE]} ELSE {})

(* publishManifestLocked: published and durable; published, but the rename *)
(* may still be lost; or not published at all.                             *)
PublishOutcomes(lib, candidate) ==
  {[lib |-> Durable(candidate), ok |-> TRUE]}
    \cup (IF May("store")
          THEN {[lib |-> [mem |-> candidate, disk |-> lib.mem, unknown |-> TRUE], ok |-> FALSE],
                [lib |-> lib, ok |-> FALSE]}
          ELSE {})

(* mutate: repair first, then publish the changed manifest.                *)
WriteOutcomes(lib, candidate) ==
  UNION {IF repair.ok THEN PublishOutcomes(repair.lib, candidate) ELSE {repair} :
           repair \in RepairOutcomes(lib)}

Connection(manifest, desired, connected) ==
  [manifest EXCEPT !.desired = desired, !.connected = connected]

SetConnection(lib, desired, connected) ==
  WriteOutcomes(lib, Connection(lib.mem, desired, connected))

SetStartupMode(lib, mode) == WriteOutcomes(lib, [lib.mem EXCEPT !.mode = mode])

(* A removed profile also stops being the desired one.                     *)
Without(manifest, p) ==
  [manifest EXCEPT !.installed = @ \ {p},
                   !.desired   = IF @ = p THEN None ELSE @,
                   !.connected = @ /\ manifest.desired # p]

With(manifest, batch) == [manifest EXCEPT !.installed = @ \cup batch]

(* What the calls of the store may make of a manifest, one call at a time. *)
Changes(manifest) ==
  {Connection(manifest, d, c) : d \in Profiles \cup {None}, c \in BOOLEAN}
    \cup {[manifest EXCEPT !.mode = m] : m \in {"manual", "restore"}}
    \cup {Without(manifest, p) : p \in manifest.installed}
    \cup {With(manifest, batch) : batch \in SUBSET (Profiles \ manifest.installed)}

(* Mutant of Legal: the desired profile may be any.                        *)
LegalUnchecked(manifest) == TRUE

(* ValidateManifest.                                                       *)
Legal(manifest) == manifest.desired \in manifest.installed \cup {None}

RemoveProfile(lib, p) == WriteOutcomes(lib, Without(lib.mem, p))

PublishProfile(lib, p) == WriteOutcomes(lib, With(lib.mem, {p}))

-----------------------------------------------------------------------------
(* OpenStore after the process ended: the published file is what is read,  *)
(* and it is made durable before the daemon serves.                        *)
Reopened(lib) == Durable(lib.mem)

(* OpenStore after the machine stopped: an unsynced rename may be undone.  *)
ReopenedAfterPowerLoss(lib) == {Durable(lib.disk), Durable(lib.mem)}
=============================================================================

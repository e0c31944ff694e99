# A TLA+ verification of hcorral

hcorral runs coding agents in Docker workstations ("corrals") and moves Codex
conversations between the host and those workstations. This directory holds
TLA+ modules of the parts whose correctness depends on interleaving, failure or
ordering, the TLC configurations that check them, and TLAPS proofs. Source
references are relative to `src/`.

## 1. Inventory

| Component | State it keeps | Operations | What makes it hard | What makes it correct |
| --- | --- | --- | --- | --- |
| Session staging (`internal/session/stage.go`, `stage_recovery.go`) | `.hcorral-transfer-v1-*` directories in the Codex home, the coordinator lock `.hcorral-staging.lock`, a lease lock in each directory | `staging`, `Receive`'s writes, `Close`, `recoverStaging`, `removeStaging` | kills and power failures at any step, the 5 s limit on `Close`, several imports in one home, foreign files | a live import is never reaped; no payload without a lease, even on disk; everything abandoned is reaped |
| Publication (`publish.go`, `extend.go`) | rollout files at ordinary and managed prerequisite paths | conflict check, prefix extension, link, sync | partial lineages after a kill, two imports of one ancestor, files that are visible but not durable | a visible conversation has its whole history; history only grows; retry works |
| Writer guards (`locks.go`) | native lock files | acquire in order, release | native Codex and other imports | nobody else writes the lineage during a publication |
| Selection update (`selection_update.go`) | the row in `state_5.sqlite`, `backfill_state` | reserve, repair, commit, wait for the initial indexing | the indexer of Codex takes none of the locks | after success a thread whose lineage was imported never selects a partial prerequisite (a single-file import is not waited for: `publication_indexing`) |
| Snapshot and export (`inspect.go`, `snapshot.go`, `rollout.go`, `home.go`, `sqlite.go`, `stream.go`) | captured descriptors, boundaries and hashes | select, list, capture, re-check, stream | no lock: Codex appends, archives, compresses, migrates and reverts meanwhile | a completed stream is one saved state with exactly its inherited history |
| Transfer (`internal/sessiontransport`, `internal/sessionhelper`, `cmd/hcorral-session`) | a pipe, two helper programs, a helper container | peek, produce, consume, cancel, create/copy/start/verify/clean up | deadlock on the pipe, requests that outlive their client, lost answers | only complete streams are published; success means clean; the command returns |
| Launcher (`internal/app/launch.go`, `startup.go`, `state.go`, `attach.go`, `session.go`, `internal/identity`) | project and volume locks, the container, the state volumes, image and configuration | launch, attach, up, create, start, stop, restart, pull, down, down -v, state rm, session | every decision is made on an inspection that may be old; two locks; a bare launch that starts over | running work survives, homes keep their owner, foreign objects are untouched, commands end |
| Image startup (`image/entrypoint.sh`, `session-init.sh`) | the home volume: owner, mount points, marker, startup files, settings | bootstrap, `create_missing`, settings, session | several containers share a home without a lock and are killed anywhere | a new volume is usable once one start has set it up, and always if the workspaces share their mount point; a home with contents keeps its owner; what a user wrote is kept |
| Target and SQLite-home resolution (`app/session.go`, `sessiontransport/target.go`, `config.go`, the checks in `docker.go`, `sessionconfig`) | the inspected workstation, the discovery in progress, the selected mounts | inspect, discover at both ends, select and narrow mounts, create and start the helper between two rechecks | six layers of configuration read one by one while users edit them; nested mounts; clients outside the project lock | the helper works on the storage the workstation has, on no more of it than needed, and on the volumes that were inspected |
| Compose project and asset cache (`internal/compose`) | content-addressed files | render, hash, materialize | - | a name is only ever seen with its content |
| Configuration (but the state volume), desktop access, discovery, legacy guard, update check, tmux notices, packaging | none that is shared between steps | parse, report, build | - | - |

How they interact. A session command holds its project's lock (`Launch`), picks
its target (`SessionTarget`) and calls the controller (`Transfer`), which runs
the helper program at both ends. The source end captures and streams (`SnapshotExport`); the
destination end receives into a stage (`Staging`) and publishes it
(`Publication`). Native Codex (external) shares files, writer locks and the
database with the last three. The launcher creates the containers that run the
image startup (`HomeBootstrap`) on the state volumes it manages. The models meet
at these interfaces: `Transfer` sees a publication as the step from "partial" to
"complete" and a capture as a source that is valid, invalid or rewritten;
`Launch` sees a transfer as one state in which the lock is held, and
`SessionTarget` follows the same command from the lock to the started helper,
where `Transfer` goes on. Two modules say what the user is promised and nothing
about how: `SessionStore` (a home that holds whole sessions and keeps what it
confirmed), implemented by `Publication`, and `SessionCopy` (one command, from
its start to its outcome), implemented by `Transfer`.

## 2. Plan

Order: what can lose a user's history first, then what can hang or leak, then
what can disturb a workstation.

1. `Staging`, `StagingProofs` - written, checked, proved.
2. `Publication`, `MCPublication`, `PublicationProofs` - written, checked, proved.
3. `Transfer`, `TransferProofs` - written, checked, proved.
4. `Launch`, `MCLaunch`, `LaunchProofs` - written, checked, proved.
5. `SnapshotExport`, `SnapshotExportProofs` - written, checked, proved.
6. `HomeBootstrap`, `MCHomeBootstrap`, `HomeBootstrapProofs` - written, checked, proved.
7. `SessionStore` and `SessionCopy` - written; the refinement from `Publication`
   is proved, that from `Transfer` is proved but for its liveness.
8. `SessionTarget`, `MCSessionTarget`, `SessionTargetProofs` - written, checked,
   proved: the configured SQLite home against a reference definition (`Reference`),
   the mounts against what the workstation sees (`Storage`).

Every safety property of a passing run has a theorem; section 6 says what is left
to the model checker.

## 3. Modules

Each module has one action per operation, named after its function; `map` in
PROJECT.json gives the lines. A definition whose comment starts with "Mutant of"
is a plausible bug of the definition that follows it; it is not part of any
specification and documents what the properties can tell apart.

**Staging.** `pc` follows an import through `staging`, `Receive`, `Publish` and
`Close`; `coordinator` and `lease` are the holders of the advisory locks; `home`
and `dir` are the visible tree and `homeD` and `disk` the part of it that is on
disk. A sync copies visible to durable, `WriteBackEntry`/`WriteBackHome` do the
same on the kernel's initiative for a single entry, and `MachineFailure` restores
the durable tree. `Kill` drops locks and keeps entries. Removal is the seven steps
of `removeStaging`: validate, unlink slots, sync, unlink the lease, sync, rmdir,
sync. Names are fresh (random nonces). Foreign files may appear in a stage, but
not while it is being removed: the code scans twice and a file that appears
between the scans and looks like a slot is an accepted race.

**Publication.** `live`/`liveD` give the records at each place, a place being an
ordinary ("full") or a managed prerequisite ("pre") path of a rollout. An
importer acquires the guards of its lineage, checks conflicts, possibly reserves
the database row, then works through its plan, prerequisites first, and finally
commits or confirms the selection. `NativeLoad`, `NativeAppend`, `NativeRevert`
and the `Index...` actions are Codex, modelled from how the code coordinates
with it. Left out: compressed copies, archive flags, the legacy history mode,
noncanonical names and the discovery of the schema. Appends of Codex are taken
as durable. Interrupts and power failures are alternatives: a behaviour has up to
`MaxInterrupts` of the first or `MaxFailures` of the second. Both together lose
confirmed conversations, which is the finding of `publication_durability`; so
`ImplementsStore` says nothing about a power failure after the retry of a killed
import, and `DurableBeforeCommit` is the property that does.

**SessionStore** is what `Publication` implements (`Store`, `ImplementsStore`). A
session is a plan, that is, a conversation with everything it inherits; `held` is
the set of plans that are visible with all they inherit, and `reported` those
whose import was confirmed. Hence an import gains sessions and loses none,
success is reported only for a session that is held, and a machine failure loses
at most what nobody was told about.

**Transfer.** `main` is the controller, `run` is `Docker.Run`, `hp[e]` the helper
program at each end, `box` the container, and `createReq`/`startReq` are requests
the daemon has not handled yet. The stream is a number of members, the last of
which is the completion record; `wclosed`/`rclosed` are the two closes of the
pipe. A client that is cancelled leaves its request with the daemon. Argument
construction and the tar and JSON formats are left out.

**SessionCopy** is what `Transfer` implements (`Copy`, `ImplementsCopy`). Its
`dest` is the destination of `Transfer`; `reported`, `failed` and `helper` stand
for the result that reached the controller, an error on either side, and a
container that exists or whose request the daemon still has. Its action `Work` is
the only one that may go on after a return, and only behind an outcome that says
the helper could not be cleaned up. `Safety` is the initial condition and the
steps; `Spec` adds that the command returns, which is checked under the fairness of
`Transfer`.

**SessionTarget.** `pc` follows `runSession` from the inspection to the started
helper. A workstation has an identity, a status and mounts, a mount a place, a
kind, a root and an access; paths are sequences of names, so that nesting is
prefix order. `disc` is the position in the list of configuration files: each
file is read in a step of its own, and `EditConfig` may change any file between
two reads. `RemoveWorkstation`, `RecreateWorkstation`, `PauseWorkstation` and
`RemoveVolume` are clients that ignore the project lock; volumes have instances,
so that a volume created anew under an old name is told apart. Creating a
container makes missing volumes, as Docker does: a foreign client that removes
workstation and volume after the first recheck makes the creation leave a new,
empty volume behind; the second recheck then refuses to start. Facts checked on
one inspection only (labels, user and group IDs, capabilities, bind options) are
the flag `sound` or the kind "unsupported". The ghost variables are `origin`,
`effective` and `edited`.

**Launch.** Each launcher runs one command. `mem` holds what it read: the
container it saw, the configuration it rendered and the image it pulled. Every step that acts reads
the present world only where the code does. `Suspend`, `Resume`, `SessionExits`,
`EditConfiguration`, `PublishImage`, `ForeignAppears` and `Kill` are the world.
A Compose call and a daemon request are atomic steps. No Docker client works
outside the project lock in this module, so the branches of `recheckProject` for a
container that was started or replaced meanwhile are modelled and hardly taken:
`RunningSurvivesLaunch` and `RefreshKeepsConfiguration` are about local launchers,
edits, publications, suspensions and foreign containers. `conf` is what the service
hash covers, which leaves out the state volume. Left out: the refusal of
legacy containers, desktop access, custom volumes, `exec`, notices, drift reports
and the Compose commands that are passed through.

**SnapshotExport.** Paths lead to inodes, so a rename, a compression or an unlink
does not disturb a kept descriptor, while a rewrite in place does. An inode has a
number of complete records, a version and possibly an unfinished record. The
exporter reads in two parts, so that a read can be torn. `saved`, `rows`,
`during` and `later` are history variables. Left out: symbolic links, cycles and
size limits, legacy file names, schema variants, JSON validation, and `Inspect`,
which is the same capture without a stream.

**HomeBootstrap.** `pc[c]` is a container's place in the entrypoint, one step per
command that changes the home. `create_missing` is temp file, `ln`, `rm`, verify.
A killed container starts over. `entry[c]` is the directory right under the home on
the way to the container's workspace, or `NoDir` for a workspace elsewhere. `Mount`
is Docker, which makes that directory in the shared volume before the entrypoint
runs; `mounts` are the ones made so far. `HomeIsEmpty(c)` allows only the
container's own one, so that two corrals of different workspaces can each find the
home of the other not empty: neither takes it over, and both die. A home that is not
new starts with any contents, with mount points only, or with nothing, and with
either owner. All containers belong to one host user. Accounts and `/etc` files are
rebuilt in each container and left out.

## 4. Runs

| Run | Question | Bounds |
| --- | --- | --- |
| `staging` | Do live stages, leases, orphans and unfamiliar files fare as they should through kills, timeouts, I/O errors, power failures? Is every orphan eventually removed? | 2 imports, 3 stages, 1 slot, 2 faults; 614k states |
| `publication` | Do three related imports keep lineages complete, history growing and selections complete, does a retry succeed, and is the home a `SessionStore`? | 2 importers, plans Parent, Revert, Fork, 3 homes, 2 interrupts or 1 power failure; 181k states |
| `publication_durability` (violation) | Is all history durable when the selection is committed? | 1 interrupt |
| `publication_indexing` (violation) | Does a thread select its whole conversation after a reported import? | plans Fork and Restart, no faults |
| `transfer` | Is only a complete stream published, does an unreadable source leave the destination alone, and is the whole a `SessionCopy`: success only for a reported, clean import, nothing changed behind a returned command, every command returns? | 4 members, a pipe of 1, 3 faults; 39k states |
| `transfer_lost_create` (violation) | Does cleanup handle an uncertain create? | 1 fault |
| `launch_lifecycle` | Do running work, deployed configuration, transfers and foreign containers survive two concurrent commands, and do all commands end? | 2 launchers, 1 project, 10 commands, 2 events; 423k states |
| `launch_state` | Do two corrals that share volumes keep owned homes, and do volumes go only on request? | 2 launchers, 2 projects, 2 volumes, 1 event; 1.7M states |
| `launch_teardown` (violation) | Does `down -v` refuse before the teardown? | as above |
| `session_target` | Does the helper see the workstation's storage and no more, is the SQLite home one that was configured, does the helper only start on the inspected volumes? | 5100 scenarios (below), 2 edits or 3 foreign events; 105k states |
| `snapshot_export` | Is a completed stream one saved state with its lineage and selection, and is every refusal justified? | 3 rollouts, 3 records, 2 Codex operations; 662k states |
| `home_startup` | When can a start on a new volume fail, does a home with contents keep its owner, are startup files complete and kept? | 2 containers, 2 mount points, 2 kills; 2.3M states up to symmetry |

Why the bounds suffice for the interesting cases. Two actors are needed for every
race in the code: locks are pairwise, and a third party is played by the world,
Codex or the daemon. In `staging`, three names allow an orphan, a live stage and
a new one at once, and two faults a fault during the recovery from another; the
safety properties of this module are proved for all values. The lineage of
`MCPublication` has an ancestor shared by a revert in its own thread and a fork
in another one that need different prefixes of it, and homes in which it is
absent, complete or short. `publication_indexing` takes the other case, a
conversation of the ancestor's thread that does not descend from it (`Restart`). In `Transfer` the pipe holds one of four members, so
both ends block; three faults combine an interrupt, a lost answer and a failed
cleanup. `MaxId` of `Launch` is never what stops a run of the two commands.
`SessionTarget` starts from four families of scenarios: 412 deployments with
every relation of Codex home, SQLite home, workspace and nested mounts (same,
above, below, beside, at the root) for either direction; configurations at either
end with two edits in any files; usable and unusable workstations with three
foreign calls, which is what it takes to remove the workstation, remove its volume
and put both back; and every request for a state volume against every deployed
one. `ResolvedAsConfigured` speaks of discoveries during which at most one file
changed: with two changed files the discovery may return a value that was never
in force, since the code has no atomic view of several files and claims none.
`SnapshotExport` has been run once with three Codex operations as well (13.3M
states, the same result). Two containers and two directories give `HomeBootstrap`
workspaces with one mount point, with two and outside the home; containers and
directories are interchangeable there, and that is the only use of symmetry. The
run checks no liveness, and its action properties quantify over all containers.

Deadlock is checked in every run; where a system may stop, an explicit stuttering
disjunct says in which states.

### What a doc or comment says otherwise

Each violation run states a sentence of the repository and shows a behaviour of
the code that disagrees with it.

- `publication_durability`: "All live history must be durable before this call"
  (`internal/session/selection_update.go:152`). A retry reuses a file that an
  interrupted import linked but did not sync, and commits. This is why
  `publication` has interrupts or a power failure and not both: after both a
  confirmed conversation can be lost with its directory entry.
  `NoDanglingSelection` and `RetrySucceeds` are asked of behaviours without a
  power failure: the indexer of Codex can commit a row for a file that is linked
  and not yet synced, and after the failure the import refuses a row whose file
  is gone.
- `transfer_lost_create`: the cleanup "also handles an uncertain create response"
  (`internal/sessiontransport/docker.go:78-79`). It looks once; a request that the
  daemon handles later leaves the helper behind, unreported.
- `launch_teardown`: `down -v` "refuses the request before tearing down the
  selected project" (`README.md:111-114`). A reference that appears after the plan
  makes the removal fail after the teardown.
- `publication_indexing`: "A scan that has not started yet will see the complete
  publication; an overlapping scan must finish before its selected prerequisite is
  repaired" (`internal/session/selection_update.go:179-180`), and only "Before
  successful completion, or after a failed attempt, partial prerequisites can be
  indexed" (`docs/session-transfer-design.md:324-325`). The import of a single file
  skips that wait (`publish.go:158`). The scan has passed the ordinary directories
  when a conversation of thread A that inherits nothing is linked and confirmed; a
  fork is imported that inherits from another rollout of A, as a managed
  prerequisite; the scan finds that one and selects it for A.

Three more disagreements are visible in the models and have no run of their own. A
bare launch with another state volume on the command line refreshes a stopped
container onto that volume, while `startup.go:213` prints that its home mount is
preserved: the service hash does not cover the name of the external volume
(`launch_lifecycle` selects one volume only). And a start killed between the
redirection and the write of the harness settings leaves an empty file that later
starts respect (`entrypoint.sh:310-314`), while `docs/harnesses.md:13-14` says
that missing settings get the defaults. And a managed copy of an ancestor that is
shorter than a later cutoff refuses the export although the live ancestor has the
history (`inspect.go:105-145`, `rollout.go:173`), while
`docs/session-transfer-design.md:252-253` says of destinations that a complete
ancestor satisfies a required prefix: this is the cause `ShortCopy` of
`RefusalJustified`.

## 5. Fairness

- `Staging!FairSpec`: weak fairness of each import's own steps and of `Begin`: a
  process that is not killed runs on, and imports keep being started on the home,
  since only an import reaps. Nothing is assumed about who wins the poll for the
  coordinator, and faults are bounded, so they stop.
- `Publication!FairSpec`: weak fairness of an importer's steps and of the indexer,
  strong fairness of `Acquire`: guards are tried without waiting (a busy guard is
  an error), and the user repeats the command; the premise says that Codex
  does not hold the conversation all the time and that the machine did not fail.
- `Transfer!FairSpec`: weak fairness of the controller, the Docker client, the
  daemon and each helper. The code's own deadlines on client calls are part of the
  model; that the daemon finally answers or its client times out is assumed. Under
  this fairness TLC shows that `SessionCopy` comes to an outcome.
- `SessionTarget` states no liveness: it is a straight line of steps, each of which
  goes on or fails.
- `Launch!FairSpec`: weak fairness of each launcher, of the start of the session in
  a container and of a container's resumption. A launcher is not given a lock
  before others: since every holder ends or dies, weak fairness of the step that
  finds the lock free suffices for the two launchers of the run.

## 6. Proofs

TLAPS checks every theorem below for all values of the constants. Each component's
theorems are in a module of their own, `<Component>Proofs`. None of the properties
is inductive; each module defines an inductive invariant `IInv`, checked with TLC
on a small instance before it was proved, and has one step lemma per action or
group of actions with the same effect.

Assumptions. Every module names what it assumes of its constants, and TLC
evaluates the assumptions in the runs. Most only give the constants their types.
Those that say more:

- `Publication!LineageAssumption`: a plan names a rollout once, which `receive`
  checks (`stream.go:300`); two plans for one conversation inherit the same files,
  since the inherited history is part of the rollout's metadata, which never
  changes; and a record that Codex appends is a new one.
- `Publication!HomeAssumption`: the conversations of the initial homes have what
  they inherit. A home that violates it was not left by this program.
- `Launch!ConstantsAssumption` bounds the image of an initial container by the
  published one: an image is published before it is deployed.
- `SessionTarget!TargetAssumption` types the scenarios: paths are clean and
  absolute, mounts of one container have distinct places, and the Codex home lies
  in the home.
- `SnapshotExport!ConstantsAssumption`: at least two records fit, so that the
  ancestor of the initial states can have an inherited and a later one.

`StagingProofs`, for any numbers of imports, stages, slots and faults:
`TypeCorrect`, `LiveStagePreserved` (`[]OwnPayloadIntact`), `PayloadNeverLeaseless`
(`[]PayloadHasLease`), `RecoveryReapsAll` (`[]RecoveryComplete`) and `UnfamiliarKept`
(`UnfamiliarPreserved`, an action property). `IInv` is `TypeOK` and five parts:

- `Locks`: who holds the coordinator and each lease is determined by the control
  points. Without it nothing stops a second remover.
- `Ownership`: a process has a stage of its own only while it works on it or closes
  it, and no two processes have the same.
- `Removal`: a stage being removed is nobody else's, and what has been validated,
  unlinked and synced at each step of `removeStaging`.
- `Contents`: `OwnPayloadIntact`, and payload in either tree only with the lease in
  both; this is where the sync barriers are used.
- `Recovery`: orphans that are still there are reapable and still to be visited.

`PublicationProofs`, for any set of plans, importers, homes and faults:
`TypeCorrect`, `LineagesClosed`, `SelectionsExist` (`[]NoDanglingSelection`),
`HistoryKept` (`HistoryOnlyGrows`), `StoreImplemented` (`ImplementsStore`, the whole
refinement of `SessionStore`) and `SelectionSettled` (`[]AwaitedNeverPartial`).
The heart of `IInv` is `Working`: what an importer knows of each file of its plan
(`Knows`) - compared and pending, prefix grown, just linked, or in place. It holds
both of the visible home and of the home on disk (`Durable`), and it survives the
other importers because the guards of all rollouts of the plan are held (`Guarded`)
and history only grows. `Resumable` is `LineageClosed` of both homes, `Reserved` and
`Scanned` describe the database and the indexer. Every step that publishes is a
`Grows` step at one place, and what that preserves is proved once.

`SelectionSettled` says how much of the documented claim `ConfirmedNeverPartial`
holds, with no hypothesis on plans or homes: after a reported success a thread
whose conversation inherits selects no prerequisite at all, since `publish` waited
for an overlapping scan and repaired what it selected; a conversation that inherits
nothing is not waited for (`publish.go:158`), and its thread still never selects a
prefix of that conversation: if a managed copy was there, the import was a promotion,
which waits; if not, later imports reuse the ordinary file and make none. What remains, a prerequisite
that is another rollout of the same thread, is what `publication_indexing` shows.

The same skip limits a retry. If the import of such a single file is interrupted
after the link and indexing selects the other rollout's prerequisite meanwhile,
every retry is refused as a conflict, since that prerequisite is not in its lineage.
`RetrySucceeds` is therefore about threads all of whose plans descend from the
prerequisites of the thread (`SharesLineage`).

`TransferProofs`, for any stream length, pipe capacity and number of faults:
`TypeCorrect`, `OnlyCompleteStreams` (`[]CompleteStreamOnly`),
`NothingForInvalidSource` (`[]InvalidSourceTouchesNothing`) and
`ImplementsCopySafety` (`Copy!Safety`: every step is a step of `SessionCopy` or
leaves it alone; its last conjunct, that the command returns, is a matter of
fairness). `IInv` has a part for the stream (`Stream`, `Publishing`), for the
order in which the consumer starts (`Waiting`), for what the daemon has at each
point of `Docker.Run` (`Container`, `Requests`), and for what a result means
(`Cleaned`, `Verdict`). The refinement needs the last two: success is announced on
the word of the two ends, and that both words are true, and the container gone, is
known only through the history of the run.

`LaunchProofs`, for any numbers of launchers, projects and events: `TypeCorrect`,
`HomesOwned`, `TransferStable` (`[]TransferTargetStable`) and the action properties
`RunningSurvives`, `RefreshFaithful`, `ForeignKept` and `StateRemoval`. `IInv` says
for each launcher (`Known`) that it holds the lock of its project, what its command
is at the points of a path (`Programs`), that the container it inspected under the
lock is still there (`Stays`), that the volume it validated has not become a foreign
one (`Validated`), and what Compose may replace (`Replaceable`). `Images` (images
only get newer) is what makes a refresh a step forward. `Stays` and `Replaceable`
are kept against the other launchers by the lock and against the world because
neither a suspension nor an exit of a session replaces a container.

`SessionTargetProofs`, for any mounts, paths, configurations and foreign calls:
`TypeCorrect`, `StartedOnInspectedStorage` (`[]RunsOnInspectedStorage`),
`HelperSeesSameStorage` (`[]SameStorage`), `HelperHasLeastAccess` (`[]LeastAccess`)
and `DiscoveredAsConfigured` (`[]ResolvedAsConfigured`). Storage and access are about
a pure function, the selection of mounts: lemmas on containment of paths (a partial
order in which the paths above a path are a chain) give that the innermost mount
above a path exists and is unique, and that narrowing a mount to a directory leads
every path below to the same place. `IInv`
relates the world to the inspection: until the workstation is removed its mounts
and volumes are those inspected (`Workstation`), the target is what the selection
gives for them (`Selected`), and a helper that may start holds the inspected
volumes (`Held`). `DInv` adds the discovery: what it has after some files is what a
configuration `c` gives for them, where `c` was in force at one moment, and differs
from the present one at most by a file that was read and edited afterwards
(`ReadFrom`). A file edited before it is read makes the new configuration that `c`;
a second edited file would leave no single one, which is why the property excludes
it.

`SnapshotExportProofs`, for any number of records and of operations of Codex:
`TypeCorrect`, `LineagesComplete` (`[]LineageComplete`), `SelectionsHeld`
(`[]SelectionHeld`), `ExportedSaved` (`[]ExportedIsSaved`) and `RefusalsJustified`
(`[]RefusalJustified`). The exporter takes no
lock, so `IInv` says what Codex never undoes: a rollout that was live is live
somewhere (`Inventory`), the row only moves on to newer rollouts (`Row`, which is why
reading it twice suffices), an inherited boundary is written once (`Ancestry`). On
the exporter's side `Captures` says which rollout is being read (the chosen one, the
one captured last, or the one that this one inherits from) and `Chain` that the plan
has no gap. `ExportedSaved` needs more (`FInv`): versions of a file only grow, so
equal hashes mean equal versions (`Versions`); no two rollouts share a file
(`Apart`); and while the row holds, every state of the file being read is a saved
state of the conversation (`History`). `RefusalsJustified` is the converse, that a
check fails only if there was a cause, and `RInv` adds what it needs. `Codex` says
what a home looks like whenever Codex is not in the middle of an operation: a
conversation has one file (`OneFile`), the row names it (`RowPlaced`), what a rollout
inherits is not cut off (`Inherited`). `Calm` says that while only appends have
happened the inventory, the row and the open file are still what the exporter saw,
so that each of its comparisons succeeds. `Intact` is about the descriptors, and
holds as long as nothing is rewritten in place: each shows at least what was
captured, in the same version.

`HomeBootstrapProofs`, for any numbers of containers, mount points and kills:
`HomeTypeCorrect`, `FreshHomeFailure` (`FreshHomeUsable`), `OwnershipPreserved`
(`HomeOwnershipKept`) and `StartupFilesPreserved`. `IInv` adds three parts to the
types. `Working`: a container that is past the look at the home's permissions works
in a home of the user. `Pending`: a container that is about to change the owner
found nothing in the home, and if something has come since, the home is already the
user's, so the late change is none; this is the race that `HomeOwnershipKept` is
about, and it needs `Working`, since only a start that found the home writable, or
took it over itself, creates anything. `Claimed`: a new volume is the user's or
holds nothing but mount points, and a container that did not take it over saw that
of another workspace. `FreshHomeUsable` is thus the precise form of
`docs/runtime-model.md:27-28`, "Concurrent first initialization of one fresh shared
home can race; start one corral to readiness first when that matters": it names the
one way to fail, and says that one corral that is ready is enough.

Only model-checked:

- the liveness properties (`OrphanReaped`, `RetrySucceeds`, `CommandsEnd` and the
  outcome of `SessionCopy`), since the prover does not reason about fairness.

## 7. Not modelled

- Pure functions of one input: the legacy guard, the parsing of configuration and
  arguments (but the selection of a state volume), Compose overlays, argument
  construction. They have table tests and no state across steps.
- The asset cache (`internal/compose/assets.go`): every launcher writes a temporary
  file of its own and renames it onto the hash of its content, so any order of two
  writers installs the same bytes; a model would only repeat that.
- Desktop access, discovery and information, the update check and tmux notices:
  each reads the host once and prints or passes on what it found.
- Packaging and release: shell and build tooling run by hand, whose state is on a
  remote service.
- Formats (tar, JSON, zstd, SQL schema, TOML) are abstracted to what the checks on
  them decide.
- Of the external parts, the Docker daemon and Compose are taken to do what a
  request asks, atomically, possibly late; SQLite to commit atomically and durably;
  the filesystem to persist synced entries and possibly others.

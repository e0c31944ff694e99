------------------------------- MODULE Staging -------------------------------
(***************************************************************************)
(* Ownership and recovery of the private staging directories in which an   *)
(* import assembles a received session (internal/session/stage.go and      *)
(* stage_recovery.go).                                                      *)
(*                                                                         *)
(* Every import takes the home's coordinator lock, reaps the directories   *)
(* of dead imports, creates a directory of its own, locks the lease in it, *)
(* makes the lease durable and only then lets go of the coordinator and    *)
(* writes payload.  Close takes the coordinator again to remove the        *)
(* directory.  Locks are advisory kernel locks: they vanish with their     *)
(* process, while the directory entries stay.  A machine failure keeps     *)
(* only the entries that a sync, or the kernel on its own, put on disk.    *)
(***************************************************************************)
EXTENDS Naturals, FiniteSets

CONSTANTS
    Proc,       \* importing processes (host commands and helper containers)
    Stage,      \* staging directory names, drawn from random nonces
    Slot,       \* payload entries of a stage: received files and extensions
    Lease,      \* the ".lease" entry
    Foreign,    \* an entry that is neither the lease nor a slot
    None,       \* no process, no stage
    MaxFaults   \* bound on kills, failures, timeouts and foreign writes

Entry == Slot \cup {Lease, Foreign}

ASSUME ConstantsAssumption ==
    /\ Lease \notin Slot
    /\ Foreign \notin Slot
    /\ Lease # Foreign
    /\ None \notin Proc
    /\ None \notin Stage
    /\ MaxFaults \in Nat

VARIABLES
    pc,          \* where each process is in staging / Receive / Publish / Close
    coordinator, \* holder of the home's .hcorral-staging.lock
    lease,       \* holder of each stage's lease lock
    home,        \* stage directories visible in the Codex home
    homeD,       \* stage directories whose entry in the home is on disk
    dir,         \* visible entries of each stage
    disk,        \* entries of each stage that are on disk
    mine,        \* the stage a process created for its own import
    target,      \* the stage a process is removing
    todo,        \* stages recoverStaging has still to visit
    wrote,       \* payload the import has in its stage
    orphans,     \* history: reapable stages when recovery began
    faults       \* faults so far

vars == <<pc, coordinator, lease, home, homeD, dir, disk, mine, target, todo,
          wrote, orphans, faults>>

fsVars == <<home, homeD, dir, disk>>

-----------------------------------------------------------------------------
(* Control points, grouped by what the process holds there.                *)

Removing == {"validate", "unlinkSlots", "syncEmpty", "unlinkLease",
             "syncLeaseless", "rmdir", "syncRemoved"}

Reserving == {"createLease", "lockLease", "syncLease", "syncStage"}

Coordinating == {"recover", "mkdir", "unwindRmdir"} \cup Removing \cup Reserving

\* The process has locked the lease of the stage it created.
Leasing == {"syncLease", "syncStage", "receive", "publish", "closing"}

\* The process has a stage of its own.
Owning == Reserving \cup Leasing \cup {"unwindRmdir"}

PC == {"idle", "waiting", "receive", "publish", "closing"} \cup Coordinating

\* Mutant of Familiar: entry names are not checked.
FamiliarAnyName(s) == dir[s] \cap Slot # {} => Lease \in dir[s]

\* What removeStaging accepts as the layout of a stage: lease and slots only,
\* and no slots without the lease.
Familiar(s) ==
    /\ dir[s] \subseteq Slot \cup {Lease}
    /\ dir[s] \cap Slot # {} => Lease \in dir[s]

\* A stage the recovery pass would remove if it looked at it now.
Reapable(s) ==
    /\ s \in home
    /\ Familiar(s)
    /\ \A p \in Proc : mine[p] # s

Fault == faults < MaxFaults /\ faults' = faults + 1

-----------------------------------------------------------------------------
Init ==
    /\ pc = [p \in Proc |-> "idle"]
    /\ coordinator = None
    /\ lease = [s \in Stage |-> None]
    /\ home = {}
    /\ homeD = {}
    /\ dir = [s \in Stage |-> {}]
    /\ disk = [s \in Stage |-> {}]
    /\ mine = [p \in Proc |-> None]
    /\ target = [p \in Proc |-> None]
    /\ todo = [p \in Proc |-> {}]
    /\ wrote = [p \in Proc |-> {}]
    /\ orphans = [p \in Proc |-> {}]
    /\ faults = 0

-----------------------------------------------------------------------------
(* staging: coordinate, recover, reserve.                                  *)

\* An import opens the coordinator and starts polling for its lock.
Begin(p) ==
    /\ pc[p] = "idle"
    /\ pc' = [pc EXCEPT ![p] = "waiting"]
    /\ UNCHANGED <<coordinator, lease, fsVars, mine, target, todo, wrote,
                   orphans, faults>>

\* The poll finds the lock free; the enumeration of the home begins.
StagingCoordination(p) ==
    /\ pc[p] = "waiting"
    /\ coordinator = None
    /\ coordinator' = p
    /\ todo' = [todo EXCEPT ![p] = home]
    /\ orphans' = [orphans EXCEPT ![p] = {s \in Stage : Reapable(s)}]
    /\ pc' = [pc EXCEPT ![p] = "recover"]
    /\ UNCHANGED <<lease, fsVars, mine, target, wrote, faults>>

\* The context ends while the process polls.
StagingCancelled(p) ==
    /\ pc[p] = "waiting"
    /\ Fault
    /\ pc' = [pc EXCEPT ![p] = "idle"]
    /\ UNCHANGED <<coordinator, lease, fsVars, mine, target, todo, wrote,
                   orphans>>

\* Mutants of LeaseBusy: the lock is not tried, or the file alone decides.
LeaseNotTried(s) == FALSE
LeasePresent(s) == Lease \in dir[s]

\* The lease is locked by a live process: an arbitrarily old transfer is skipped.
LeaseBusy(s) == Lease \in dir[s] /\ lease[s] # None

\* Mutant of RecoverStage: a busy stage falls through to the removal.
RecoverStageFallsThrough(p) ==
    /\ pc[p] = "recover"
    /\ \E s \in todo[p] :
        /\ todo' = [todo EXCEPT ![p] = todo[p] \ {s}]
        /\ IF LeaseBusy(s)
           THEN UNCHANGED target
           ELSE target' = [target EXCEPT ![p] = s]
    /\ pc' = [pc EXCEPT ![p] = "validate"]
    /\ UNCHANGED <<coordinator, lease, fsVars, mine, wrote, orphans, faults>>

RecoverStage(p) ==
    /\ pc[p] = "recover"
    /\ \E s \in todo[p] :
        /\ todo' = [todo EXCEPT ![p] = todo[p] \ {s}]
        /\ IF LeaseBusy(s)
           THEN UNCHANGED <<pc, target>>
           ELSE /\ target' = [target EXCEPT ![p] = s]
                /\ pc' = [pc EXCEPT ![p] = "validate"]
    /\ UNCHANGED <<coordinator, lease, fsVars, mine, wrote, orphans, faults>>

\* Mutant of RecoverStagingDone: recovery stops after the first stage.
RecoverStagingStops(p) ==
    /\ pc[p] = "recover"
    /\ pc' = [pc EXCEPT ![p] = "mkdir"]
    /\ UNCHANGED <<coordinator, lease, fsVars, mine, target, todo, wrote,
                   orphans, faults>>

RecoverStagingDone(p) ==
    /\ pc[p] = "recover"
    /\ todo[p] = {}
    /\ pc' = [pc EXCEPT ![p] = "mkdir"]
    /\ UNCHANGED <<coordinator, lease, fsVars, mine, target, todo, wrote,
                   orphans, faults>>

\* A random nonce collides with no name in use, visible or on disk.
Fresh(s) == s \notin home \cup homeD

MkdirStage(p) ==
    /\ pc[p] = "mkdir"
    /\ \E s \in Stage :
        /\ Fresh(s)
        /\ home' = home \cup {s}
        /\ dir' = [dir EXCEPT ![s] = {}]
        /\ disk' = [disk EXCEPT ![s] = {}]
        /\ mine' = [mine EXCEPT ![p] = s]
    /\ pc' = [pc EXCEPT ![p] = "createLease"]
    /\ UNCHANGED <<coordinator, lease, homeD, target, todo, wrote, orphans,
                   faults>>

\* The directory cannot be created: staging returns and drops the coordinator.
MkdirFails(p) ==
    /\ pc[p] = "mkdir"
    /\ pc' = [pc EXCEPT ![p] = "idle"]
    /\ coordinator' = None
    /\ orphans' = [orphans EXCEPT ![p] = {}]
    /\ UNCHANGED <<lease, fsVars, mine, target, todo, wrote, faults>>

CreateLease(p) ==
    /\ pc[p] = "createLease"
    /\ dir' = [dir EXCEPT ![mine[p]] = @ \cup {Lease}]
    /\ pc' = [pc EXCEPT ![p] = "lockLease"]
    /\ UNCHANGED <<coordinator, lease, home, homeD, disk, mine, target, todo,
                   wrote, orphans, faults>>

LockLease(p) ==
    /\ pc[p] = "lockLease"
    /\ lease' = [lease EXCEPT ![mine[p]] = p]
    /\ pc' = [pc EXCEPT ![p] = "syncLease"]
    /\ UNCHANGED <<coordinator, fsVars, mine, target, todo, wrote, orphans,
                   faults>>

\* lease.Sync and dir.Sync: the stage's entries reach the disk.
SyncLease(p) ==
    /\ pc[p] = "syncLease"
    /\ disk' = [disk EXCEPT ![mine[p]] = dir[mine[p]]]
    /\ pc' = [pc EXCEPT ![p] = "syncStage"]
    /\ UNCHANGED <<coordinator, lease, home, homeD, dir, mine, target, todo,
                   wrote, orphans, faults>>

\* h.dir.Sync, then the deferred close of the coordinator.
SyncStage(p) ==
    /\ pc[p] = "syncStage"
    /\ homeD' = home
    /\ coordinator' = None
    /\ orphans' = [orphans EXCEPT ![p] = {}]
    /\ pc' = [pc EXCEPT ![p] = "receive"]
    /\ UNCHANGED <<lease, home, dir, disk, mine, target, todo, wrote, faults>>

\* An error before the reservation is complete: close and unlink the lease.
UnwindLease(p) ==
    /\ pc[p] \in Reserving
    /\ Fault
    /\ lease' = [lease EXCEPT ![mine[p]] = None]
    /\ dir' = [dir EXCEPT ![mine[p]] = @ \ {Lease}]
    /\ pc' = [pc EXCEPT ![p] = "unwindRmdir"]
    /\ UNCHANGED <<coordinator, home, homeD, disk, mine, target, todo, wrote,
                   orphans>>

\* ... then remove the directory if it is empty, and drop the coordinator.
UnwindRmdir(p) ==
    /\ pc[p] = "unwindRmdir"
    /\ home' = IF dir[mine[p]] = {} THEN home \ {mine[p]} ELSE home
    /\ mine' = [mine EXCEPT ![p] = None]
    /\ coordinator' = None
    /\ orphans' = [orphans EXCEPT ![p] = {}]
    /\ pc' = [pc EXCEPT ![p] = "idle"]
    /\ UNCHANGED <<lease, homeD, dir, disk, target, todo, wrote, faults>>

-----------------------------------------------------------------------------
(* Receive and Publish, as far as they touch the stage.                    *)

\* Receive creates a file slot, and preparePrefix an extension slot.
WriteSlot(p) ==
    /\ pc[p] = "receive"
    /\ \E e \in Slot \ wrote[p] :
        /\ dir' = [dir EXCEPT ![mine[p]] = @ \cup {e}]
        /\ wrote' = [wrote EXCEPT ![p] = @ \cup {e}]
    /\ UNCHANGED <<pc, coordinator, lease, home, homeD, disk, mine, target,
                   todo, orphans, faults>>

Publish(p) ==
    /\ pc[p] = "receive"
    /\ pc' = [pc EXCEPT ![p] = "publish"]
    /\ UNCHANGED <<coordinator, lease, fsVars, mine, target, todo, wrote,
                   orphans, faults>>

\* publishPrefix renames an extension slot over its live file.
PublishPrefix(p) ==
    /\ pc[p] = "publish"
    /\ \E e \in wrote[p] :
        /\ dir' = [dir EXCEPT ![mine[p]] = @ \ {e}]
        /\ wrote' = [wrote EXCEPT ![p] = @ \ {e}]
    /\ UNCHANGED <<pc, coordinator, lease, home, homeD, disk, mine, target,
                   todo, orphans, faults>>

-----------------------------------------------------------------------------
(* Close.                                                                  *)

\* The import ends, by success, error or cancellation; Close starts polling.
CloseBegin(p) ==
    /\ pc[p] \in {"receive", "publish"}
    /\ pc' = [pc EXCEPT ![p] = "closing"]
    /\ UNCHANGED <<coordinator, lease, fsVars, mine, target, todo, wrote,
                   orphans, faults>>

\* The coordinator is ours: the lease closes before anything is unlinked.
CloseCoordination(p) ==
    /\ pc[p] = "closing"
    /\ coordinator = None
    /\ coordinator' = p
    /\ lease' = [lease EXCEPT ![mine[p]] = None]
    /\ target' = [target EXCEPT ![p] = mine[p]]
    /\ wrote' = [wrote EXCEPT ![p] = {}]
    /\ pc' = [pc EXCEPT ![p] = "validate"]
    /\ UNCHANGED <<fsVars, mine, todo, orphans, faults>>

\* Five seconds without the coordinator: the lease closes, the stage stays.
CloseTimeout(p) ==
    /\ pc[p] = "closing"
    /\ Fault
    /\ lease' = [lease EXCEPT ![mine[p]] = None]
    /\ mine' = [mine EXCEPT ![p] = None]
    /\ wrote' = [wrote EXCEPT ![p] = {}]
    /\ pc' = [pc EXCEPT ![p] = "idle"]
    /\ UNCHANGED <<coordinator, fsVars, target, todo, orphans>>

-----------------------------------------------------------------------------
(* removeStaging, called by recovery (mine = None) and by Close.           *)

\* The caller's return from removeStaging: recovery goes on with the next
\* directory when it succeeded or preserved the stage, and fails the import
\* otherwise; Close always drops the coordinator.
RemoveReturns(p, goOn) ==
    LET resume == goOn /\ mine[p] = None
    IN  /\ pc' = [pc EXCEPT ![p] = IF resume THEN "recover" ELSE "idle"]
        /\ coordinator' = IF resume THEN p ELSE None
        /\ todo' = [todo EXCEPT ![p] = IF resume THEN @ ELSE {}]
        /\ orphans' = [orphans EXCEPT ![p] = IF resume THEN @ ELSE {}]
        /\ mine' = [mine EXCEPT ![p] = None]
        /\ target' = [target EXCEPT ![p] = None]

\* The whole layout is checked before anything is unlinked; an unfamiliar
\* stage is left alone.
RemoveValidate(p) ==
    /\ pc[p] = "validate"
    /\ IF Familiar(target[p])
       THEN /\ pc' = [pc EXCEPT ![p] = "unlinkSlots"]
            /\ UNCHANGED <<coordinator, mine, target, todo, orphans>>
       ELSE RemoveReturns(p, TRUE)
    /\ UNCHANGED <<lease, fsVars, wrote, faults>>

RemoveSlot(p) ==
    /\ pc[p] = "unlinkSlots"
    /\ \E e \in dir[target[p]] \ {Lease} :
        dir' = [dir EXCEPT ![target[p]] = @ \ {e}]
    /\ UNCHANGED <<pc, coordinator, lease, home, homeD, disk, mine, target,
                   todo, wrote, orphans, faults>>

\* A second enumeration finds only the lease.
RemoveSlotsDone(p) ==
    /\ pc[p] = "unlinkSlots"
    /\ dir[target[p]] \subseteq {Lease}
    /\ pc' = [pc EXCEPT ![p] = "syncEmpty"]
    /\ UNCHANGED <<coordinator, lease, fsVars, mine, target, todo, wrote,
                   orphans, faults>>

\* Mutant of RemoveSyncEmpty: the barrier is missing.
RemoveSyncSkipped(p) ==
    /\ pc[p] = "syncEmpty"
    /\ pc' = [pc EXCEPT ![p] = "unlinkLease"]
    /\ UNCHANGED <<coordinator, lease, fsVars, mine, target, todo, wrote,
                   orphans, faults>>

\* The barrier: payload removal is durable before the lease goes.
RemoveSyncEmpty(p) ==
    /\ pc[p] = "syncEmpty"
    /\ disk' = [disk EXCEPT ![target[p]] = dir[target[p]]]
    /\ pc' = [pc EXCEPT ![p] = "unlinkLease"]
    /\ UNCHANGED <<coordinator, lease, home, homeD, dir, mine, target, todo,
                   wrote, orphans, faults>>

RemoveLease(p) ==
    /\ pc[p] = "unlinkLease"
    /\ dir' = [dir EXCEPT ![target[p]] = @ \ {Lease}]
    /\ pc' = [pc EXCEPT ![p] = "syncLeaseless"]
    /\ UNCHANGED <<coordinator, lease, home, homeD, disk, mine, target, todo,
                   wrote, orphans, faults>>

RemoveSyncLeaseless(p) ==
    /\ pc[p] = "syncLeaseless"
    /\ disk' = [disk EXCEPT ![target[p]] = dir[target[p]]]
    /\ pc' = [pc EXCEPT ![p] = "rmdir"]
    /\ UNCHANGED <<coordinator, lease, home, homeD, dir, mine, target, todo,
                   wrote, orphans, faults>>

\* AT_REMOVEDIR refuses a directory that is not empty.
RemoveRmdir(p) ==
    /\ pc[p] = "rmdir"
    /\ dir[target[p]] = {}
    /\ home' = home \ {target[p]}
    /\ pc' = [pc EXCEPT ![p] = "syncRemoved"]
    /\ UNCHANGED <<coordinator, lease, homeD, dir, disk, mine, target, todo,
                   wrote, orphans, faults>>

RemoveSyncHome(p) ==
    /\ pc[p] = "syncRemoved"
    /\ homeD' = home
    /\ RemoveReturns(p, TRUE)
    /\ UNCHANGED <<lease, home, dir, disk, wrote, faults>>

\* An I/O error, or the end of the context, at any point of the removal.
RemoveFails(p) ==
    /\ pc[p] \in Removing
    /\ Fault
    /\ RemoveReturns(p, FALSE)
    /\ UNCHANGED <<lease, fsVars, wrote>>

-----------------------------------------------------------------------------
(* The environment: kernel write-back, killed processes, power failures    *)
(* and whoever else may write into the Codex home.                         *)

\* The kernel puts one pending change of a stage's entries on disk.
WriteBackEntry(s) ==
    /\ \E e \in Entry :
        /\ (e \in dir[s]) # (e \in disk[s])
        /\ disk' = [disk EXCEPT ![s] = IF e \in dir[s] THEN @ \cup {e}
                                       ELSE @ \ {e}]
    /\ UNCHANGED <<pc, coordinator, lease, home, homeD, dir, mine, target,
                   todo, wrote, orphans, faults>>

\* ... or one pending creation or removal of a stage directory.
WriteBackHome(s) ==
    /\ (s \in home) # (s \in homeD)
    /\ homeD' = IF s \in home THEN homeD \cup {s} ELSE homeD \ {s}
    /\ UNCHANGED <<pc, coordinator, lease, home, dir, disk, mine, target,
                   todo, wrote, orphans, faults>>

\* SIGKILL: the kernel releases the locks, the directory entries stay.
Kill(p) ==
    /\ pc[p] # "idle"
    /\ Fault
    /\ pc' = [pc EXCEPT ![p] = "idle"]
    /\ coordinator' = IF coordinator = p THEN None ELSE coordinator
    /\ lease' = [s \in Stage |-> IF lease[s] = p THEN None ELSE lease[s]]
    /\ mine' = [mine EXCEPT ![p] = None]
    /\ target' = [target EXCEPT ![p] = None]
    /\ todo' = [todo EXCEPT ![p] = {}]
    /\ wrote' = [wrote EXCEPT ![p] = {}]
    /\ orphans' = [orphans EXCEPT ![p] = {}]
    /\ UNCHANGED fsVars

\* Power loss: only what is on disk comes back, and nobody holds a lock.
MachineFailure ==
    /\ Fault
    /\ pc' = [p \in Proc |-> "idle"]
    /\ coordinator' = None
    /\ lease' = [s \in Stage |-> None]
    /\ home' = homeD
    /\ dir' = [s \in Stage |-> IF s \in homeD THEN disk[s] ELSE {}]
    /\ disk' = dir'
    /\ mine' = [p \in Proc |-> None]
    /\ target' = [p \in Proc |-> None]
    /\ todo' = [p \in Proc |-> {}]
    /\ wrote' = [p \in Proc |-> {}]
    /\ orphans' = [p \in Proc |-> {}]
    /\ UNCHANGED homeD

\* Somebody else leaves a file in a stage, at a moment when nobody removes it.
ForeignWrite(s) ==
    /\ s \in home
    /\ Foreign \notin dir[s]
    /\ \A p \in Proc : target[p] # s
    /\ Fault
    /\ dir' = [dir EXCEPT ![s] = @ \cup {Foreign}]
    /\ disk' = [disk EXCEPT ![s] = @ \cup {Foreign}]
    /\ orphans' = [p \in Proc |-> orphans[p] \ {s}]
    /\ UNCHANGED <<pc, coordinator, lease, home, homeD, mine, target, todo,
                   wrote>>

-----------------------------------------------------------------------------
\* What a process does on its own once an import was started.
Progress(p) ==
    \/ StagingCoordination(p) \/ RecoverStage(p) \/ RecoverStagingDone(p)
    \/ MkdirStage(p) \/ MkdirFails(p)
    \/ CreateLease(p) \/ LockLease(p) \/ SyncLease(p) \/ SyncStage(p)
    \/ UnwindRmdir(p)
    \/ Publish(p) \/ CloseBegin(p) \/ CloseCoordination(p)
    \/ RemoveValidate(p) \/ RemoveSlot(p) \/ RemoveSlotsDone(p)
    \/ RemoveSyncEmpty(p) \/ RemoveLease(p) \/ RemoveSyncLeaseless(p)
    \/ RemoveRmdir(p) \/ RemoveSyncHome(p)

Process(p) ==
    \/ Begin(p) \/ StagingCancelled(p) \/ Progress(p)
    \/ WriteSlot(p) \/ PublishPrefix(p)
    \/ UnwindLease(p) \/ CloseTimeout(p) \/ RemoveFails(p) \/ Kill(p)

Environment ==
    \/ MachineFailure
    \/ \E s \in Stage : WriteBackEntry(s) \/ WriteBackHome(s) \/ ForeignWrite(s)

Next == Environment \/ \E p \in Proc : Process(p)

Spec == Init /\ [][Next]_vars

\* A started import keeps running unless it is killed, and imports keep being
\* started on this home.  Nothing is assumed about who wins the lock poll.
FairSpec == Spec /\ \A p \in Proc : WF_vars(Progress(p)) /\ WF_vars(Begin(p))

-----------------------------------------------------------------------------
(* Properties.                                                             *)

\* Types, with the stage each control point works on: staging, Receive, Publish
\* and Close own a stage, removeStaging has one to remove.
TypeOK ==
    /\ pc \in [Proc -> PC]
    /\ coordinator \in Proc \cup {None}
    /\ lease \in [Stage -> Proc \cup {None}]
    /\ home \in SUBSET Stage
    /\ homeD \in SUBSET Stage
    /\ dir \in [Stage -> SUBSET Entry]
    /\ disk \in [Stage -> SUBSET Entry]
    /\ mine \in [Proc -> Stage \cup {None}]
    /\ target \in [Proc -> Stage \cup {None}]
    /\ todo \in [Proc -> SUBSET Stage]
    /\ wrote \in [Proc -> SUBSET Slot]
    /\ orphans \in [Proc -> SUBSET Stage]
    /\ faults \in 0..MaxFaults
    /\ \A p \in Proc : /\ pc[p] \in Owning => mine[p] \in Stage
                       /\ pc[p] \in Removing => target[p] \in Stage

\* From the moment an import may write payload until its Close owns the
\* coordinator, its stage, its lease and everything it wrote are in place:
\* no recovery by another import, however the two interleave with kills and
\* timeouts, takes the stage of a live transfer (stage_recovery.go:200-201,
\* "an arbitrarily old but live transfer retains it and is always skipped").
OwnPayloadIntact ==
    \A p \in Proc : pc[p] \in {"receive", "publish", "closing"} =>
        /\ mine[p] \in home
        /\ {Lease} \cup wrote[p] \subseteq dir[mine[p]]

\* Neither the visible tree nor the one a machine failure would bring back has
\* payload in a stage without the lease: such a stage would look unfamiliar to
\* removeStaging and be preserved for ever (stage.go:80-81 and the two sync
\* barriers of removeStaging).
PayloadHasLease ==
    \A s \in Stage : /\ dir[s] \cap Slot # {} => Lease \in dir[s]
                     /\ disk[s] \cap Slot # {} => Lease \in disk[s]

\* When recoverStaging lets an import go on, every stage that was abandoned when
\* the pass began is gone.
RecoveryComplete ==
    \A p \in Proc : pc[p] = "mkdir" => orphans[p] \cap home = {}

\* A stage with an entry of unknown origin, and no import of its own, loses
\* nothing to a step of any process: validation precedes every unlink
\* (stage_recovery.go:112-117).
KeepsUnfamiliar ==
    \A s \in home :
        Foreign \in dir[s] /\ (\A p \in Proc : mine[p] # s) =>
            s \in home' /\ dir'[s] = dir[s]

UnfamiliarPreserved == [][MachineFailure \/ KeepsUnfamiliar]_vars

\* An abandoned stage does not stay: as long as imports are started on the home
\* and faults stop, some import reaps it.
OrphanReaped == \A s \in Stage : Reapable(s) ~> ~Reapable(s)

=============================================================================

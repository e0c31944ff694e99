-------------------------------- MODULE Launch --------------------------------
(***************************************************************************)
(* The launcher commands that create, start, replace and remove a           *)
(* workstation and its state volume (internal/app/launch.go, startup.go,    *)
(* state.go, session.go, with internal/identity's locks and ownership       *)
(* checks).                                                                 *)
(*                                                                         *)
(* Launchers on one host share a lock per Compose project and a lock per    *)
(* state volume; both are kernel locks that die with their process.  What   *)
(* a launcher read is old by the time it acts: images are pulled,           *)
(* configuration is edited, containers crash and launchers are killed in    *)
(* between.  All projects belong to one workspace, so they share its        *)
(* private volume as well as the global one.                                *)
(***************************************************************************)
EXTENDS Naturals

CONSTANTS
    Launcher,    \* invocations of hcorral
    Project,     \* Compose projects of one workspace
    Command,     \* the commands these invocations may run
    Mode,        \* the kinds of state volume they may select
    Deployed,    \* containers a project may have initially
    InitialVolumes, \* state volumes there may be initially
    None,
    MaxEvents,   \* bound on crashes, kills, edits, publications, failed pulls
    MaxId        \* bound on containers created

Volume == {"private", "shared"}

NoBox == [st |-> "none", id |-> 0, own |-> TRUE, image |-> 0, conf |-> 0,
          vol |-> "private", ready |-> FALSE]

Box == [st : {"none", "exited", "running", "suspended"}, id : 0..MaxId,
        own : BOOLEAN, image : Nat, conf : Nat, vol : Volume, ready : BOOLEAN]

ASSUME ConstantsAssumption ==
    /\ Command \subseteq {"launch", "attach", "start", "stop", "restart",
                          "pull", "create", "up", "down", "down -v",
                          "state rm", "session"}
    /\ Mode \subseteq Volume
    /\ Deployed \subseteq Box
    /\ \A b \in Deployed : b.image <= 1   \* the published image, or an older one
    /\ InitialVolumes \subseteq [Volume -> {"none", "ours", "foreign"}]
    /\ None \notin Launcher
    /\ MaxEvents \in Nat
    /\ MaxId \in Nat

VARIABLES
    pc,             \* control point of each launcher; "ok" and "failed" are ends
    proj,           \* the project each launcher selects
    mem,            \* what a launcher knows: its command, its state volume, the
                    \* container as last inspected, the configuration as last
                    \* rendered, and the image it pulled (0: none)
    plock, vlock,   \* holders of the project and volume locks
    box,            \* the container that has each project's name
    vol,            \* each state volume: "none", "ours", "foreign"
    conf,           \* each project's configuration on disk
    registry,       \* published version of the selected image
    local,          \* version of it in the local image store; 0 is none
    lastId,
    events

process == <<pc, mem, plock, vlock>>
docker == <<box, vol, local, lastId>>
world == <<conf, registry, events>>

vars == <<process, proj, docker, world>>

Blank == [cmd |-> "none", mode |-> "private", seen |-> NoBox, rend |-> 0,
          pulled |-> 0]

Event == events < MaxEvents /\ events' = events + 1

\* Mutant of Free: the lock file is opened but not locked.
FreeAlways(holder) == TRUE

\* flock succeeds.
Free(holder) == holder = None

Unlocked(held, l) == [x \in DOMAIN held |-> IF held[x] = l THEN None ELSE held[x]]

Goto(l, point) == pc' = [pc EXCEPT ![l] = point]

\* The launcher goes on, perhaps with something new in mind.
Remember(l, point, m) ==
    Goto(l, point) /\ mem' = [mem EXCEPT ![l] = m] /\ UNCHANGED <<plock, vlock>>

Continue(l, point) == Remember(l, point, mem[l])

\* It goes on after closing the project lock.
ContinueUnlocked(l, point) ==
    Goto(l, point) /\ plock' = Unlocked(plock, l) /\ UNCHANGED <<mem, vlock>>

\* It ends: the deferred Close calls give back what it holds.
Finish(l, end) ==
    /\ Goto(l, end)
    /\ mem' = [mem EXCEPT ![l] = Blank]
    /\ plock' = Unlocked(plock, l)
    /\ vlock' = Unlocked(vlock, l)

Refuse(l) == Finish(l, "failed")

Here(l) == box[proj[l]]

\* Mutant of Owned: the name alone identifies the workstation.
OwnedByName(b) == TRUE

\* VerifyContainer and verifyProjectContainers: the full ownership labels.
Owned(b) == b.st = "none" \/ b.own

\* What the launcher knows after it inspected the project.
Inspected(l) == [mem[l] EXCEPT !.seen = Here(l)]

-----------------------------------------------------------------------------
Init ==
    /\ pc = [l \in Launcher |-> "idle"]
    /\ proj \in [Launcher -> Project]
    /\ mem = [l \in Launcher |-> Blank]
    /\ plock = [p \in Project |-> None]
    /\ vlock = [v \in Volume |-> None]
    /\ box \in [Project -> Deployed \cup {NoBox}]
    /\ \A p, q \in Project : p # q /\ box[p].st # "none" => box[p].id # box[q].id
    /\ vol \in InitialVolumes
    /\ \A p \in Project :
          box[p].st # "none" /\ box[p].own => vol[box[p].vol] = "ours"
    /\ conf = [p \in Project |-> 1]
    /\ registry = 1
    /\ local \in {0, 1}
    /\ \A p \in Project : box[p].image = 1 => local = 1
    /\ lastId = 2
    /\ events = 0

-----------------------------------------------------------------------------
(* runOperational: inspect without a lock, then dispatch.                  *)

\* attach, and a launch that finds a running container, take no lock here.
AfterInspect(c, b) ==
    CASE c = "state rm" -> "lockVolume"
      [] c = "attach" \/ (c = "launch" /\ b.st \in {"running", "suspended"})
            -> "session?"
      [] OTHER -> "lock"

Begin(l) ==
    /\ pc[l] = "idle"
    /\ \E c \in Command, m \in Mode :
        IF Owned(Here(l))
        THEN Remember(l, AfterInspect(c, Here(l)),
                      [Blank EXCEPT !.cmd = c, !.mode = m, !.seen = Here(l)])
        ELSE Refuse(l)
    /\ UNCHANGED <<proj, docker, world>>

\* The tmux session answers in the container that was inspected.
SessionReady(l) ==
    /\ mem[l].seen.st = "running"
    /\ Here(l).id = mem[l].seen.id
    /\ Here(l).st = "running"
    /\ Here(l).ready

CheckSession(l) ==
    /\ pc[l] = "session?"
    /\ IF mem[l].seen.st # "running" THEN Refuse(l)
       ELSE Continue(l, IF SessionReady(l) THEN "attach" ELSE "lockRecover")
    /\ UNCHANGED <<proj, docker, world>>

\* The launcher replaces itself by docker exec in the inspected container.
Attach(l) ==
    /\ pc[l] = "attach"
    /\ Finish(l, IF SessionReady(l) THEN "ok" ELSE "failed")
    /\ UNCHANGED <<proj, docker, world>>

\* recoverAttachSessionLocked: lock, inspect again, and let session-init make
\* the session in place.
LockRecover(l) ==
    /\ pc[l] = "lockRecover"
    /\ Free(plock[proj[l]])
    /\ plock' = [plock EXCEPT ![proj[l]] = l]
    /\ mem' = [mem EXCEPT ![l] = Inspected(l)]
    /\ Goto(l, "recover")
    /\ UNCHANGED <<proj, vlock, docker, world>>

Recover(l) ==
    /\ pc[l] = "recover"
    /\ IF /\ Owned(mem[l].seen) /\ mem[l].seen.st = "running"
          /\ Here(l).id = mem[l].seen.id /\ Here(l).st = "running"
       THEN /\ box' = [box EXCEPT ![proj[l]].ready = TRUE]
            /\ ContinueUnlocked(l, "attach")
       ELSE Refuse(l) /\ UNCHANGED box
    /\ UNCHANGED <<proj, vol, local, lastId, world>>

-----------------------------------------------------------------------------
(* The locked part: inspect again, then the command's own path.            *)

LockProject(l) ==
    /\ pc[l] = "lock"
    /\ Free(plock[proj[l]])
    /\ plock' = [plock EXCEPT ![proj[l]] = l]
    /\ Goto(l, "locked")
    /\ UNCHANGED <<proj, mem, vlock, docker, world>>

\* adoptDeployedState, unless the user named a state volume.
Adopted(l) ==
    IF Here(l).st = "none" THEN {Inspected(l)}
    ELSE {Inspected(l), [Inspected(l) EXCEPT !.mode = Here(l).vol]}

\* Where each command goes once the container is known under the lock.
Path(c, b) ==
    CASE c = "launch" /\ b.st = "exited"  -> "stopped"
      [] c = "launch" /\ b.st = "none"    -> "render"
      [] c = "start" /\ b.st # "none"     -> "startNamed"
      [] c = "session" /\ b.st # "none"   -> "transfer"
      [] c \in {"stop", "restart"}        -> "composeRun"
      [] c = "pull"                       -> "pullOnly"
      [] c \in {"create", "up", "down", "down -v"} -> "render"
      [] OTHER                            -> "refuse"

\* Mutant of InspectLocked: the launch starts over with what it knew before.
InspectLockedStale(l) ==
    /\ pc[l] = "locked"
    /\ IF Owned(Here(l)) /\ mem[l].cmd = "launch" /\ Here(l).st = "running"
       THEN ContinueUnlocked(l, "lock")
       ELSE IF Owned(Here(l)) /\ Path(mem[l].cmd, Here(l)) # "refuse"
       THEN \E m \in Adopted(l) : Remember(l, Path(mem[l].cmd, Here(l)), m)
       ELSE Refuse(l)
    /\ UNCHANGED <<proj, docker, world>>

\* A launch that now finds a running container starts over without the lock.
InspectLocked(l) ==
    /\ pc[l] = "locked"
    /\ IF Owned(Here(l)) /\ mem[l].cmd = "launch" /\ Here(l).st = "running"
       THEN /\ Goto(l, "session?")
            /\ mem' = [mem EXCEPT ![l] = Inspected(l)]
            /\ plock' = Unlocked(plock, l)
            /\ UNCHANGED vlock
       ELSE IF Owned(Here(l)) /\ Path(mem[l].cmd, Here(l)) # "refuse"
       THEN \E m \in Adopted(l) : Remember(l, Path(mem[l].cmd, Here(l)), m)
       ELSE Refuse(l)
    /\ UNCHANGED <<proj, docker, world>>

\* Mutant of StateValid: the labels of an existing volume are not read.
StateValidByName(l) == TRUE

\* validateStateOwnership: an existing volume has the labels of its kind.
StateValid(l) == vol[mem[l].mode] # "foreign"

\* recheckProject: the same container, or still none, and stopped or running.
SameProject(l) ==
    /\ Owned(Here(l))
    /\ Here(l).id = mem[l].seen.id
    /\ Here(l).st # "suspended"

\* Mutant of Started: the container is left in a state nobody handles.
StartedUnknown(b) == IF b.st = "exited" THEN [b EXCEPT !.st = "created"] ELSE b

\* docker start.  A start of a running container does nothing.
Started(b) == IF b.st = "exited" THEN [b EXCEPT !.st = "running"] ELSE b

StartNamed(l) ==
    /\ pc[l] = "startNamed"
    /\ IF StateValid(l) /\ Here(l).st # "none"
       THEN box' = [box EXCEPT ![proj[l]] = Started(@)] /\ Finish(l, "ok")
       ELSE Refuse(l) /\ UNCHANGED box
    /\ UNCHANGED <<proj, vol, local, lastId, world>>

\* docker compose stop and restart act on the containers of the project.
ComposeRun(l) ==
    /\ pc[l] = "composeRun"
    /\ box' = [box EXCEPT ![proj[l]] =
                  IF @.st = "none" \/ ~@.own THEN @
                  ELSE [@ EXCEPT !.ready = FALSE,
                           !.st = IF mem[l].cmd = "stop" THEN "exited"
                                  ELSE "running"]]
    /\ Finish(l, "ok")
    /\ UNCHANGED <<proj, vol, local, lastId, world>>

\* pull fetches the selected image and leaves the container alone.
PullOnly(l) ==
    /\ pc[l] = "pullOnly"
    /\ \/ local' = registry /\ Finish(l, "ok") /\ UNCHANGED events
       \/ Event /\ Refuse(l) /\ UNCHANGED local
    /\ UNCHANGED <<proj, box, vol, lastId, conf, registry>>

\* A session transfer uses the inspected container and changes nothing.
TransferEnds(l) ==
    /\ pc[l] = "transfer"
    /\ Finish(l, "ok")
    /\ UNCHANGED <<proj, docker, world>>

-----------------------------------------------------------------------------
(* startStopped: a bare launch that finds a stopped container.             *)

\* Without automatic pulls, or when nothing can be rendered, the original
\* container is started; otherwise the selected image is pulled.
StartStopped(l) ==
    /\ pc[l] = "stopped"
    /\ IF StateValid(l)
       THEN \/ Continue(l, "recheckOriginal")
            \/ Remember(l, "pull", [mem[l] EXCEPT !.rend = conf[proj[l]]])
       ELSE Refuse(l)
    /\ UNCHANGED <<proj, docker, world>>

\* A failed refresh keeps the container; it is not an error.
PullStopped(l) ==
    /\ pc[l] = "pull"
    /\ \/ /\ local' = registry
          /\ Remember(l, "recheckPulled", [mem[l] EXCEPT !.pulled = registry])
          /\ UNCHANGED events
       \/ /\ Remember(l, "recheckPulled", [mem[l] EXCEPT !.pulled = 0])
          /\ Event /\ UNCHANGED local
    /\ UNCHANGED <<proj, box, vol, lastId, conf, registry>>

\* Every recheck refuses a changed project, and leaves a container that has
\* been started meanwhile alone.
Recheck(l, point) ==
    IF ~SameProject(l) THEN Refuse(l)
    ELSE IF Here(l).st = "running" THEN ContinueUnlocked(l, "wait")
    ELSE Continue(l, point)

\* The image that was pulled, whatever others have pulled since, is compared with
\* the container's.
RecheckPulled(l) ==
    /\ pc[l] = "recheckPulled"
    /\ Recheck(l, IF mem[l].pulled \in {0, Here(l).image}
                  THEN "recheckOriginal" ELSE "renderFinal")
    /\ UNCHANGED <<proj, docker, world>>

\* Mutant of Reproducible: any rendered configuration will do.
ReproducibleAlways(l, rendered) == TRUE

\* reproducibleProject: the deployed hashes equal the rendered ones.
Reproducible(l, rendered) == rendered = Here(l).conf

\* The configuration is rendered again: it may have changed during the pull.
RenderFinal(l) ==
    /\ pc[l] = "renderFinal"
    /\ IF ~Reproducible(l, conf[proj[l]]) THEN Continue(l, "recheckOriginal")
       ELSE IF ~StateValid(l) THEN Refuse(l)
       ELSE Remember(l, "recheckFinal", [mem[l] EXCEPT !.rend = conf[proj[l]]])
    /\ UNCHANGED <<proj, docker, world>>

RecheckFinal(l) ==
    /\ pc[l] = "recheckFinal"
    /\ IF Here(l).st = "exited" /\ ~Reproducible(l, mem[l].rend)
       THEN Refuse(l) ELSE Recheck(l, "compose")
    /\ UNCHANGED <<proj, docker, world>>

RecheckOriginal(l) ==
    /\ pc[l] = "recheckOriginal"
    /\ Recheck(l, "startOriginal")
    /\ UNCHANGED <<proj, docker, world>>

\* The original container is started by its ID.
StartOriginal(l) ==
    /\ pc[l] = "startOriginal"
    /\ IF Here(l).id = mem[l].seen.id
       THEN /\ box' = [box EXCEPT ![proj[l]] = Started(@)]
            /\ ContinueUnlocked(l, "wait")
       ELSE Refuse(l) /\ UNCHANGED box
    /\ UNCHANGED <<proj, vol, local, lastId, world>>

-----------------------------------------------------------------------------
(* Creation and reconciliation: launch without a container, and up.        *)

\* The project is prepared and rendered; its volume is validated before an
\* image is pulled.  down goes its own way.
Render(l) ==
    /\ pc[l] = "render"
    /\ IF mem[l].cmd \in {"down", "down -v"}
       THEN Continue(l, CASE mem[l].cmd = "down"      -> "composeDown"
                          [] mem[l].mode = "private"  -> "lockRemoval"
                          [] OTHER                    -> "planRemoval")
       ELSE IF StateValid(l)
       THEN Remember(l, "image", [mem[l] EXCEPT !.rend = conf[proj[l]]])
       ELSE Refuse(l)
    /\ UNCHANGED <<proj, docker, world>>

\* prepareStartImage and ensureSelectedImage: a launch refreshes the image and
\* falls back to a cached one; up and create pull only what is missing.
SelectImage(l) ==
    /\ pc[l] = "image"
    /\ \/ /\ mem[l].cmd = "launch" \/ local = 0
          /\ local' = registry
          /\ Continue(l, "recheckNew")
          /\ UNCHANGED events
       \/ local # 0 /\ Continue(l, "recheckNew") /\ UNCHANGED <<local, events>>
       \/ local = 0 /\ Event /\ Refuse(l) /\ UNCHANGED local
    /\ UNCHANGED <<proj, box, vol, lastId, conf, registry>>

\* A bare launch checks that there is still no container; up and create do not.
RecheckNew(l) ==
    /\ pc[l] = "recheckNew"
    /\ IF mem[l].cmd = "launch" /\ Here(l).st # "none"
       THEN Refuse(l) ELSE Continue(l, "ensureState")
    /\ UNCHANGED <<proj, docker, world>>

\* ensureState: under the volume lock the volume is validated and, if it is
\* absent, created with its labels.  The lock is given back on return.
LockState(l) ==
    /\ pc[l] = "ensureState"
    /\ Free(vlock[mem[l].mode])
    /\ vlock' = [vlock EXCEPT ![mem[l].mode] = l]
    /\ Goto(l, "ensuring")
    /\ UNCHANGED <<proj, mem, plock, docker, world>>

EnsureState(l) ==
    /\ pc[l] = "ensuring"
    /\ IF StateValid(l)
       THEN /\ vol' = [vol EXCEPT ![mem[l].mode] =
                          IF @ = "none" THEN "ours" ELSE @]
            /\ Goto(l, "compose")
            /\ vlock' = Unlocked(vlock, l)
            /\ UNCHANGED <<mem, plock>>
       ELSE Refuse(l) /\ UNCHANGED vol
    /\ UNCHANGED <<proj, box, local, lastId, world>>

\* docker compose up or create, --no-build --pull never: it reads the
\* configuration as it is now, refuses a name it does not own and a missing
\* external volume, and replaces a container whose configuration or image
\* differs; up also starts the container.
UpRefused(l) ==
    \/ ~Here(l).own
    \/ vol[mem[l].mode] = "none"
    \/ local = 0
    \/ Here(l).st = "suspended"

UpToDate(l) ==
    /\ Here(l).st # "none"
    /\ Here(l).conf = conf[proj[l]]
    /\ Here(l).image = local
    /\ Here(l).vol = mem[l].mode

ComposeUp(l) ==
    /\ pc[l] = "compose"
    /\ IF UpRefused(l) THEN Refuse(l) /\ UNCHANGED <<box, lastId>>
       ELSE /\ IF UpToDate(l)
               THEN /\ box' = [box EXCEPT ![proj[l]] =
                                  IF mem[l].cmd = "create" THEN @ ELSE Started(@)]
                    /\ UNCHANGED lastId
               ELSE /\ lastId < MaxId
                    /\ lastId' = lastId + 1
                    /\ box' = [box EXCEPT ![proj[l]] =
                          [st |-> IF mem[l].cmd = "create" THEN "exited"
                                  ELSE "running",
                           id |-> lastId + 1, own |-> TRUE,
                           image |-> local, conf |-> conf[proj[l]],
                           vol |-> mem[l].mode, ready |-> FALSE]]
            /\ IF mem[l].cmd = "launch" THEN ContinueUnlocked(l, "wait")
               ELSE Finish(l, "ok")
    /\ UNCHANGED <<proj, vol, local, world>>

\* waitReady, without the lock: ready, or exited, or out of time.  Then
\* attachStarted inspects whatever now has the project's name.
WaitReady(l) ==
    /\ pc[l] = "wait"
    /\ IF Here(l).st = "running" /\ Here(l).ready
       THEN Continue(l, "attachStarted") ELSE Refuse(l)
    /\ UNCHANGED <<proj, docker, world>>

AttachStarted(l) ==
    /\ pc[l] = "attachStarted"
    /\ IF Here(l).st = "running" /\ Owned(Here(l))
       THEN Remember(l, "attach", Inspected(l)) ELSE Refuse(l)
    /\ UNCHANGED <<proj, docker, world>>

-----------------------------------------------------------------------------
(* Removal: down, down -v and state rm.                                    *)

\* Containers of any project that mount the volume.
References(v) == {p \in Project : box[p].st # "none" /\ box[p].own /\ box[p].vol = v}

LockRemoval(l) ==
    /\ pc[l] = "lockRemoval"
    /\ Free(vlock["private"])
    /\ vlock' = [vlock EXCEPT !["private"] = l]
    /\ Goto(l, "planRemoval")
    /\ UNCHANGED <<proj, mem, plock, docker, world>>

\* Mutant of RemovesState: down -v removes whatever volume is selected.
RemovesStateAny(l) == vol[mem[l].mode] = "ours"

RemovesState(l) == mem[l].mode = "private" /\ vol["private"] = "ours"

\* planManagedStateRemoval refuses before anything is torn down.
PlanRemoval(l) ==
    /\ pc[l] = "planRemoval"
    /\ IF /\ mem[l].mode = "private"
          /\ \/ vol["private"] = "foreign"
             \/ vol["private"] = "ours" /\ References("private") \ {proj[l]} # {}
       THEN Refuse(l)
       ELSE Continue(l, IF RemovesState(l) THEN "composeDownState" ELSE "composeDown")
    /\ UNCHANGED <<proj, docker, world>>

\* docker compose down; the planned volume follows.
ComposeDown(l) ==
    /\ pc[l] \in {"composeDown", "composeDownState"}
    /\ box' = [box EXCEPT ![proj[l]] = IF @.own THEN NoBox ELSE @]
    /\ IF pc[l] = "composeDownState"
       THEN Continue(l, "removeState") ELSE Finish(l, "ok")
    /\ UNCHANGED <<proj, vol, local, lastId, world>>

\* docker volume rm: the daemon refuses a volume that a container mounts.
RemoveState(l) ==
    /\ pc[l] = "removeState"
    /\ IF References(mem[l].mode) = {}
       THEN vol' = [vol EXCEPT ![mem[l].mode] = "none"] /\ Finish(l, "ok")
       ELSE Refuse(l) /\ UNCHANGED vol
    /\ UNCHANGED <<proj, box, local, lastId, world>>

\* state rm --scope: only the volume's own lock, then labels and references.
LockVolume(l) ==
    /\ pc[l] = "lockVolume"
    /\ Free(vlock[mem[l].mode])
    /\ vlock' = [vlock EXCEPT ![mem[l].mode] = l]
    /\ Goto(l, "inspectVolume")
    /\ UNCHANGED <<proj, mem, plock, docker, world>>

Removable(v) == vol[v] = "ours" /\ References(v) = {}

InspectVolume(l) ==
    /\ pc[l] = "inspectVolume"
    /\ IF vol[mem[l].mode] = "none" THEN Finish(l, "ok")
       ELSE IF Removable(mem[l].mode)
       THEN Continue(l, "removeState")
       ELSE Refuse(l)
    /\ UNCHANGED <<proj, docker, world>>

-----------------------------------------------------------------------------
(* The world around the launchers.                                         *)

\* The entrypoint reaches session-init.
Boot(p) ==
    /\ box[p].st = "running" /\ ~box[p].ready
    /\ box' = [box EXCEPT ![p].ready = TRUE]
    /\ UNCHANGED <<process, proj, vol, local, lastId, world>>

\* The container crashes or is paused; the restart policy or the user brings
\* it back; the tmux session ends.
Suspend(p) ==
    /\ box[p].st = "running" /\ Event
    /\ box' = [box EXCEPT ![p].st = "suspended", ![p].ready = FALSE]
    /\ UNCHANGED <<process, proj, vol, local, lastId, conf, registry>>

Resume(p) ==
    /\ box[p].st = "suspended"
    /\ box' = [box EXCEPT ![p].st = "running"]
    /\ UNCHANGED <<process, proj, vol, local, lastId, world>>

SessionExits(p) ==
    /\ box[p].st = "running" /\ box[p].ready /\ Event
    /\ box' = [box EXCEPT ![p].ready = FALSE]
    /\ UNCHANGED <<process, proj, vol, local, lastId, conf, registry>>

EditConfiguration(p) ==
    /\ Event
    /\ conf' = [conf EXCEPT ![p] = @ + 1]
    /\ UNCHANGED <<process, proj, docker, registry>>

PublishImage ==
    /\ Event
    /\ registry' = registry + 1
    /\ UNCHANGED <<process, proj, docker, conf>>

\* Another program takes the project's name.
ForeignAppears(p) ==
    /\ box[p].st = "none"
    /\ lastId < MaxId
    /\ Event
    /\ lastId' = lastId + 1
    /\ box' = [box EXCEPT ![p] = [NoBox EXCEPT !.st = "running", !.own = FALSE,
                                               !.id = lastId + 1]]
    /\ UNCHANGED <<process, proj, vol, local, conf, registry>>

\* A launcher is killed: its locks go, what it did stays.
Kill(l) ==
    /\ pc[l] \notin {"idle", "ok", "failed"}
    /\ Event
    /\ Refuse(l)
    /\ UNCHANGED <<proj, docker, conf, registry>>

Finished == (\A l \in Launcher : pc[l] \in {"ok", "failed"}) /\ UNCHANGED vars

-----------------------------------------------------------------------------
Step(l) ==
    \/ CheckSession(l) \/ Attach(l) \/ LockRecover(l) \/ Recover(l)
    \/ LockProject(l) \/ InspectLocked(l)
    \/ StartNamed(l) \/ ComposeRun(l) \/ PullOnly(l) \/ TransferEnds(l)
    \/ StartStopped(l) \/ PullStopped(l) \/ RecheckPulled(l) \/ RenderFinal(l)
    \/ RecheckFinal(l) \/ RecheckOriginal(l) \/ StartOriginal(l)
    \/ Render(l) \/ SelectImage(l) \/ RecheckNew(l) \/ LockState(l)
    \/ EnsureState(l) \/ ComposeUp(l) \/ WaitReady(l) \/ AttachStarted(l)
    \/ LockRemoval(l) \/ PlanRemoval(l) \/ ComposeDown(l) \/ RemoveState(l)
    \/ LockVolume(l) \/ InspectVolume(l)

World(p) ==
    Suspend(p) \/ SessionExits(p) \/ EditConfiguration(p) \/ ForeignAppears(p)

Next ==
    \/ \E l \in Launcher : Begin(l) \/ Step(l) \/ Kill(l)
    \/ \E p \in Project : World(p) \/ Boot(p) \/ Resume(p)
    \/ PublishImage
    \/ Finished

Spec == Init /\ [][Next]_vars

FairSpec ==
    /\ Spec
    /\ \A l \in Launcher : WF_vars(Step(l))
    /\ \A p \in Project : WF_vars(Boot(p)) /\ WF_vars(Resume(p))

-----------------------------------------------------------------------------
\* The variables keep their types.
TypeOK ==
    /\ proj \in [Launcher -> Project]
    /\ mem \in [Launcher -> [cmd : Command \cup {"none"}, mode : Volume,
                            seen : Box, rend : Nat, pulled : Nat]]
    /\ plock \in [Project -> Launcher \cup {None}]
    /\ vlock \in [Volume -> Launcher \cup {None}]
    /\ box \in [Project -> Box]
    /\ vol \in [Volume -> {"none", "ours", "foreign"}]
    /\ events \in 0..MaxEvents

\* The launcher whose step this is, if it is one of these commands.
Acting(l, commands) == pc'[l] # pc[l] /\ mem[l].cmd \in commands

Replaced(p) == box[p].st # "none" /\ box'[p].id # box[p].id

\* A workstation that is running is replaced, removed or stopped only by the
\* commands that are asked to (up, create, down, stop), never by a launch that
\* found it stopped or absent a moment ago.
KeepsRunning ==
    \A p \in Project :
        box[p].st = "running" /\ (Replaced(p) \/ box'[p].st = "exited") =>
            \E l \in Launcher :
                proj[l] = p /\ Acting(l, {"up", "create", "down", "down -v", "stop"})

RunningSurvivesLaunch == [][KeepsRunning]_vars

\* A bare launch replaces a stopped container only by one with a different
\* image, after a pull of its own, and with the deployed configuration; an edit
\* after the final rendering is the one exception (startStopped).  The state
\* volume is not part of conf here, so that a changed default volume is not seen,
\* and no Docker client works outside the lock.
ReplacesFaithfully ==
    \A p \in Project, l \in Launcher :
        Replaced(p) /\ proj[l] = p /\ Acting(l, {"launch"}) =>
            /\ box[p].st = "exited"
            /\ box'[p].image # box[p].image
            /\ mem[l].pulled # 0
            /\ box'[p].conf = box[p].conf \/ conf[p] # mem[l].rend

RefreshKeepsConfiguration == [][ReplacesFaithfully]_vars

\* No step of a launcher touches a container that merely has the project's
\* name (VerifyContainer).
KeepsForeign ==
    \A p \in Project :
        /\ box[p].st # "none" /\ ~box[p].own
        /\ \E l \in Launcher : pc'[l] # pc[l]
        => box'[p] = box[p]

ForeignContainerKept == [][KeepsForeign]_vars

\* The home of every workstation is a volume with exact ownership labels.
HomeOwned ==
    \A p \in Project :
        box[p].st # "none" /\ box[p].own => vol[box[p].vol] = "ours"

\* A volume without our labels survives, and the shared volume is removed only
\* by state rm, never by down -v.
KeepsState ==
    \A v \in Volume : vol'[v] # vol[v] /\ vol'[v] = "none" =>
        /\ vol[v] = "ours"
        /\ v = "shared" => \E l \in Launcher : Acting(l, {"state rm"})

StateRemovedOnRequest == [][KeepsState]_vars

\* While a session transfer holds the project lock, its workstation is the
\* container that it inspected.
TransferTargetStable ==
    \A l \in Launcher : pc[l] = "transfer" => Here(l).id = mem[l].seen.id

\* Every command ends: no launcher waits forever for a lock or a session.
CommandsEnd == \A l \in Launcher : (pc[l] # "idle") ~> (pc[l] \in {"ok", "failed"})

\* down -v refuses a volume that another corral references before it tears
\* down the selected project.
RefusedBeforeTeardown ==
    \A l \in Launcher :
        pc[l] = "removeState" /\ mem[l].cmd = "down -v" =>
            References("private") \ {proj[l]} = {}
=============================================================================

----------------------------- MODULE LaunchProofs -----------------------------
(***************************************************************************)
(* The launcher commands, for any number of launchers and projects.         *)
(***************************************************************************)
EXTENDS Launch, TLAPS

-----------------------------------------------------------------------------
(* The invariant.                                                          *)

\* The bare launch of a stopped container.
StoppedPath == {"stopped", "pull", "recheckPulled", "renderFinal", "recheckFinal",
                "recheckOriginal", "startOriginal"}

\* Creation and reconciliation, once the project is rendered.
CreationPath == {"image", "recheckNew", "ensureState", "ensuring", "compose"}

RemovalPath == {"lockRemoval", "planRemoval", "composeDown", "composeDownState"}

\* Points at which a launcher acts on the container that it inspected.
InspectedPoints == StoppedPath \cup {"startNamed", "transfer"}

\* Points at which a launcher holds the project lock.
LockedPoints == InspectedPoints \cup CreationPath \cup RemovalPath \cup
                {"recover", "locked", "composeRun", "pullOnly", "render"}

Points == LockedPoints \cup
          {"idle", "session?", "attach", "lockRecover", "lock", "wait",
           "attachStarted", "lockVolume", "inspectVolume", "removeState", "ok",
           "failed"}

Memory == [cmd : Command \cup {"none"}, mode : Volume, seen : Box, rend : Nat,
           pulled : Nat]

Control ==
    /\ proj \in [Launcher -> Project]
    /\ pc \in [Launcher -> Points]
    /\ mem \in [Launcher -> Memory]
    /\ plock \in [Project -> Launcher \cup {None}]
    /\ vlock \in [Volume -> Launcher \cup {None}]

Machine ==
    /\ box \in [Project -> Box]
    /\ vol \in [Volume -> {"none", "ours", "foreign"}]
    /\ conf \in [Project -> Nat]
    /\ registry \in Nat /\ local \in Nat /\ lastId \in Nat
    /\ events \in 0..MaxEvents

\* Images only get newer: no container has one that was not pulled before.
Images == local <= registry /\ \A p \in Project : box[p].image <= local

\* What the command of a launcher is at the points of its path.
Programs(l) ==
    /\ pc[l] \in StoppedPath => mem[l].cmd = "launch"
    /\ pc[l] \in CreationPath => mem[l].cmd \in {"launch", "up", "create"}
    /\ pc[l] = "render" => mem[l].cmd \in {"launch", "up", "create", "down", "down -v"}
    /\ pc[l] \in RemovalPath => mem[l].cmd \in {"down", "down -v"}
    /\ pc[l] = "composeRun" => mem[l].cmd \in {"stop", "restart"}
    /\ pc[l] \in {"lockVolume", "inspectVolume"} => mem[l].cmd = "state rm"
    /\ pc[l] = "removeState" => mem[l].cmd = "state rm" \/ mem[l].mode = "private"
    /\ pc[l] = "composeDownState" => mem[l].mode = "private"

\* The container that was inspected under the lock is still there.
Stays(l) ==
    /\ pc[l] \in InspectedPoints => mem[l].seen.st # "none" /\ mem[l].seen.own
    /\ pc[l] \in InspectedPoints \cup {"recover"}
       /\ mem[l].seen.st # "none" /\ mem[l].seen.own =>
           Here(l).st # "none" /\ Here(l).own /\ Here(l).id = mem[l].seen.id

\* The volume that was validated has not become another one's.
Validated(l) ==
    pc[l] \in CreationPath \cup {"recheckFinal", "composeDownState", "removeState"} =>
        vol[mem[l].mode] # "foreign"

\* What a launch has pulled is no older than the container's image, and still
\* there or superseded.
Pulled(l) ==
    mem[l].pulled # 0 => Here(l).image <= mem[l].pulled /\ mem[l].pulled <= local

\* A pulled image is newer than the container's.
Refreshed(l) == mem[l].pulled # 0 /\ Here(l).image < local

\* What a bare launch may find when it runs Compose: nothing of its own, or the
\* stopped container that it refreshes.
Replaceable(l) ==
    /\ pc[l] = "recheckPulled" => Pulled(l)
    /\ pc[l] \in {"renderFinal", "recheckFinal"} => Refreshed(l)
    /\ pc[l] = "recheckFinal" => mem[l].rend = Here(l).conf
    /\ pc[l] \in {"ensureState", "ensuring"} /\ mem[l].cmd = "launch" =>
          Here(l).st = "none" \/ ~Here(l).own
    /\ pc[l] = "compose" /\ mem[l].cmd = "launch" =>
          \/ Here(l).st = "none" \/ ~Here(l).own
          \/ Here(l).st = "exited" /\ Refreshed(l) /\ mem[l].rend = Here(l).conf

Known(l) ==
    /\ pc[l] \in LockedPoints => plock[proj[l]] = l
    /\ Programs(l) /\ Stays(l) /\ Validated(l) /\ Replaceable(l)

IInv == Control /\ Machine /\ Images /\ HomeOwned /\ \A l \in Launcher : Known(l)

-----------------------------------------------------------------------------
(* How a launcher moves.                                                   *)

\* One launcher went on to a point with m in mind; the others are where they
\* were, and hold what they held.
Moved(l, point, m) ==
    /\ Control'
    /\ proj' = proj
    /\ pc'[l] = point /\ mem'[l] = m
    /\ \A k \in Launcher : k # l => pc'[k] = pc[k] /\ mem'[k] = mem[k]
    /\ \A p \in Project : plock[p] \in Launcher /\ plock[p] # l => plock'[p] = plock[p]

\* That there is no container is a container's state too.
LEMMA NoBoxIsBox == NoBox \in Box
<1>0. MaxId \in Nat
  BY ConstantsAssumption
<1>1. 0 \in 0..MaxId
  BY <1>0
<1> QED
  BY <1>1 DEF NoBox, Box, Volume

\* A launcher that knows nothing.
LEMMA BlankIsMemory == Blank \in Memory
BY NoBoxIsBox DEF Blank, Memory, Volume

\* A lock that somebody else holds is not given back.
LEMMA UnlockedOthers ==
    ASSUME NEW S, NEW held \in [S -> Launcher \cup {None}], NEW l \in Launcher
    PROVE  /\ Unlocked(held, l) \in [S -> Launcher \cup {None}]
           /\ \A x \in S : held[x] # l => Unlocked(held, l)[x] = held[x]
BY DEF Unlocked

\* Remember moves the launcher.
LEMMA RememberMoves ==
    ASSUME Control, NEW l \in Launcher, NEW point \in Points, NEW m \in Memory,
           Remember(l, point, m), proj' = proj
    PROVE  Moved(l, point, m) /\ plock' = plock
BY DEF Remember, Goto, Moved, Control

\* Continue moves the launcher.
LEMMA ContinueMoves ==
    ASSUME Control, NEW l \in Launcher, NEW point \in Points, Continue(l, point),
           proj' = proj
    PROVE  Moved(l, point, mem[l]) /\ plock' = plock /\ mem[l] \in Memory
<1>1. mem[l] \in Memory
  BY DEF Control
<1> QED
  BY <1>1, RememberMoves DEF Continue

\* So it does when it closes the project lock.
LEMMA UnlockedMoves ==
    ASSUME Control, NEW l \in Launcher, NEW point \in Points,
           ContinueUnlocked(l, point), proj' = proj
    PROVE  Moved(l, point, mem[l]) /\ mem[l] \in Memory
<1>1. /\ plock' \in [Project -> Launcher \cup {None}]
      /\ \A p \in Project : plock[p] # l => plock'[p] = plock[p]
  BY UnlockedOthers DEF Control, ContinueUnlocked
<1> QED
  BY <1>1 DEF ContinueUnlocked, Goto, Moved, Control

\* And when it ends.
LEMMA FinishMoves ==
    ASSUME Control, NEW l \in Launcher, NEW end \in {"ok", "failed"}, Finish(l, end),
           proj' = proj
    PROVE  Moved(l, end, Blank)
<1>1. /\ plock' \in [Project -> Launcher \cup {None}]
      /\ \A p \in Project : plock[p] # l => plock'[p] = plock[p]
  BY UnlockedOthers DEF Control, Finish
<1>2. vlock' \in [Volume -> Launcher \cup {None}]
  BY UnlockedOthers DEF Control, Finish
<1>3. end \in Points
  BY DEF Points
<1>4. Control'
  BY <1>1, <1>2, <1>3, BlankIsMemory DEF Finish, Goto, Control
<1> QED
  BY <1>1, <1>4 DEF Finish, Goto, Moved, Control

\* Where a launcher holds no lock and plans nothing there is nothing to know.
LEMMA KnownFree ==
    ASSUME NEW l \in Launcher,
           pc'[l] \in {"session?", "attach", "lockRecover", "lock", "wait",
                       "attachStarted", "ok", "failed"}
    PROVE  Known(l)'
BY DEF Known, Programs, Stays, Validated, Replaceable, LockedPoints, InspectedPoints,
       StoppedPath, CreationPath, RemovalPath

\* What a launcher knows survives the steps of another one, which changes only
\* the container of a project whose lock it holds.
LEMMA Undisturbed ==
    ASSUME Control, NEW k \in Launcher, Known(k), Machine, Machine',
           proj' = proj, pc'[k] = pc[k], mem'[k] = mem[k],
           plock[proj[k]] = k => /\ plock'[proj[k]] = k
                                 /\ box'[proj[k]] = box[proj[k]],
           \A v \in Volume : vol'[v] = "foreign" => vol[v] = "foreign",
           local <= local'
    PROVE  Known(k)'
<1>1. mem[k].mode \in Volume /\ proj[k] \in Project
  BY DEF Control, Memory
<1>2. local \in Nat /\ local' \in Nat /\ box[proj[k]].image \in Nat
  BY <1>1 DEF Machine, Box
<1>3. pc[k] \in LockedPoints => plock'[proj[k]] = k /\ box'[proj[k]] = box[proj[k]]
  BY DEF Known
<1>4. Programs(k)'
  BY DEF Known, Programs
<1>5. Stays(k)'
  <2>1. InspectedPoints \cup {"recover"} \subseteq LockedPoints
    BY DEF LockedPoints
  <2> QED
    BY <1>3, <2>1 DEF Known, Stays, Here
<1>6. Validated(k)'
  BY <1>1 DEF Known, Validated
<1>7. Replaceable(k)'
  <2>1. {"recheckPulled", "renderFinal", "recheckFinal", "ensureState", "ensuring",
         "compose"} \subseteq LockedPoints
    BY DEF LockedPoints, InspectedPoints, StoppedPath, CreationPath
  <2>2. Refreshed(k) /\ box'[proj[k]] = box[proj[k]] => Refreshed(k)'
    BY <1>2 DEF Refreshed, Here
  <2>3. Pulled(k) /\ box'[proj[k]] = box[proj[k]] => Pulled(k)'
    BY <1>2 DEF Pulled, Here, Control, Memory
  <2> QED
    BY <1>3, <2>1, <2>2, <2>3 DEF Known, Replaceable, Here
<1> QED
  BY <1>3, <1>4, <1>5, <1>6, <1>7 DEF Known

\* A step of a launcher keeps the invariant if it does so for the machine and
\* for the launcher itself, and touches a container only under its lock.
LEMMA Stepped ==
    ASSUME IInv, NEW l \in Launcher, NEW point, NEW m, Moved(l, point, m),
           Machine', Images', HomeOwned', Known(l)',
           \A p \in Project : box'[p] = box[p] \/ plock[p] = l,
           \A v \in Volume : vol'[v] = "foreign" => vol[v] = "foreign",
           local <= local'
    PROVE  IInv'
<1>1. ASSUME NEW k \in Launcher, k # l PROVE Known(k)'
  <2>1. proj[k] \in Project
    BY DEF IInv, Control
  <2>2. plock[proj[k]] = k => plock'[proj[k]] = k /\ box'[proj[k]] = box[proj[k]]
    BY <1>1, <2>1 DEF Moved
  <2>3. proj' = proj /\ pc'[k] = pc[k] /\ mem'[k] = mem[k]
    BY <1>1 DEF Moved
  <2> QED
    BY <2>2, <2>3, Undisturbed DEF IInv
<1> QED
  BY <1>1 DEF IInv, Moved

\* A step that leaves the machine alone.
LEMMA Quiet ==
    ASSUME IInv, NEW l \in Launcher, NEW point, NEW m, Moved(l, point, m),
           UNCHANGED <<docker, conf, registry>>, events' \in 0..MaxEvents, Known(l)'
    PROVE  IInv'
<1>1. Machine'
  BY DEF IInv, Machine, docker
<1>2. Images' /\ HomeOwned'
  BY DEF IInv, Images, HomeOwned, docker
<1>3. local <= local'
  BY DEF IInv, Machine, docker
<1> QED
  BY <1>1, <1>2, <1>3, Stepped DEF docker

\* A command that ends without touching the machine keeps the invariant.
LEMMA FinishIInv ==
    ASSUME IInv, NEW l \in Launcher, NEW end \in {"ok", "failed"}, Finish(l, end),
           UNCHANGED <<proj, docker, conf, registry>>, events' \in 0..MaxEvents
    PROVE  IInv'
<1>1. Moved(l, end, Blank)
  BY FinishMoves DEF IInv
<1>2. Known(l)'
  BY <1>1, KnownFree DEF Moved
<1> QED
  BY <1>1, <1>2, Quiet

\* A refusal keeps the invariant.
LEMMA RefuseIInv ==
    ASSUME IInv, NEW l \in Launcher, Refuse(l), UNCHANGED <<proj, docker, world>>
    PROVE  IInv'
<1>1. events' \in 0..MaxEvents /\ UNCHANGED <<conf, registry>>
  BY DEF IInv, Machine, world
<1> QED
  BY <1>1, FinishIInv DEF Refuse

-----------------------------------------------------------------------------
(* Steps that change the machine.                                          *)

USE DEF LockedPoints, InspectedPoints, StoppedPath, CreationPath, RemovalPath

\* An event is counted.
LEMMA EventCounted == ASSUME Machine, Event PROVE events' \in 0..MaxEvents
<1>1. MaxEvents \in Nat
  BY ConstantsAssumption
<1> QED
  BY <1>1 DEF Machine, Event

\* A launcher gives its project's container another state.
LEMMA BoxStep ==
    ASSUME IInv, NEW l \in Launcher, NEW point, NEW m, Moved(l, point, m),
           pc[l] \in LockedPoints, NEW nb \in Box, nb.image <= local,
           nb.st # "none" /\ nb.own => vol[nb.vol] = "ours",
           box' = [box EXCEPT ![proj[l]] = nb],
           UNCHANGED <<vol, local, conf, registry, events>>, lastId' \in Nat,
           Known(l)'
    PROVE  IInv'
<1>1. proj[l] \in Project /\ plock[proj[l]] = l
  BY DEF IInv, Control, Known
<1>2. box' \in [Project -> Box] /\ box'[proj[l]] = nb
  BY <1>1 DEF IInv, Machine
<1>3. \A p \in Project : p # proj[l] => box'[p] = box[p]
  BY <1>1 DEF IInv, Machine
<1>4. Machine'
  BY <1>2 DEF IInv, Machine
<1>5. Images'
  BY <1>1, <1>2, <1>3 DEF IInv, Images
<1>6. HomeOwned'
  BY <1>1, <1>2, <1>3 DEF IInv, HomeOwned
<1>7. local <= local'
  BY DEF IInv, Machine
<1> QED
  BY <1>1, <1>3, <1>4, <1>5, <1>6, <1>7, Stepped

\* A launcher pulls the selected image.
LEMMA PullStep ==
    ASSUME IInv, NEW l \in Launcher, NEW point, NEW m, Moved(l, point, m),
           local' = registry, UNCHANGED <<box, vol, lastId, conf, registry, events>>,
           Known(l)'
    PROVE  IInv'
<1>1. Machine'
  BY DEF IInv, Machine
<1>2. \A p \in Project : box[p].image \in Nat
  BY DEF IInv, Machine, Box
<1>3. Images'
  BY <1>1, <1>2 DEF IInv, Images, Machine
<1>4. HomeOwned'
  BY DEF IInv, HomeOwned
<1>5. local <= local'
  BY DEF IInv, Images
<1> QED
  BY <1>1, <1>3, <1>4, <1>5, Stepped

\* The states of a container that is started.
LEMMA StartedIs ==
    ASSUME NEW b \in Box
    PROVE  /\ Started(b) \in Box
           /\ Started(b).id = b.id /\ Started(b).own = b.own
           /\ Started(b).image = b.image /\ Started(b).vol = b.vol
           /\ Started(b).st = "none" <=> b.st = "none"
<1>1. CASE b.st = "exited"
  BY <1>1 DEF Started, Box
<1>2. CASE b.st # "exited"
  BY <1>2 DEF Started
<1> QED
  BY <1>1, <1>2

\* The states of a container whose readiness changes.
LEMMA ReadyIs ==
    ASSUME NEW b \in Box, NEW st \in {"exited", "running", "suspended"},
           NEW r \in BOOLEAN
    PROVE  LET n == [b EXCEPT !.st = st, !.ready = r] IN
           /\ n \in Box
           /\ n.st = st /\ n.id = b.id /\ n.own = b.own
           /\ n.image = b.image /\ n.conf = b.conf /\ n.vol = b.vol
BY DEF Box

\* What the invariant says of the project of a launcher.
LEMMA HereIs ==
    ASSUME IInv, NEW l \in Launcher
    PROVE  /\ proj[l] \in Project /\ Here(l) \in Box /\ Here(l) = box[proj[l]]
           /\ Here(l).image \in Nat /\ Here(l).image <= local /\ local \in Nat
           /\ Here(l).st # "none" /\ Here(l).own => vol[Here(l).vol] = "ours"
           /\ mem[l] \in Memory /\ mem[l].mode \in Volume /\ mem[l].rend \in Nat
           /\ conf[proj[l]] \in Nat
           /\ Known(l) /\ Control
<1>1. proj[l] \in Project /\ mem[l] \in Memory
  BY DEF IInv, Control
<1>2. box[proj[l]] \in Box /\ conf[proj[l]] \in Nat /\ local \in Nat
  BY <1>1 DEF IInv, Machine
<1>3. Here(l).image \in Nat /\ mem[l].mode \in Volume /\ mem[l].rend \in Nat
  BY <1>1, <1>2 DEF Here, Box, Memory
<1>4. Here(l).image <= local /\ (Here(l).st # "none" /\ Here(l).own => vol[Here(l).vol] = "ours")
  BY <1>1 DEF IInv, Images, HomeOwned, Here
<1> QED
  BY <1>1, <1>2, <1>3, <1>4 DEF IInv, Here

\* A step that leaves the machine and the world alone.
LEMMA QuietWorld ==
    ASSUME IInv, NEW l \in Launcher, NEW point, NEW m, Moved(l, point, m),
           UNCHANGED <<docker, world>>, Known(l)'
    PROVE  IInv'
<1>1. events' \in 0..MaxEvents /\ UNCHANGED <<conf, registry>>
  BY DEF IInv, Machine, world
<1> QED
  BY <1>1, Quiet

-----------------------------------------------------------------------------
(* Every action keeps the invariant.                                       *)

\* The start of a command keeps the invariant.
LEMMA BeginIInv == ASSUME IInv, NEW l \in Launcher, Begin(l) PROVE IInv'
<1>1. UNCHANGED <<proj, docker, world>>
  BY DEF Begin
<1>2. CASE Refuse(l)
  BY <1>1, <1>2, RefuseIInv
<1>3. ASSUME NEW c \in Command, NEW mo \in Mode,
             Remember(l, AfterInspect(c, Here(l)),
                      [Blank EXCEPT !.cmd = c, !.mode = mo, !.seen = Here(l)])
      PROVE  IInv'
  <2> DEFINE point == AfterInspect(c, Here(l))
             m == [Blank EXCEPT !.cmd = c, !.mode = mo, !.seen = Here(l)]
  <2>1. mo \in Volume
    BY ConstantsAssumption
  <2>2. m \in Memory /\ m.cmd = c
    <3>1. Blank \in Memory /\ Here(l) \in Box
      BY BlankIsMemory, HereIs
    <3> QED
      BY <2>1, <3>1 DEF Memory
  <2>3. /\ point \in {"lockVolume", "session?", "lock"} /\ point \in Points
        /\ point = "lockVolume" => c = "state rm"
    BY DEF AfterInspect, Points
  <2> HIDE DEF point, m
  <2>4. Moved(l, point, m)
    BY <1>1, <1>3, <2>2, <2>3, RememberMoves DEF IInv, point, m
  <2>5. Known(l)'
    <3>1. CASE point = "lockVolume"
      BY <2>2, <2>3, <2>4, <3>1
         DEF Moved, Known, Programs, Stays, Validated, Replaceable
    <3>2. CASE point # "lockVolume"
      BY <2>3, <2>4, <3>2, KnownFree DEF Moved
    <3> QED
      BY <3>1, <3>2
  <2> QED
    BY <1>1, <2>4, <2>5, QuietWorld
<1> QED
  BY <1>2, <1>3 DEF Begin

\* A move to a point where nothing has to be known.
LEMMA ContinueFree ==
    ASSUME IInv, NEW l \in Launcher,
           NEW point \in {"session?", "attach", "lockRecover", "lock", "wait",
                          "attachStarted"},
           Continue(l, point), UNCHANGED <<proj, docker, world>>
    PROVE  IInv'
<1>1. point \in Points
  BY DEF Points
<1>2. Moved(l, point, mem[l])
  BY <1>1, ContinueMoves DEF IInv
<1>3. Known(l)'
  BY <1>2, KnownFree DEF Moved
<1> QED
  BY <1>2, <1>3, QuietWorld

\* The first look at the tmux session keeps the invariant.
LEMMA CheckSessionIInv == ASSUME IInv, NEW l \in Launcher, CheckSession(l) PROVE IInv'
BY RefuseIInv, ContinueFree DEF CheckSession

\* Attaching keeps the invariant.
LEMMA AttachIInv == ASSUME IInv, NEW l \in Launcher, Attach(l) PROVE IInv'
<1>1. events' \in 0..MaxEvents /\ UNCHANGED <<conf, registry>>
  BY DEF Attach, IInv, Machine, world
<1> QED
  BY <1>1, FinishIInv DEF Attach

\* Taking the lock to recover a session keeps the invariant.
LEMMA LockRecoverIInv == ASSUME IInv, NEW l \in Launcher, LockRecover(l) PROVE IInv'
<1>1. /\ plock[proj[l]] = None /\ plock' = [plock EXCEPT ![proj[l]] = l]
      /\ mem' = [mem EXCEPT ![l] = Inspected(l)] /\ pc' = [pc EXCEPT ![l] = "recover"]
      /\ UNCHANGED <<proj, vlock, docker, world>>
  BY DEF LockRecover, Free, Goto
<1>2. Inspected(l) \in Memory /\ Inspected(l).seen = Here(l)
  BY HereIs DEF Inspected, Memory
<1>3. "recover" \in Points
  BY DEF Points
<1>4. Moved(l, "recover", Inspected(l)) /\ plock'[proj[l]] = l
  <2>1. None \notin Launcher
    BY ConstantsAssumption
  <2> QED
    BY <1>1, <1>2, <1>3, <2>1 DEF Moved, IInv, Control
<1>5. Known(l)'
  <2>1. Here(l)' = Here(l)
    BY <1>1 DEF Here, docker
  <2> QED
    BY <1>2, <1>4, <2>1 DEF Moved, Known, Programs, Stays, Validated, Replaceable
<1> QED
  BY <1>1, <1>4, <1>5, QuietWorld

\* Recovering a session keeps the invariant.
LEMMA RecoverIInv == ASSUME IInv, NEW l \in Launcher, Recover(l) PROVE IInv'
<1>1. pc[l] = "recover" /\ UNCHANGED <<proj, vol, local, lastId, conf, registry, events>>
  BY DEF Recover, world
<1>2. CASE Refuse(l) /\ UNCHANGED box
  BY <1>1, <1>2, RefuseIInv DEF docker, world
<1>3. CASE /\ Here(l).st = "running"
           /\ box' = [box EXCEPT ![proj[l]].ready = TRUE]
           /\ ContinueUnlocked(l, "attach")
  <2> DEFINE nb == [Here(l) EXCEPT !.st = "running", !.ready = TRUE]
  <2>1. /\ nb \in Box /\ nb.image = Here(l).image /\ nb.own = Here(l).own
        /\ nb.vol = Here(l).vol /\ nb.st = "running"
    BY HereIs, ReadyIs
  <2>2. nb = [Here(l) EXCEPT !.ready = TRUE]
    BY <1>3, HereIs DEF Box
  <2>3. box' = [box EXCEPT ![proj[l]] = nb]
    BY <1>3, <2>2, HereIs DEF IInv, Machine
  <2>4. Moved(l, "attach", mem[l])
    BY <1>1, <1>3, UnlockedMoves, HereIs DEF Points
  <2>5. Known(l)'
    BY <2>4, KnownFree DEF Moved
  <2>6. lastId' \in Nat
    BY <1>1 DEF IInv, Machine
  <2> HIDE DEF nb
  <2>7. nb.image <= local /\ (nb.st # "none" /\ nb.own => vol[nb.vol] = "ours")
    BY <1>3, <2>1, HereIs
  <2> QED
    BY <1>1, <2>1, <2>3, <2>4, <2>5, <2>6, <2>7, BoxStep
<1> QED
  BY <1>2, <1>3 DEF Recover

\* Taking the project lock keeps the invariant.
LEMMA LockProjectIInv == ASSUME IInv, NEW l \in Launcher, LockProject(l) PROVE IInv'
<1>1. /\ plock[proj[l]] = None /\ plock' = [plock EXCEPT ![proj[l]] = l]
      /\ pc' = [pc EXCEPT ![l] = "locked"]
      /\ UNCHANGED <<proj, mem, vlock, docker, world>>
  BY DEF LockProject, Free, Goto
<1>2. "locked" \in Points
  BY DEF Points
<1>3. Moved(l, "locked", mem[l]) /\ plock'[proj[l]] = l
  <2>1. None \notin Launcher
    BY ConstantsAssumption
  <2> QED
    BY <1>1, <1>2, <2>1 DEF Moved, IInv, Control
<1>4. Known(l)'
  BY <1>1, <1>3 DEF Moved, Known, Programs, Stays, Validated, Replaceable
<1> QED
  BY <1>1, <1>3, <1>4, QuietWorld

\* The inspection under the lock keeps the invariant.
LEMMA InspectLockedIInv == ASSUME IInv, NEW l \in Launcher, InspectLocked(l) PROVE IInv'
<1>1. pc[l] = "locked" /\ plock[proj[l]] = l /\ UNCHANGED <<proj, docker, world>>
  BY HereIs DEF InspectLocked, Known
<1>2. Inspected(l) \in Memory /\ Inspected(l).seen = Here(l) /\ Inspected(l).cmd = mem[l].cmd
  BY HereIs DEF Inspected, Memory
<1>3. Here(l)' = Here(l)
  BY <1>1 DEF Here, docker
<1>4. CASE /\ Goto(l, "session?")
           /\ mem' = [mem EXCEPT ![l] = Inspected(l)]
           /\ plock' = Unlocked(plock, l)
           /\ UNCHANGED vlock
  <2>1. /\ plock' \in [Project -> Launcher \cup {None}]
        /\ \A p \in Project : plock[p] # l => plock'[p] = plock[p]
    BY <1>4, UnlockedOthers DEF IInv, Control
  <2>2. "session?" \in Points
    BY DEF Points
  <2>3. Moved(l, "session?", Inspected(l))
    BY <1>1, <1>2, <1>4, <2>1, <2>2 DEF Moved, IInv, Control, Goto
  <2>4. Known(l)'
    BY <2>3, KnownFree DEF Moved
  <2> QED
    BY <1>1, <2>3, <2>4, QuietWorld
<1>5. CASE /\ Owned(Here(l)) /\ Path(mem[l].cmd, Here(l)) # "refuse"
           /\ \E m \in Adopted(l) : Remember(l, Path(mem[l].cmd, Here(l)), m)
  <2> DEFINE point == Path(mem[l].cmd, Here(l))
  <2>1. PICK m \in Adopted(l) : Remember(l, point, m)
    BY <1>5
  <2>2. m \in Memory /\ m.seen = Here(l) /\ m.cmd = mem[l].cmd
    <3>1. Here(l).vol \in Volume
      BY HereIs DEF Box
    <3>2. [Inspected(l) EXCEPT !.mode = Here(l).vol] \in Memory
      BY <1>2, <3>1 DEF Memory
    <3>3. m = Inspected(l) \/ m = [Inspected(l) EXCEPT !.mode = Here(l).vol]
      BY DEF Adopted
    <3> QED
      BY <1>2, <3>2, <3>3 DEF Memory
  <2>3. point \in Points
    BY <1>5 DEF Path, Points
  <2>4. /\ point \in {"stopped", "render", "startNamed", "transfer", "composeRun",
                      "pullOnly"}
        /\ point = "stopped" => m.cmd = "launch"
        /\ point = "render" => m.cmd \in {"launch", "up", "create", "down", "down -v"}
        /\ point = "composeRun" => m.cmd \in {"stop", "restart"}
        /\ point \in {"stopped", "startNamed", "transfer"} => m.seen.st # "none"
    BY <1>5, <2>2 DEF Path
  <2>5. m.seen.st # "none" => m.seen.own
    BY <1>5, <2>2 DEF Owned
  <2> HIDE DEF point
  <2>6. Moved(l, point, m) /\ plock' = plock
    BY <1>1, <2>1, <2>2, <2>3, RememberMoves DEF IInv
  <2>7. Known(l)'
    <3>1. Programs(l)' /\ Validated(l)' /\ Replaceable(l)'
      BY <2>4, <2>6 DEF Moved, Programs, Validated, Replaceable
    <3>2. Stays(l)'
      BY <1>3, <2>2, <2>4, <2>5, <2>6 DEF Moved, Stays
    <3> QED
      BY <1>1, <2>6, <3>1, <3>2 DEF Known
  <2> QED
    BY <1>1, <2>6, <2>7, QuietWorld
<1>6. CASE Refuse(l)
  BY <1>1, <1>6, RefuseIInv
<1> QED
  BY <1>4, <1>5, <1>6 DEF InspectLocked

\* start keeps the invariant.
LEMMA StartNamedIInv == ASSUME IInv, NEW l \in Launcher, StartNamed(l) PROVE IInv'
<1>1. pc[l] = "startNamed" /\ UNCHANGED <<proj, vol, local, lastId, conf, registry, events>>
  BY DEF StartNamed, world
<1>2. CASE Refuse(l) /\ UNCHANGED box
  BY <1>1, <1>2, RefuseIInv DEF docker, world
<1>3. CASE box' = [box EXCEPT ![proj[l]] = Started(@)] /\ Finish(l, "ok")
  <2>1. box' = [box EXCEPT ![proj[l]] = Started(Here(l))]
    BY <1>3 DEF Here
  <2>2. Moved(l, "ok", Blank)
    BY <1>1, <1>3, FinishMoves, HereIs
  <2>3. Known(l)'
    BY <2>2, KnownFree DEF Moved
  <2>4. lastId' \in Nat
    BY <1>1 DEF IInv, Machine
  <2>5. /\ Started(Here(l)) \in Box /\ Started(Here(l)).image <= local
        /\ Started(Here(l)).st # "none" /\ Started(Here(l)).own =>
              vol[Started(Here(l)).vol] = "ours"
    BY HereIs, StartedIs
  <2> QED
    BY <1>1, <2>1, <2>2, <2>3, <2>4, <2>5, BoxStep
<1> QED
  BY <1>2, <1>3 DEF StartNamed

\* stop or restart keeps the invariant.
LEMMA ComposeRunIInv == ASSUME IInv, NEW l \in Launcher, ComposeRun(l) PROVE IInv'
<1> DEFINE st == IF mem[l].cmd = "stop" THEN "exited" ELSE "running"
           nb == IF Here(l).st = "none" \/ ~Here(l).own THEN Here(l)
                 ELSE [Here(l) EXCEPT !.st = st, !.ready = FALSE]
<1>1. pc[l] = "composeRun" /\ UNCHANGED <<proj, vol, local, lastId, conf, registry, events>>
  BY DEF ComposeRun, world
<1>2. box' = [box EXCEPT ![proj[l]] = nb]
  BY HereIs DEF ComposeRun, Box
<1>3. Moved(l, "ok", Blank)
  BY <1>1, FinishMoves, HereIs DEF ComposeRun
<1>4. Known(l)'
  BY <1>3, KnownFree DEF Moved
<1>5. lastId' \in Nat
  BY <1>1 DEF IInv, Machine
<1>6. /\ nb \in Box /\ nb.image <= local
      /\ nb.st # "none" /\ nb.own => vol[nb.vol] = "ours"
  <2>1. CASE Here(l).st = "none" \/ ~Here(l).own
    BY <2>1, HereIs
  <2>2. CASE ~(Here(l).st = "none" \/ ~Here(l).own)
    <3>1. st \in {"exited", "running", "suspended"}
      OBVIOUS
    <3> HIDE DEF st
    <3> DEFINE n == [Here(l) EXCEPT !.st = st, !.ready = FALSE]
    <3>0. n \in Box /\ n.image = Here(l).image /\ n.vol = Here(l).vol
      <4>1. Here(l) \in Box /\ FALSE \in BOOLEAN
        BY HereIs
      <4> QED
        BY ZenonT(30), <3>1, <4>1, ReadyIs
    <3>2. nb \in Box /\ nb.image = Here(l).image /\ nb.vol = Here(l).vol
      BY <2>2, <3>0
    <3> QED
      BY <2>2, <3>2, HereIs
  <2> QED
    BY <2>1, <2>2
<1> HIDE DEF nb
<1> QED
  BY <1>1, <1>2, <1>3, <1>4, <1>5, <1>6, BoxStep

\* pull keeps the invariant.
LEMMA PullOnlyIInv == ASSUME IInv, NEW l \in Launcher, PullOnly(l) PROVE IInv'
<1>1. UNCHANGED <<proj, box, vol, lastId, conf, registry>>
  BY DEF PullOnly
<1>2. CASE local' = registry /\ Finish(l, "ok") /\ UNCHANGED events
  <2>1. Moved(l, "ok", Blank)
    BY <1>1, <1>2, FinishMoves, HereIs
  <2>2. Known(l)'
    BY <2>1, KnownFree DEF Moved
  <2> QED
    BY <1>1, <1>2, <2>1, <2>2, PullStep
<1>3. CASE Event /\ Refuse(l) /\ UNCHANGED local
  BY <1>1, <1>3, EventCounted, FinishIInv DEF Refuse, docker, IInv
<1> QED
  BY <1>2, <1>3 DEF PullOnly

\* The end of a session transfer keeps the invariant.
LEMMA TransferEndsIInv == ASSUME IInv, NEW l \in Launcher, TransferEnds(l) PROVE IInv'
<1>1. events' \in 0..MaxEvents /\ UNCHANGED <<conf, registry>>
  BY DEF TransferEnds, IInv, Machine, world
<1> QED
  BY <1>1, FinishIInv DEF TransferEnds

\* A step of the bare launch that keeps what it inspected keeps what it knows.
LEMMA StoppedKnown ==
    ASSUME IInv, NEW l \in Launcher, pc[l] \in StoppedPath, NEW point, NEW m,
           Moved(l, point, m), plock' = plock, box' = box,
           point \in {"pull", "recheckPulled", "recheckOriginal", "startOriginal"},
           m.cmd = mem[l].cmd, m.seen = mem[l].seen,
           point = "recheckPulled" /\ m.pulled # 0 =>
               Here(l).image <= m.pulled /\ m.pulled <= local'
    PROVE  Known(l)'
<1>1. Here(l)' = Here(l)
  BY DEF Here, Moved
<1>2. Stays(l)'
  BY <1>1, HereIs DEF Moved, Known, Stays
<1>3. Programs(l)'
  BY HereIs DEF Moved, Known, Programs
<1>4. Validated(l)' /\ Replaceable(l)'
  BY <1>1 DEF Moved, Validated, Replaceable, Pulled
<1>5. plock'[proj'[l]] = l
  BY HereIs DEF Moved, Known
<1> QED
  BY <1>2, <1>3, <1>4, <1>5 DEF Known

\* The choice between the original container and a refresh keeps the invariant.
LEMMA StartStoppedIInv == ASSUME IInv, NEW l \in Launcher, StartStopped(l) PROVE IInv'
<1>1. pc[l] = "stopped" /\ UNCHANGED <<proj, docker, world>>
  BY DEF StartStopped
<1>2. CASE Refuse(l)
  BY <1>1, <1>2, RefuseIInv
<1>3. CASE Continue(l, "recheckOriginal")
  <2>1. Moved(l, "recheckOriginal", mem[l]) /\ plock' = plock
    BY <1>1, <1>3, ContinueMoves, HereIs DEF Points
  <2>2. Known(l)'
    BY <1>1, <2>1, StoppedKnown DEF docker
  <2> QED
    BY <1>1, <2>1, <2>2, QuietWorld
<1>4. CASE Remember(l, "pull", [mem[l] EXCEPT !.rend = conf[proj[l]]])
  <2> DEFINE m == [mem[l] EXCEPT !.rend = conf[proj[l]]]
  <2>1. m \in Memory /\ m.cmd = mem[l].cmd /\ m.seen = mem[l].seen
    BY HereIs DEF Memory
  <2> HIDE DEF m
  <2>2. Moved(l, "pull", m) /\ plock' = plock
    BY <1>1, <1>4, <2>1, RememberMoves, HereIs DEF Points, m
  <2>3. Known(l)'
    BY <1>1, <2>1, <2>2, StoppedKnown DEF docker
  <2> QED
    BY <1>1, <2>2, <2>3, QuietWorld
<1> QED
  BY <1>2, <1>3, <1>4 DEF StartStopped

\* The pull of a bare launch keeps the invariant.
LEMMA PullStoppedIInv == ASSUME IInv, NEW l \in Launcher, PullStopped(l) PROVE IInv'
<1>1. pc[l] = "pull" /\ UNCHANGED <<proj, box, vol, lastId, conf, registry>>
  BY DEF PullStopped
<1>2. CASE /\ local' = registry
           /\ Remember(l, "recheckPulled", [mem[l] EXCEPT !.pulled = registry])
           /\ UNCHANGED events
  <2> DEFINE m == [mem[l] EXCEPT !.pulled = registry]
  <2>1. /\ m \in Memory /\ m.cmd = mem[l].cmd /\ m.seen = mem[l].seen
        /\ m.pulled = registry
    BY HereIs DEF Memory, IInv, Machine
  <2> HIDE DEF m
  <2>2. Moved(l, "recheckPulled", m) /\ plock' = plock
    BY <1>1, <1>2, <2>1, RememberMoves, HereIs DEF Points, m
  <2>4. Here(l).image <= registry /\ registry <= local'
    BY <1>2, HereIs DEF IInv, Images, Machine, Here, Control, Box
  <2>3. Known(l)'
    BY <1>1, <2>1, <2>2, <2>4, StoppedKnown DEF StoppedPath
  <2> QED
    BY <1>1, <1>2, <2>2, <2>3, PullStep
<1>3. CASE /\ Remember(l, "recheckPulled", [mem[l] EXCEPT !.pulled = 0])
           /\ Event /\ UNCHANGED local
  <2> DEFINE m == [mem[l] EXCEPT !.pulled = 0]
  <2>1. m \in Memory /\ m.cmd = mem[l].cmd /\ m.seen = mem[l].seen /\ m.pulled = 0
    BY HereIs DEF Memory
  <2> HIDE DEF m
  <2>2. Moved(l, "recheckPulled", m) /\ plock' = plock
    BY <1>1, <1>3, <2>1, RememberMoves, HereIs DEF Points, m
  <2>3. Known(l)'
    BY <1>1, <2>1, <2>2, StoppedKnown DEF StoppedPath
  <2> QED
    BY <1>1, <1>3, <2>2, <2>3, Quiet, EventCounted DEF docker, IInv
<1> QED
  BY <1>2, <1>3 DEF PullStopped

\* A recheck goes on only with the stopped container.
LEMMA RecheckIInv ==
    ASSUME IInv, NEW l \in Launcher, NEW point \in Points, pc[l] \in StoppedPath,
           Recheck(l, point), UNCHANGED <<proj, docker, world>>,
           (Moved(l, point, mem[l]) /\ plock' = plock /\ box' = box
            /\ Here(l).st = "exited") => Known(l)'
    PROVE  IInv'
<1>1. CASE Refuse(l)
  BY <1>1, RefuseIInv
<1>2. CASE ContinueUnlocked(l, "wait")
  <2>1. Moved(l, "wait", mem[l])
    BY <1>2, UnlockedMoves, HereIs DEF Points
  <2>2. Known(l)'
    BY <2>1, KnownFree DEF Moved
  <2> QED
    BY <2>1, <2>2, QuietWorld
<1>3. CASE SameProject(l) /\ Here(l).st # "running" /\ Continue(l, point)
  <2>1. Here(l).st = "exited"
    BY <1>3, HereIs DEF Known, Stays, SameProject, Box
  <2>2. Moved(l, point, mem[l]) /\ plock' = plock /\ box' = box
    BY <1>3, ContinueMoves, HereIs DEF docker
  <2> QED
    BY <2>1, <2>2, QuietWorld
<1> QED
  BY <1>1, <1>2, <1>3 DEF Recheck

\* The recheck after the pull keeps the invariant.
LEMMA RecheckPulledIInv == ASSUME IInv, NEW l \in Launcher, RecheckPulled(l) PROVE IInv'
<1> DEFINE point == IF mem[l].pulled \in {0, Here(l).image}
                    THEN "recheckOriginal" ELSE "renderFinal"
<1>1. /\ pc[l] = "recheckPulled" /\ Recheck(l, point)
      /\ UNCHANGED <<proj, docker, world>>
  BY DEF RecheckPulled
<1>2. point \in Points
  BY DEF Points
<1>3. ASSUME Moved(l, point, mem[l]), plock' = plock, box' = box PROVE Known(l)'
  <2>1. CASE point = "recheckOriginal"
    BY <1>1, <1>3, <2>1, StoppedKnown
  <2>2. CASE point = "renderFinal"
    <3>1. Here(l)' = Here(l) /\ local' = local
      BY <1>1, <1>3 DEF Here, docker
    <3>2. mem[l].pulled # 0 /\ Here(l).image < local
      <4>1. mem[l].pulled # 0 /\ mem[l].pulled # Here(l).image
        BY <2>2
      <4>2. Here(l).image <= mem[l].pulled /\ mem[l].pulled <= local
        BY <1>1, <4>1, HereIs DEF Known, Replaceable, Pulled
      <4>3. /\ Here(l).image \in Nat /\ mem[l].pulled \in Nat /\ local \in Nat
        BY HereIs DEF IInv, Machine, Control, Memory, Box
      <4> QED
        BY <4>1, <4>2, <4>3
    <3>3. pc'[l] = "renderFinal" /\ mem'[l] = mem[l] /\ proj' = proj
      BY <1>3, <2>2 DEF Moved
    <3> HIDE DEF point
    <3>4. Replaceable(l)'
      BY <3>1, <3>2, <3>3 DEF Replaceable, Refreshed
    <3>5. Stays(l)'
      BY <1>1, <3>1, <3>3, HereIs DEF Known, Stays
    <3>6. Programs(l)' /\ Validated(l)'
      BY <1>1, <3>3, HereIs DEF Known, Programs, Validated
    <3> QED
      BY <1>1, <1>3, <3>3, <3>4, <3>5, <3>6, HereIs DEF Known
  <2> QED
    BY <2>1, <2>2
<1> HIDE DEF point
<1> QED
  BY <1>1, <1>2, <1>3, RecheckIInv

\* The second rendering keeps the invariant.
LEMMA RenderFinalIInv == ASSUME IInv, NEW l \in Launcher, RenderFinal(l) PROVE IInv'
<1>1. pc[l] = "renderFinal" /\ UNCHANGED <<proj, docker, world>>
  BY DEF RenderFinal
<1>2. CASE Refuse(l)
  BY <1>1, <1>2, RefuseIInv
<1>3. CASE Continue(l, "recheckOriginal")
  <2>1. Moved(l, "recheckOriginal", mem[l]) /\ plock' = plock
    BY <1>1, <1>3, ContinueMoves, HereIs DEF Points
  <2>2. Known(l)'
    BY <1>1, <2>1, StoppedKnown DEF docker
  <2> QED
    BY <1>1, <2>1, <2>2, QuietWorld
<1>4. CASE /\ Reproducible(l, conf[proj[l]]) /\ StateValid(l)
           /\ Remember(l, "recheckFinal", [mem[l] EXCEPT !.rend = conf[proj[l]]])
  <2> DEFINE m == [mem[l] EXCEPT !.rend = conf[proj[l]]]
  <2>1. /\ m \in Memory /\ m.cmd = mem[l].cmd /\ m.seen = mem[l].seen
        /\ m.pulled = mem[l].pulled /\ m.mode = mem[l].mode
        /\ m.rend = conf[proj[l]]
    BY HereIs DEF Memory
  <2> HIDE DEF m
  <2>2. Moved(l, "recheckFinal", m) /\ plock' = plock
    BY <1>1, <1>4, <2>1, RememberMoves, HereIs DEF Points, m
  <2>3. Known(l)'
    <3>1. Here(l)' = Here(l) /\ local' = local /\ vol' = vol
      BY <1>1 DEF Here, docker
    <3>2. pc'[l] = "recheckFinal" /\ mem'[l] = m /\ proj' = proj
      BY <2>2 DEF Moved
    <3>3. Replaceable(l)'
      BY <1>1, <1>4, <2>1, <3>1, <3>2, HereIs
         DEF Known, Replaceable, Refreshed, Reproducible
    <3>4. Stays(l)'
      BY <1>1, <2>1, <3>1, <3>2, HereIs DEF Known, Stays
    <3>5. Programs(l)' /\ Validated(l)'
      BY <1>1, <1>4, <2>1, <3>1, <3>2, HereIs DEF Known, Programs, Validated, StateValid
    <3> QED
      BY <1>1, <2>2, <3>2, <3>3, <3>4, <3>5, HereIs DEF Known
  <2> QED
    BY <1>1, <2>2, <2>3, QuietWorld
<1> QED
  BY <1>2, <1>3, <1>4 DEF RenderFinal

\* The recheck before Compose keeps the invariant.
LEMMA RecheckFinalIInv == ASSUME IInv, NEW l \in Launcher, RecheckFinal(l) PROVE IInv'
<1>1. pc[l] = "recheckFinal" /\ UNCHANGED <<proj, docker, world>>
  BY DEF RecheckFinal
<1>2. CASE Refuse(l)
  BY <1>1, <1>2, RefuseIInv
<1>3. CASE Recheck(l, "compose")
  <2>1. ASSUME Moved(l, "compose", mem[l]), plock' = plock, box' = box,
               Here(l).st = "exited"
        PROVE  Known(l)'
    <3>1. Here(l)' = Here(l) /\ local' = local /\ vol' = vol
      BY <1>1 DEF Here, docker
    <3>2. pc'[l] = "compose" /\ mem'[l] = mem[l] /\ proj' = proj
      BY <2>1 DEF Moved
    <3>3. Replaceable(l)'
      BY <1>1, <2>1, <3>1, <3>2, HereIs DEF Known, Replaceable, Refreshed
    <3>4. Stays(l)'
      BY <3>2 DEF Stays
    <3>5. Programs(l)' /\ Validated(l)'
      BY <1>1, <3>1, <3>2, HereIs DEF Known, Programs, Validated
    <3> QED
      BY <1>1, <2>1, <3>2, <3>3, <3>4, <3>5, HereIs DEF Known
  <2> QED
    BY <1>1, <1>3, <2>1, RecheckIInv DEF Points
<1> QED
  BY <1>2, <1>3 DEF RecheckFinal

\* The recheck of the original container keeps the invariant.
LEMMA RecheckOriginalIInv == ASSUME IInv, NEW l \in Launcher, RecheckOriginal(l) PROVE IInv'
<1>1. /\ pc[l] = "recheckOriginal" /\ UNCHANGED <<proj, docker, world>>
      /\ Recheck(l, "startOriginal")
  BY DEF RecheckOriginal
<1>2. ASSUME Moved(l, "startOriginal", mem[l]), plock' = plock, box' = box
      PROVE  Known(l)'
  BY <1>1, <1>2, StoppedKnown
<1> QED
  BY <1>1, <1>2, RecheckIInv DEF Points

\* The start of the original container keeps the invariant.
LEMMA StartOriginalIInv == ASSUME IInv, NEW l \in Launcher, StartOriginal(l) PROVE IInv'
<1>1. /\ pc[l] = "startOriginal"
      /\ UNCHANGED <<proj, vol, local, lastId, conf, registry, events>>
  BY DEF StartOriginal, world
<1>2. CASE Refuse(l) /\ UNCHANGED box
  BY <1>1, <1>2, RefuseIInv DEF docker, world
<1>3. CASE box' = [box EXCEPT ![proj[l]] = Started(@)] /\ ContinueUnlocked(l, "wait")
  <2>1. box' = [box EXCEPT ![proj[l]] = Started(Here(l))]
    BY <1>3 DEF Here
  <2>2. Moved(l, "wait", mem[l])
    BY <1>1, <1>3, UnlockedMoves, HereIs DEF Points
  <2>3. Known(l)'
    BY <2>2, KnownFree DEF Moved
  <2>4. lastId' \in Nat
    BY <1>1 DEF IInv, Machine
  <2>5. /\ Started(Here(l)) \in Box /\ Started(Here(l)).image <= local
        /\ Started(Here(l)).st # "none" /\ Started(Here(l)).own =>
              vol[Started(Here(l)).vol] = "ours"
    BY HereIs, StartedIs
  <2> QED
    BY <1>1, <2>1, <2>2, <2>3, <2>4, <2>5, BoxStep
<1> QED
  BY <1>2, <1>3 DEF StartOriginal

\* The rendering of the project keeps the invariant.
LEMMA RenderIInv == ASSUME IInv, NEW l \in Launcher, Render(l) PROVE IInv'
<1>1. pc[l] = "render" /\ UNCHANGED <<proj, docker, world>> /\ plock[proj[l]] = l
  BY HereIs DEF Render, Known
<1>2. CASE Refuse(l)
  BY <1>1, <1>2, RefuseIInv
<1>3. ASSUME mem[l].cmd \in {"down", "down -v"},
             NEW point \in {"composeDown", "lockRemoval", "planRemoval"},
             Continue(l, point)
      PROVE  IInv'
  <2>1. Moved(l, point, mem[l]) /\ plock' = plock
    BY <1>1, <1>3, ContinueMoves, HereIs DEF Points
  <2>2. Known(l)'
    BY <1>1, <1>3, <2>1 DEF Moved, Known, Programs, Stays, Validated, Replaceable
  <2> QED
    BY <1>1, <2>1, <2>2, QuietWorld
<1>4. CASE /\ mem[l].cmd \notin {"down", "down -v"} /\ StateValid(l)
           /\ Remember(l, "image", [mem[l] EXCEPT !.rend = conf[proj[l]]])
  <2> DEFINE m == [mem[l] EXCEPT !.rend = conf[proj[l]]]
  <2>1. m \in Memory /\ m.cmd = mem[l].cmd /\ m.mode = mem[l].mode
    BY HereIs DEF Memory
  <2> HIDE DEF m
  <2>2. Moved(l, "image", m) /\ plock' = plock
    BY <1>1, <1>4, <2>1, RememberMoves, HereIs DEF Points, m
  <2>3. m.cmd \in {"launch", "up", "create"}
    BY <1>1, <1>4, <2>1, HereIs DEF Known, Programs
  <2>4. Known(l)'
    BY <1>1, <1>4, <2>1, <2>2, <2>3
       DEF Moved, Known, Programs, Stays, Validated, Replaceable, StateValid, docker
  <2> QED
    BY <1>1, <2>2, <2>4, QuietWorld
<1> QED
  BY <1>2, <1>3, <1>4 DEF Render

\* A step of the creation keeps the command and the validated volume.
LEMMA CreationKnown ==
    ASSUME IInv, NEW l \in Launcher, pc[l] \in CreationPath,
           NEW point \in CreationPath, Moved(l, point, mem[l]), plock' = plock,
           \A v \in Volume : vol'[v] = "foreign" => vol[v] = "foreign",
           Replaceable(l)'
    PROVE  Known(l)'
<1>1. pc'[l] = point /\ mem'[l] = mem[l] /\ proj' = proj /\ plock[proj[l]] = l
  BY HereIs DEF Moved, Known
<1>2. Programs(l)'
  BY <1>1, HereIs DEF Known, Programs
<1>3. Stays(l)'
  BY <1>1 DEF Stays
<1>4. Validated(l)'
  BY <1>1, HereIs DEF Known, Validated
<1> QED
  BY <1>1, <1>2, <1>3, <1>4 DEF Known

\* The selection of an image keeps the invariant.
LEMMA SelectImageIInv == ASSUME IInv, NEW l \in Launcher, SelectImage(l) PROVE IInv'
<1>1. /\ pc[l] = "image" /\ plock[proj[l]] = l
      /\ UNCHANGED <<proj, box, vol, lastId, conf, registry>>
  BY HereIs DEF SelectImage, Known
<1>2. ASSUME Continue(l, "recheckNew")
      PROVE  Moved(l, "recheckNew", mem[l]) /\ Known(l)'
  <2>1. Moved(l, "recheckNew", mem[l]) /\ plock' = plock
    BY <1>1, <1>2, ContinueMoves, HereIs DEF Points
  <2>2. Replaceable(l)'
    BY <2>1 DEF Moved, Replaceable
  <2>3. Known(l)'
    BY <1>1, <2>1, <2>2, CreationKnown
  <2> QED
    BY <2>1, <2>3
<1>3. CASE local' = registry /\ Continue(l, "recheckNew") /\ UNCHANGED events
  BY <1>1, <1>2, <1>3, PullStep
<1>4. CASE Continue(l, "recheckNew") /\ UNCHANGED <<local, events>>
  BY <1>1, <1>2, <1>4, QuietWorld DEF docker, world
<1>5. CASE Event /\ Refuse(l) /\ UNCHANGED local
  BY <1>1, <1>5, EventCounted, FinishIInv DEF Refuse, docker, IInv
<1> QED
  BY <1>3, <1>4, <1>5 DEF SelectImage

\* The recheck of a launch that creates keeps the invariant.
LEMMA RecheckNewIInv == ASSUME IInv, NEW l \in Launcher, RecheckNew(l) PROVE IInv'
<1>1. /\ pc[l] = "recheckNew" /\ plock[proj[l]] = l
      /\ UNCHANGED <<proj, docker, world>>
  BY HereIs DEF RecheckNew, Known
<1>2. CASE Refuse(l)
  BY <1>1, <1>2, RefuseIInv
<1>3. CASE /\ ~(mem[l].cmd = "launch" /\ Here(l).st # "none")
           /\ Continue(l, "ensureState")
  <2>1. Moved(l, "ensureState", mem[l]) /\ plock' = plock
    BY <1>1, <1>3, ContinueMoves, HereIs DEF Points
  <2>2. Here(l)' = Here(l) /\ vol' = vol
    BY <1>1 DEF Here, docker
  <2>3. Replaceable(l)'
    BY <1>3, <2>1, <2>2 DEF Moved, Replaceable
  <2>4. Known(l)'
    BY <1>1, <2>1, <2>2, <2>3, CreationKnown
  <2> QED
    BY <1>1, <2>1, <2>4, QuietWorld
<1> QED
  BY <1>2, <1>3 DEF RecheckNew

\* Taking a volume lock moves the launcher.
LEMMA LockMoves ==
    ASSUME IInv, NEW l \in Launcher, NEW point \in Points, NEW v \in Volume,
           vlock' = [vlock EXCEPT ![v] = l], Goto(l, point),
           UNCHANGED <<proj, mem, plock>>
    PROVE  Moved(l, point, mem[l])
BY DEF Moved, IInv, Control, Goto

\* Taking the volume lock keeps the invariant.
LEMMA LockStateIInv == ASSUME IInv, NEW l \in Launcher, LockState(l) PROVE IInv'
<1>1. /\ pc[l] = "ensureState" /\ plock[proj[l]] = l
      /\ UNCHANGED <<proj, mem, plock, docker, world>>
  BY HereIs DEF LockState, Known
<1>2. Moved(l, "ensuring", mem[l])
  BY HereIs, LockMoves DEF LockState, Points
<1>3. Here(l)' = Here(l) /\ vol' = vol
  BY <1>1 DEF Here, docker
<1>4. Replaceable(l)'
  BY <1>1, <1>2, <1>3, HereIs DEF Moved, Known, Replaceable
<1>5. Known(l)'
  BY <1>1, <1>2, <1>3, <1>4, CreationKnown
<1> QED
  BY <1>1, <1>2, <1>5, QuietWorld

\* The creation of the volume keeps the invariant.
LEMMA EnsureStateIInv == ASSUME IInv, NEW l \in Launcher, EnsureState(l) PROVE IInv'
<1>1. /\ pc[l] = "ensuring" /\ plock[proj[l]] = l
      /\ UNCHANGED <<proj, box, local, lastId, world>>
  BY HereIs DEF EnsureState, Known
<1>2. CASE Refuse(l) /\ UNCHANGED vol
  BY <1>1, <1>2, RefuseIInv DEF docker
<1>3. CASE /\ StateValid(l)
           /\ vol' = [vol EXCEPT ![mem[l].mode] = IF @ = "none" THEN "ours" ELSE @]
           /\ Goto(l, "compose")
           /\ vlock' = Unlocked(vlock, l)
           /\ UNCHANGED <<mem, plock>>
  <2>1. Moved(l, "compose", mem[l])
    <3>1. vlock' \in [Volume -> Launcher \cup {None}]
      BY <1>3, UnlockedOthers DEF IInv, Control
    <3>2. "compose" \in Points
      BY DEF Points
    <3> QED
      BY <1>1, <1>3, <3>1, <3>2 DEF Moved, IInv, Control, Goto
  <2>2. /\ vol' \in [Volume -> {"none", "ours", "foreign"}]
        /\ \A v \in Volume : vol'[v] = "foreign" => vol[v] = "foreign"
        /\ \A v \in Volume : vol[v] = "ours" => vol'[v] = "ours"
    BY <1>3 DEF IInv, Machine
  <2>3. Machine'
    BY <1>1, <2>2 DEF IInv, Machine, world
  <2>4. Images'
    BY <1>1 DEF IInv, Images, world
  <2>5. HomeOwned'
    <3>1. \A p \in Project : box[p].vol \in Volume
      BY DEF IInv, Machine, Box
    <3> QED
      BY <1>1, <2>2, <3>1 DEF IInv, HomeOwned
  <2>6. Known(l)'
    <3>1. Here(l)' = Here(l)
      BY <1>1 DEF Here
    <3>2. Replaceable(l)'
      BY <1>1, <2>1, <3>1, HereIs DEF Moved, Known, Replaceable
    <3> QED
      BY <1>1, <1>3, <2>1, <2>2, <3>2, CreationKnown
  <2>7. local <= local'
    BY <1>1 DEF IInv, Machine
  <2> QED
    BY <1>1, <2>1, <2>2, <2>3, <2>4, <2>5, <2>6, <2>7, Stepped
<1> QED
  BY <1>2, <1>3 DEF EnsureState

\* Compose up or create keeps the invariant.
LEMMA ComposeUpIInv == ASSUME IInv, NEW l \in Launcher, ComposeUp(l) PROVE IInv'
<1>1. pc[l] = "compose" /\ UNCHANGED <<proj, vol, local, conf, registry, events>>
  BY DEF ComposeUp, world
<1>2. CASE UpRefused(l) /\ Refuse(l) /\ UNCHANGED <<box, lastId>>
  BY <1>1, <1>2, RefuseIInv DEF docker, world
<1>3. CASE ~UpRefused(l)
  <2>1. PICK point \in {"wait", "ok"}, m \in Memory : Moved(l, point, m)
    <3>1. CASE ContinueUnlocked(l, "wait")
      BY <1>1, <3>1, UnlockedMoves, HereIs DEF Points
    <3>2. CASE Finish(l, "ok")
      BY <1>1, <3>2, FinishMoves, BlankIsMemory, HereIs
    <3> QED
      BY <1>3, <3>1, <3>2 DEF ComposeUp
  <2>2. Known(l)'
    BY <2>1, KnownFree DEF Moved
  <2>3. vol[mem[l].mode] = "ours" /\ mem[l].mode \in Volume
    BY <1>1, <1>3, HereIs DEF UpRefused, Known, Validated, IInv, Machine
  <2>4. CASE UpToDate(l)
    <3> DEFINE nb == IF mem[l].cmd = "create" THEN Here(l) ELSE Started(Here(l))
    <3>1. box' = [box EXCEPT ![proj[l]] = nb] /\ lastId' = lastId
      BY <1>3, <2>4 DEF ComposeUp, Here
    <3>2. /\ nb \in Box /\ nb.image <= local
          /\ nb.st # "none" /\ nb.own => vol[nb.vol] = "ours"
      BY HereIs, StartedIs
    <3>3. lastId' \in Nat
      BY <3>1 DEF IInv, Machine
    <3> HIDE DEF nb
    <3> QED
      BY <1>1, <2>1, <2>2, <3>1, <3>2, <3>3, BoxStep
  <2>5. CASE ~UpToDate(l)
    <3> DEFINE st == IF mem[l].cmd = "create" THEN "exited" ELSE "running"
               nb == [st |-> st, id |-> lastId + 1, own |-> TRUE, image |-> local,
                      conf |-> conf[proj[l]], vol |-> mem[l].mode, ready |-> FALSE]
    <3>1. box' = [box EXCEPT ![proj[l]] = nb] /\ lastId' = lastId + 1 /\ lastId < MaxId
      BY <1>3, <2>5 DEF ComposeUp
    <3>2. MaxId \in Nat
      BY ConstantsAssumption
    <3>3. lastId' \in Nat /\ lastId + 1 \in 0..MaxId
      BY <3>1, <3>2 DEF IInv, Machine
    <3>4. nb \in Box /\ nb.image = local /\ nb.vol = mem[l].mode
      <4>1. st \in {"none", "exited", "running", "suspended"}
        OBVIOUS
      <4> HIDE DEF st
      <4> QED
        BY <2>3, <3>3, <4>1, HereIs DEF Box
    <3>5. nb.image <= local
      BY <3>4, HereIs
    <3> HIDE DEF nb
    <3> QED
      BY <1>1, <2>1, <2>2, <2>3, <3>1, <3>3, <3>4, <3>5, BoxStep
  <2> QED
    BY <2>4, <2>5
<1> QED
  BY <1>2, <1>3 DEF ComposeUp

\* The wait for a ready container keeps the invariant.
LEMMA WaitReadyIInv == ASSUME IInv, NEW l \in Launcher, WaitReady(l) PROVE IInv'
BY RefuseIInv, ContinueFree DEF WaitReady

\* The inspection before attaching keeps the invariant.
LEMMA AttachStartedIInv == ASSUME IInv, NEW l \in Launcher, AttachStarted(l) PROVE IInv'
<1>1. UNCHANGED <<proj, docker, world>>
  BY DEF AttachStarted
<1>2. CASE Refuse(l)
  BY <1>1, <1>2, RefuseIInv
<1>3. CASE Remember(l, "attach", Inspected(l))
  <2>1. Inspected(l) \in Memory
    BY HereIs DEF Inspected, Memory
  <2>2. Moved(l, "attach", Inspected(l))
    BY <1>1, <1>3, <2>1, RememberMoves, HereIs DEF Points
  <2>3. Known(l)'
    BY <2>2, KnownFree DEF Moved
  <2> QED
    BY <1>1, <2>2, <2>3, QuietWorld
<1> QED
  BY <1>2, <1>3 DEF AttachStarted

\* Taking the lock of the private volume keeps the invariant.
LEMMA LockRemovalIInv == ASSUME IInv, NEW l \in Launcher, LockRemoval(l) PROVE IInv'
<1>1. /\ pc[l] = "lockRemoval" /\ plock[proj[l]] = l
      /\ UNCHANGED <<proj, mem, plock, docker, world>>
  BY HereIs DEF LockRemoval, Known
<1>2. Moved(l, "planRemoval", mem[l])
  BY LockMoves DEF LockRemoval, Points, Volume
<1>3. mem[l].cmd \in {"down", "down -v"}
  BY <1>1, HereIs DEF Known, Programs
<1>4. Known(l)'
  BY <1>1, <1>2, <1>3 DEF Moved, Known, Programs, Stays, Validated, Replaceable
<1> QED
  BY <1>1, <1>2, <1>4, QuietWorld

\* The plan of down -v keeps the invariant.
LEMMA PlanRemovalIInv == ASSUME IInv, NEW l \in Launcher, PlanRemoval(l) PROVE IInv'
<1>1. /\ pc[l] = "planRemoval" /\ plock[proj[l]] = l
      /\ UNCHANGED <<proj, docker, world>>
  BY HereIs DEF PlanRemoval, Known
<1>2. CASE Refuse(l)
  BY <1>1, <1>2, RefuseIInv
<1>3. CASE Continue(l, IF RemovesState(l) THEN "composeDownState" ELSE "composeDown")
  <2> DEFINE point == IF RemovesState(l) THEN "composeDownState" ELSE "composeDown"
  <2>1. /\ point \in {"composeDownState", "composeDown"} /\ point \in Points
        /\ point = "composeDownState" =>
              mem[l].mode = "private" /\ vol[mem[l].mode] # "foreign"
    BY DEF Points, RemovesState
  <2> HIDE DEF point
  <2>2. Moved(l, point, mem[l]) /\ plock' = plock
    BY <1>1, <1>3, <2>1, ContinueMoves, HereIs DEF point
  <2>3. mem[l].cmd \in {"down", "down -v"}
    BY <1>1, HereIs DEF Known, Programs
  <2>4. Known(l)'
    BY <1>1, <2>1, <2>2, <2>3
       DEF Moved, Known, Programs, Stays, Validated, Replaceable, docker
  <2> QED
    BY <1>1, <2>2, <2>4, QuietWorld
<1> QED
  BY <1>2, <1>3 DEF PlanRemoval

\* Compose down keeps the invariant.
LEMMA ComposeDownIInv == ASSUME IInv, NEW l \in Launcher, ComposeDown(l) PROVE IInv'
<1> DEFINE nb == IF Here(l).own THEN NoBox ELSE Here(l)
<1>1. /\ pc[l] \in {"composeDown", "composeDownState"}
      /\ UNCHANGED <<proj, vol, local, lastId, conf, registry, events>>
      /\ box' = [box EXCEPT ![proj[l]] = nb]
  BY DEF ComposeDown, world, Here
<1>2. lastId' \in Nat
  BY <1>1 DEF IInv, Machine
<1>3. /\ nb \in Box /\ nb.image <= local
      /\ nb.st # "none" /\ nb.own => vol[nb.vol] = "ours"
  <2>1. NoBox.st = "none" /\ NoBox.image = 0
    BY DEF NoBox
  <2> QED
    BY <2>1, NoBoxIsBox, HereIs
<1> HIDE DEF nb
<1>4. CASE Finish(l, "ok")
  <2>1. Moved(l, "ok", Blank)
    BY <1>1, <1>4, FinishMoves, HereIs
  <2>2. Known(l)'
    BY <2>1, KnownFree DEF Moved
  <2> QED
    BY <1>1, <1>2, <1>3, <2>1, <2>2, BoxStep
<1>5. CASE pc[l] = "composeDownState" /\ Continue(l, "removeState")
  <2>1. Moved(l, "removeState", mem[l])
    BY <1>1, <1>5, ContinueMoves, HereIs DEF Points
  <2>2. mem[l].mode = "private" /\ vol[mem[l].mode] # "foreign"
    BY <1>5, HereIs DEF Known, Programs, Validated
  <2>3. Known(l)'
    BY <1>1, <2>1, <2>2 DEF Moved, Known, Programs, Stays, Validated, Replaceable
  <2> QED
    BY <1>1, <1>2, <1>3, <2>1, <2>3, BoxStep
<1> QED
  BY <1>4, <1>5 DEF ComposeDown

\* The removal of a volume keeps the invariant.
LEMMA RemoveStateIInv == ASSUME IInv, NEW l \in Launcher, RemoveState(l) PROVE IInv'
<1>1. pc[l] = "removeState" /\ UNCHANGED <<proj, box, local, lastId, world>>
  BY DEF RemoveState
<1>2. CASE Refuse(l) /\ UNCHANGED vol
  BY <1>1, <1>2, RefuseIInv DEF docker
<1>3. CASE /\ References(mem[l].mode) = {}
           /\ vol' = [vol EXCEPT ![mem[l].mode] = "none"] /\ Finish(l, "ok")
  <2>1. Moved(l, "ok", Blank)
    BY <1>1, <1>3, FinishMoves, HereIs
  <2>2. Known(l)'
    BY <2>1, KnownFree DEF Moved
  <2>3. /\ vol' \in [Volume -> {"none", "ours", "foreign"}]
        /\ \A v \in Volume : vol'[v] = "foreign" => vol[v] = "foreign"
        /\ \A v \in Volume : v # mem[l].mode => vol'[v] = vol[v]
    BY <1>3 DEF IInv, Machine
  <2>4. Machine'
    BY <1>1, <2>3 DEF IInv, Machine, world
  <2>5. Images'
    BY <1>1 DEF IInv, Images, world
  <2>6. HomeOwned'
    <3>1. \A p \in Project : box[p].vol \in Volume
      BY DEF IInv, Machine, Box
    <3>2. \A p \in Project : box[p].st # "none" /\ box[p].own => box[p].vol # mem[l].mode
      BY <1>3 DEF References
    <3> QED
      BY <1>1, <2>3, <3>1, <3>2 DEF IInv, HomeOwned
  <2>7. local <= local'
    BY <1>1 DEF IInv, Machine
  <2> QED
    BY <1>1, <2>1, <2>2, <2>3, <2>4, <2>5, <2>6, <2>7, Stepped
<1> QED
  BY <1>2, <1>3 DEF RemoveState

\* Taking the lock of state rm keeps the invariant.
LEMMA LockVolumeIInv == ASSUME IInv, NEW l \in Launcher, LockVolume(l) PROVE IInv'
<1>1. pc[l] = "lockVolume" /\ UNCHANGED <<proj, mem, plock, docker, world>>
  BY DEF LockVolume
<1>2. Moved(l, "inspectVolume", mem[l])
  BY HereIs, LockMoves DEF LockVolume, Points
<1>3. mem[l].cmd = "state rm"
  BY <1>1, HereIs DEF Known, Programs
<1>4. Known(l)'
  BY <1>2, <1>3 DEF Moved, Known, Programs, Stays, Validated, Replaceable
<1> QED
  BY <1>1, <1>2, <1>4, QuietWorld

\* The inspection of state rm keeps the invariant.
LEMMA InspectVolumeIInv == ASSUME IInv, NEW l \in Launcher, InspectVolume(l) PROVE IInv'
<1>1. pc[l] = "inspectVolume" /\ UNCHANGED <<proj, docker, world>>
  BY DEF InspectVolume
<1>2. CASE Finish(l, "ok") \/ Refuse(l)
  <2>1. events' \in 0..MaxEvents /\ UNCHANGED <<conf, registry>>
    BY <1>1 DEF IInv, Machine, world
  <2> QED
    BY <1>1, <1>2, <2>1, FinishIInv DEF Refuse
<1>3. CASE Removable(mem[l].mode) /\ Continue(l, "removeState")
  <2>1. Moved(l, "removeState", mem[l])
    BY <1>1, <1>3, ContinueMoves, HereIs DEF Points
  <2>2. mem[l].cmd = "state rm" /\ vol[mem[l].mode] # "foreign"
    BY <1>1, <1>3, HereIs DEF Known, Programs, Removable
  <2>3. Known(l)'
    BY <1>1, <2>1, <2>2 DEF Moved, Known, Programs, Stays, Validated, Replaceable, docker
  <2> QED
    BY <1>1, <2>1, <2>3, QuietWorld
<1> QED
  BY <1>2, <1>3 DEF InspectVolume

-----------------------------------------------------------------------------
(* The world around the launchers.                                         *)

\* The world changes whether a container runs, and puts one where there is none;
\* it neither replaces a container nor starts a stopped one.
LEMMA WorldStep ==
    ASSUME IInv, NEW p \in Project, NEW nb \in Box, box' = [box EXCEPT ![p] = nb],
           UNCHANGED <<process, proj, vol, local, conf, registry>>, lastId' \in Nat,
           events' \in 0..MaxEvents,
           box[p].st # "none" =>
               /\ nb.st # "none" /\ nb.id = box[p].id /\ nb.own = box[p].own
               /\ nb.image = box[p].image /\ nb.conf = box[p].conf
               /\ nb.vol = box[p].vol /\ (box[p].st = "exited" => nb.st = "exited"),
           box[p].st = "none" => ~nb.own /\ nb.image = 0
    PROVE  IInv'
<1>1. box' \in [Project -> Box] /\ box'[p] = nb /\ \A q \in Project : q # p => box'[q] = box[q]
  BY DEF IInv, Machine
<1>2. Control'
  BY DEF IInv, Control, process
<1>3. Machine'
  BY <1>1 DEF IInv, Machine
<1>4. Images'
  <2>1. box'[p].image <= local
    BY <1>1 DEF IInv, Images, Machine
  <2> QED
    BY <1>1, <2>1 DEF IInv, Images
<1>5. HomeOwned'
  BY <1>1 DEF IInv, HomeOwned
<1>6. ASSUME NEW l \in Launcher PROVE Known(l)'
  <2>1. pc'[l] = pc[l] /\ mem'[l] = mem[l] /\ plock' = plock /\ proj' = proj
    BY DEF process
  <2>2. proj[l] \in Project /\ Here(l) = box[proj[l]] /\ Here(l)' = box'[proj[l]]
    BY <2>1 DEF Here, IInv, Control
  <2>3. CASE proj[l] # p
    <3>1. Here(l)' = Here(l)
      BY <1>1, <2>2, <2>3
    <3>2. local <= local'
      BY DEF IInv, Machine
    <3> QED
      BY <1>3, <2>1, <2>2, <3>1, <3>2, HereIs, Undisturbed DEF IInv
  <2>4. CASE proj[l] = p
    <3>1. /\ Here(l).st # "none" =>
                /\ Here(l)'.st # "none" /\ Here(l)'.id = Here(l).id
                /\ Here(l)'.own = Here(l).own /\ Here(l)'.image = Here(l).image
                /\ Here(l)'.conf = Here(l).conf
                /\ Here(l).st = "exited" => Here(l)'.st = "exited"
          /\ Here(l).st = "none" => ~Here(l)'.own
      BY <1>1, <2>2, <2>4
    <3>0. Known(l)
      BY HereIs
    <3>2. Programs(l)'
      BY <2>1, <3>0 DEF Known, Programs
    <3>5. Validated(l)'
      BY <2>1, HereIs DEF Known, Validated
    <3>3. Stays(l)'
      BY <2>1, <3>1, HereIs DEF Known, Stays
    <3>4. Replaceable(l)'
      BY <2>1, <3>1, HereIs DEF Known, Stays, Replaceable, Refreshed, Pulled
    <3> QED
      BY <2>1, <3>2, <3>3, <3>4, <3>5, HereIs DEF Known
  <2> QED
    BY <2>3, <2>4
<1> QED
  BY <1>2, <1>3, <1>4, <1>5, <1>6 DEF IInv

\* A step of the world on a container that is there.
LEMMA ContainerStep ==
    ASSUME IInv, NEW p \in Project, box[p].st \in {"running", "suspended"},
           NEW st \in {"running", "suspended"}, NEW r \in BOOLEAN,
           box' = [box EXCEPT ![p] = [box[p] EXCEPT !.st = st, !.ready = r]],
           UNCHANGED <<process, proj, vol, local, lastId, conf, registry>>,
           events' \in 0..MaxEvents
    PROVE  IInv'
<1> DEFINE nb == [box[p] EXCEPT !.st = st, !.ready = r]
<1>1. /\ box[p] \in Box /\ lastId' \in Nat
      /\ st \in {"exited", "running", "suspended"}
  BY DEF IInv, Machine
<1>2. /\ nb \in Box /\ nb.st = st /\ nb.id = box[p].id /\ nb.own = box[p].own
      /\ nb.image = box[p].image /\ nb.conf = box[p].conf /\ nb.vol = box[p].vol
  BY <1>1 DEF Box
<1> HIDE DEF nb
<1>3. box' = [box EXCEPT ![p] = nb]
  BY DEF nb
<1> QED
  BY <1>1, <1>2, <1>3, WorldStep

\* No launcher sees an edit or a publication before it reads again.
LEMMA UnseenIInv ==
    ASSUME IInv, UNCHANGED <<process, proj, docker>>, conf' \in [Project -> Nat],
           registry' \in Nat, registry <= registry', events' \in 0..MaxEvents
    PROVE  IInv'
<1>1. Control'
  BY DEF IInv, Control, process
<1>2. Machine'
  BY DEF IInv, Machine, docker
<1>3. Images'
  BY DEF IInv, Images, Machine, docker
<1>4. HomeOwned'
  BY DEF IInv, HomeOwned, docker
<1>5. ASSUME NEW l \in Launcher PROVE Known(l)'
  BY HereIs DEF process, docker, Known, Programs, Stays, Validated, Replaceable,
                Refreshed, Pulled, Here
<1> QED
  BY <1>1, <1>2, <1>3, <1>4, <1>5 DEF IInv

\* What happens to containers and configuration keeps the invariant.
LEMMA WorldIInv ==
    ASSUME IInv, NEW p \in Project, World(p) \/ Boot(p) \/ Resume(p) PROVE IInv'
<1>1. box[p] \in Box /\ events \in 0..MaxEvents /\ lastId \in Nat
  BY DEF IInv, Machine
<1>2. CASE Boot(p)
  <2>1. box' = [box EXCEPT ![p] = [box[p] EXCEPT !.st = "running", !.ready = TRUE]]
    BY <1>1, <1>2 DEF Boot, IInv, Machine, Box
  <2> QED
    BY <1>1, <1>2, <2>1, ContainerStep DEF Boot, world
<1>3. CASE Suspend(p)
  <2>1. box' = [box EXCEPT ![p] = [box[p] EXCEPT !.st = "suspended", !.ready = FALSE]]
    BY <1>1, <1>3 DEF Suspend, IInv, Machine
  <2> QED
    BY <1>1, <1>3, <2>1, ContainerStep, EventCounted DEF Suspend, IInv
<1>4. CASE Resume(p)
  <2>1. box[p].ready \in BOOLEAN
    BY <1>1 DEF Box
  <2>2. box' = [box EXCEPT ![p] = [box[p] EXCEPT !.st = "running", !.ready = box[p].ready]]
    BY <1>1, <1>4 DEF Resume, IInv, Machine, Box
  <2> QED
    BY <1>1, <1>4, <2>1, <2>2, ContainerStep DEF Resume, world
<1>5. CASE SessionExits(p)
  <2>1. box' = [box EXCEPT ![p] = [box[p] EXCEPT !.st = "running", !.ready = FALSE]]
    BY <1>1, <1>5 DEF SessionExits, IInv, Machine, Box
  <2> QED
    BY <1>1, <1>5, <2>1, ContainerStep, EventCounted DEF SessionExits, IInv
<1>6. CASE ForeignAppears(p)
  <2> DEFINE nb == [NoBox EXCEPT !.st = "running", !.own = FALSE, !.id = lastId + 1]
  <2>1. MaxId \in Nat
    BY ConstantsAssumption
  <2>2. lastId' \in Nat /\ lastId + 1 \in 0..MaxId
    BY <1>1, <1>6, <2>1 DEF ForeignAppears
  <2>3. nb \in Box /\ ~nb.own /\ nb.image = 0
    BY <2>2 DEF NoBox, Box, Volume
  <2>4. /\ box' = [box EXCEPT ![p] = nb] /\ box[p].st = "none"
        /\ UNCHANGED <<process, proj, vol, local, conf, registry>>
        /\ events' \in 0..MaxEvents
    BY <1>6, EventCounted DEF ForeignAppears, IInv
  <2> HIDE DEF nb
  <2> QED
    BY <2>2, <2>3, <2>4, WorldStep
<1>7. CASE EditConfiguration(p)
  <2>1. /\ conf' \in [Project -> Nat] /\ events' \in 0..MaxEvents
        /\ UNCHANGED <<process, proj, docker, registry>>
    BY <1>7, EventCounted DEF EditConfiguration, IInv, Machine
  <2>2. registry' \in Nat /\ registry <= registry'
    BY <2>1 DEF IInv, Machine
  <2> QED
    BY <2>1, <2>2, UnseenIInv
<1> QED
  BY <1>2, <1>3, <1>4, <1>5, <1>6, <1>7 DEF World

\* The publication of an image keeps the invariant.
LEMMA PublishImageIInv == ASSUME IInv, PublishImage PROVE IInv'
<1>1. /\ registry' \in Nat /\ registry <= registry' /\ events' \in 0..MaxEvents
      /\ UNCHANGED <<process, proj, docker, conf>>
  BY EventCounted DEF PublishImage, IInv, Machine
<1> QED
  BY <1>1, UnseenIInv DEF IInv, Machine

\* The death of a launcher keeps the invariant.
LEMMA KillIInv == ASSUME IInv, NEW l \in Launcher, Kill(l) PROVE IInv'
BY EventCounted, FinishIInv DEF Kill, Refuse, IInv

-----------------------------------------------------------------------------
(* Invariance.                                                             *)

\* The initial states satisfy the invariant.
LEMMA InitIInv == Init => IInv
<1> SUFFICES ASSUME Init PROVE IInv
  OBVIOUS
<1>1. /\ Deployed \subseteq Box /\ \A b \in Deployed : b.image <= 1
      /\ InitialVolumes \subseteq [Volume -> {"none", "ours", "foreign"}]
      /\ MaxEvents \in Nat
  BY ConstantsAssumption
<1>2. /\ pc = [l \in Launcher |-> "idle"] /\ proj \in [Launcher -> Project]
      /\ mem = [l \in Launcher |-> Blank]
      /\ plock = [p \in Project |-> None] /\ vlock = [v \in Volume |-> None]
  BY DEF Init
<1>3. /\ box \in [Project -> Deployed \cup {NoBox}] /\ vol \in InitialVolumes
      /\ conf = [p \in Project |-> 1] /\ registry = 1 /\ local \in {0, 1}
      /\ \A p \in Project : box[p].image = 1 => local = 1
      /\ lastId = 2 /\ events = 0
  BY DEF Init
<1>4. Control
  <2>1. "idle" \in Points
    BY DEF Points
  <2> QED
    BY <1>2, <2>1, BlankIsMemory DEF Control
<1>5. box \in [Project -> Box]
  BY <1>1, <1>3, NoBoxIsBox
<1>6. Machine
  BY <1>1, <1>3, <1>5 DEF Machine
<1>7. Images
  <2>1. ASSUME NEW p \in Project PROVE box[p].image <= local
    <3>1. box[p].image \in Nat
      BY <1>5 DEF Box
    <3>2. box[p].image <= 1
      <4>1. NoBox.image <= 1
        BY DEF NoBox
      <4>2. box[p] \in Deployed \cup {NoBox}
        BY <1>3
      <4> QED
        BY <1>1, <4>1, <4>2
    <3>3. box[p].image = 0 \/ box[p].image = 1
      BY <3>1, <3>2
    <3> QED
      BY <1>3, <3>3
  <2> QED
    BY <1>3, <2>1 DEF Images
<1>8. HomeOwned
  BY DEF Init, HomeOwned
<1>9. ASSUME NEW l \in Launcher PROVE Known(l)
  <2>1. pc[l] = "idle"
    BY <1>2
  <2> QED
    BY <2>1 DEF Known, Programs, Stays, Validated, Replaceable
<1> QED
  BY <1>4, <1>6, <1>7, <1>8, <1>9 DEF IInv

\* Every step of a launcher keeps the invariant.
LEMMA StepIInv == ASSUME IInv, NEW l \in Launcher, Step(l) PROVE IInv'
<1>1. CASE CheckSession(l) \/ Attach(l) \/ LockRecover(l) \/ Recover(l)
           \/ LockProject(l) \/ InspectLocked(l)
  BY <1>1, CheckSessionIInv, AttachIInv, LockRecoverIInv, RecoverIInv, LockProjectIInv,
     InspectLockedIInv
<1>2. CASE StartNamed(l) \/ ComposeRun(l) \/ PullOnly(l) \/ TransferEnds(l)
  BY <1>2, StartNamedIInv, ComposeRunIInv, PullOnlyIInv, TransferEndsIInv
<1>3. CASE StartStopped(l) \/ PullStopped(l) \/ RecheckPulled(l) \/ RenderFinal(l)
           \/ RecheckFinal(l) \/ RecheckOriginal(l) \/ StartOriginal(l)
  BY <1>3, StartStoppedIInv, PullStoppedIInv, RecheckPulledIInv, RenderFinalIInv,
     RecheckFinalIInv, RecheckOriginalIInv, StartOriginalIInv
<1>4. CASE Render(l) \/ SelectImage(l) \/ RecheckNew(l) \/ LockState(l)
           \/ EnsureState(l) \/ ComposeUp(l) \/ WaitReady(l) \/ AttachStarted(l)
  BY <1>4, RenderIInv, SelectImageIInv, RecheckNewIInv, LockStateIInv, EnsureStateIInv,
     ComposeUpIInv, WaitReadyIInv, AttachStartedIInv
<1>5. CASE LockRemoval(l) \/ PlanRemoval(l) \/ ComposeDown(l) \/ RemoveState(l)
           \/ LockVolume(l) \/ InspectVolume(l)
  BY <1>5, LockRemovalIInv, PlanRemovalIInv, ComposeDownIInv, RemoveStateIInv,
     LockVolumeIInv, InspectVolumeIInv
<1> QED
  BY <1>1, <1>2, <1>3, <1>4, <1>5 DEF Step

\* Every step keeps the invariant.
LEMMA NextIInv == IInv /\ [Next]_vars => IInv'
<1> SUFFICES ASSUME IInv, [Next]_vars PROVE IInv'
  OBVIOUS
<1>1. CASE UNCHANGED vars
  <2>1. /\ UNCHANGED <<process, proj, docker>> /\ conf' = conf /\ registry' = registry
        /\ events' = events
    BY <1>1 DEF vars, world
  <2>2. /\ conf' \in [Project -> Nat] /\ registry' \in Nat /\ registry <= registry'
        /\ events' \in 0..MaxEvents
    BY <2>1 DEF IInv, Machine
  <2> QED
    BY <2>1, <2>2, UnseenIInv
<1>2. ASSUME NEW l \in Launcher, Begin(l) \/ Step(l) \/ Kill(l) PROVE IInv'
  BY <1>2, BeginIInv, StepIInv, KillIInv
<1>3. ASSUME NEW p \in Project, World(p) \/ Boot(p) \/ Resume(p) PROVE IInv'
  BY <1>3, WorldIInv
<1> QED
  BY <1>1, <1>2, <1>3, PublishImageIInv DEF Next, Finished

\* In every behaviour of the launchers, at every point of launch.go, startup.go
\* and state.go: who holds the project lock, what the container is, and what is
\* known of its volume and its image.
THEOREM Invariance == Spec => []IInv
<1>1. Init => IInv
  BY InitIInv
<1>2. IInv /\ [Next]_vars => IInv'
  BY NextIInv
<1> QED
  BY <1>1, <1>2, PTL DEF Spec

\* The variables keep their types.
THEOREM TypeCorrect == Spec => []TypeOK
<1>1. IInv => TypeOK
  BY DEF IInv, Control, Machine, Memory, TypeOK
<1> QED
  BY <1>1, Invariance, PTL

\* The home of every workstation is a volume with exact ownership labels,
\* whatever commands ensure, remove and mount volumes concurrently (state.go).
THEOREM HomesOwned == Spec => []HomeOwned
<1>1. IInv => HomeOwned
  BY DEF IInv
<1> QED
  BY <1>1, Invariance, PTL

\* A session transfer works on the container that it inspected (session.go).
THEOREM TransferStable == Spec => []TransferTargetStable
<1>1. IInv => TransferTargetStable
  BY DEF IInv, Known, Stays, TransferTargetStable
<1> QED
  BY <1>1, Invariance, PTL

-----------------------------------------------------------------------------
(* What a step may do to a container and to a volume.                      *)

\* Steps of a launcher that may change its project's container.
Touching(l) ==
    \/ Recover(l) \/ StartNamed(l) \/ StartOriginal(l)
    \/ ComposeRun(l) \/ ComposeUp(l) \/ ComposeDown(l)

\* No other step of a launcher changes a container.
LEMMA NotTouching ==
    ASSUME NEW l \in Launcher, Begin(l) \/ Step(l) \/ Kill(l), ~Touching(l)
    PROVE  box' = box
<1>1. CASE Begin(l) \/ Kill(l)
  BY <1>1 DEF Begin, Kill, docker
<1>2. CASE CheckSession(l) \/ Attach(l) \/ LockRecover(l) \/ LockProject(l)
           \/ InspectLocked(l) \/ PullOnly(l) \/ TransferEnds(l)
  BY <1>2 DEF CheckSession, Attach, LockRecover, LockProject, InspectLocked, PullOnly,
              TransferEnds, docker
<1>3. CASE StartStopped(l) \/ PullStopped(l) \/ RecheckPulled(l) \/ RenderFinal(l)
           \/ RecheckFinal(l) \/ RecheckOriginal(l)
  BY <1>3 DEF StartStopped, PullStopped, RecheckPulled, RenderFinal, RecheckFinal,
              RecheckOriginal, docker
<1>4. CASE Render(l) \/ SelectImage(l) \/ RecheckNew(l) \/ LockState(l)
           \/ EnsureState(l) \/ WaitReady(l) \/ AttachStarted(l)
  BY <1>4 DEF Render, SelectImage, RecheckNew, LockState, EnsureState, WaitReady,
              AttachStarted, docker
<1>5. CASE LockRemoval(l) \/ PlanRemoval(l) \/ RemoveState(l) \/ LockVolume(l)
           \/ InspectVolume(l)
  BY <1>5 DEF LockRemoval, PlanRemoval, RemoveState, LockVolume, InspectVolume, docker
<1> QED
  BY <1>1, <1>2, <1>3, <1>4, <1>5 DEF Touching, Step

\* The world neither replaces a container nor ends one.
LEMMA WorldKeeps ==
    ASSUME IInv, NEW q \in Project, World(q) \/ Boot(q) \/ Resume(q), NEW p \in Project
    PROVE  /\ pc' = pc
           /\ box[p].st # "none" => box'[p].id = box[p].id
           /\ box[p].st = "running" => box'[p].st # "exited"
<1>1. box \in [Project -> Box]
  BY DEF IInv, Machine
<1>3. pc' = pc
  BY DEF World, Boot, Resume, Suspend, SessionExits, EditConfiguration, ForeignAppears,
         process
<1>4. CASE Boot(q) \/ SessionExits(q)
  <2>1. PICK r \in BOOLEAN : box' = [box EXCEPT ![q] = [box[q] EXCEPT !.ready = r]]
    BY <1>4 DEF Boot, SessionExits
  <2>2. box'[p] = box[p] \/ box'[p] = [box[p] EXCEPT !.ready = r]
    BY <1>1, <2>1
  <2>3. box[p] \in Box
    BY <1>1
  <2>4. [box[p] EXCEPT !.ready = r].id = box[p].id /\ [box[p] EXCEPT !.ready = r].st = box[p].st
    BY <2>3 DEF Box
  <2> QED
    BY <1>3, <2>2, <2>4
<1>5. CASE Suspend(q) \/ Resume(q)
  <2>1. PICK nb \in {[box[q] EXCEPT !.st = "running"],
                      [box[q] EXCEPT !.st = "suspended", !.ready = FALSE]} :
            box' = [box EXCEPT ![q] = nb]
    BY <1>1, <1>5 DEF Suspend, Resume
  <2>2. box[q] \in Box
    BY <1>1
  <2>3. nb.id = box[q].id /\ nb.st # "exited"
    BY <2>2 DEF Box
  <2> QED
    BY <1>1, <1>3, <2>1, <2>3
<1>6. CASE EditConfiguration(q)
  BY <1>3, <1>6 DEF EditConfiguration, docker
<1>7. CASE ForeignAppears(q)
  BY <1>1, <1>3, <1>7 DEF ForeignAppears
<1> QED
  BY <1>4, <1>5, <1>6, <1>7 DEF World

\* A launcher that touches a container is the only one that moves, and touches
\* its own project's.
LEMMA TouchingMoves ==
    ASSUME IInv, NEW l \in Launcher, Touching(l)
    PROVE  /\ pc'[l] # pc[l] /\ \A k \in Launcher : k # l => pc'[k] = pc[k]
           /\ \A p \in Project : p # proj[l] => box'[p] = box[p]
<1>1. pc \in [Launcher -> Points] /\ box \in [Project -> Box]
  BY DEF IInv, Control, Machine
<1>2. ASSUME NEW point,
             Finish(l, point) \/ Continue(l, point) \/ ContinueUnlocked(l, point)
      PROVE  pc' = [pc EXCEPT ![l] = point]
  BY <1>2 DEF Finish, Continue, Remember, ContinueUnlocked, Goto
<1>3. CASE Recover(l) \/ StartNamed(l) \/ StartOriginal(l)
  <2>1. \/ pc' = [pc EXCEPT ![l] = "attach"] \/ pc' = [pc EXCEPT ![l] = "wait"]
        \/ pc' = [pc EXCEPT ![l] = "ok"] \/ pc' = [pc EXCEPT ![l] = "failed"]
    BY <1>2, <1>3 DEF Recover, StartNamed, StartOriginal, Refuse
  <2>2. pc[l] \in {"recover", "startNamed", "startOriginal"}
    BY <1>3 DEF Recover, StartNamed, StartOriginal
  <2>3. \A p \in Project : p # proj[l] => box'[p] = box[p]
    BY <1>1, <1>3 DEF Recover, StartNamed, StartOriginal
  <2> QED
    BY <1>1, <2>1, <2>2, <2>3
<1>4. CASE ComposeRun(l) \/ ComposeUp(l) \/ ComposeDown(l)
  <2>1. \/ pc' = [pc EXCEPT ![l] = "wait"] \/ pc' = [pc EXCEPT ![l] = "removeState"]
        \/ pc' = [pc EXCEPT ![l] = "ok"] \/ pc' = [pc EXCEPT ![l] = "failed"]
    BY <1>2, <1>4 DEF ComposeRun, ComposeUp, ComposeDown, Refuse
  <2>2. pc[l] \in {"composeRun", "compose", "composeDown", "composeDownState"}
    BY <1>4 DEF ComposeRun, ComposeUp, ComposeDown
  <2>3. \A p \in Project : p # proj[l] => box'[p] = box[p]
    BY <1>1, <1>4 DEF ComposeRun, ComposeUp, ComposeDown
  <2> QED
    BY <1>1, <2>1, <2>2, <2>3
<1> QED
  BY <1>3, <1>4 DEF Touching

\* Starting a container, and getting it ready, neither replaces nor ends it.
LEMMA GentleTouch ==
    ASSUME IInv, NEW l \in Launcher, Recover(l) \/ StartNamed(l) \/ StartOriginal(l)
    PROVE  /\ box'[proj[l]].id = Here(l).id
           /\ Here(l).st = "running" => box'[proj[l]].st = "running"
           /\ ~Here(l).own => box'[proj[l]] = Here(l)
<1>1. box \in [Project -> Box] /\ proj[l] \in Project
  BY DEF IInv, Machine, Control
<1>2. CASE Recover(l)
  <2> DEFINE nb == [Here(l) EXCEPT !.ready = TRUE]
  <2>1. nb.id = Here(l).id /\ nb.st = Here(l).st
    BY HereIs DEF Box
  <2>2. ~Here(l).own => box' = box
    BY <1>2, HereIs DEF Recover, Known, Stays, Owned
  <2>3. box'[proj[l]] = Here(l) \/ box'[proj[l]] = nb
    BY <1>1, <1>2, HereIs DEF Recover
  <2> HIDE DEF nb
  <2> QED
    BY <2>1, <2>2, <2>3, HereIs
<1>3. CASE StartNamed(l) \/ StartOriginal(l)
  <2>1. Here(l).own
    BY <1>3, HereIs DEF StartNamed, StartOriginal, Known, Stays
  <2>2. box'[proj[l]] = Here(l) \/ box'[proj[l]] = Started(Here(l))
    BY <1>1, <1>3, HereIs DEF StartNamed, StartOriginal
  <2>3. Here(l).st = "running" => Started(Here(l)) = Here(l)
    BY DEF Started
  <2> QED
    BY <2>1, <2>2, <2>3, HereIs, StartedIs
<1> QED
  BY <1>2, <1>3

\* Compose replaces or ends a container only for the commands that ask for it, or
\* for a bare launch that refreshes a stopped one.
LEMMA ComposeTouch ==
    ASSUME IInv, NEW l \in Launcher, ComposeRun(l) \/ ComposeUp(l) \/ ComposeDown(l)
    PROVE  /\ ~Here(l).own => box'[proj[l]] = Here(l)
           /\ Here(l).st = "running"
              /\ (box'[proj[l]].id # Here(l).id \/ box'[proj[l]].st = "exited") =>
                  mem[l].cmd \in {"up", "create", "down", "down -v", "stop"}
           /\ mem[l].cmd = "launch" /\ Here(l).st # "none"
              /\ box'[proj[l]].id # Here(l).id =>
                  /\ Here(l).st = "exited" /\ Refreshed(l) /\ mem[l].rend = Here(l).conf
                  /\ box'[proj[l]].image = local /\ box'[proj[l]].conf = conf[proj[l]]
<1>1. box \in [Project -> Box] /\ proj[l] \in Project
  BY DEF IInv, Machine, Control
<1>2. CASE ComposeRun(l)
  <2>1. mem[l].cmd \in {"stop", "restart"}
    BY <1>2, HereIs DEF ComposeRun, Known, Programs
  <2> DEFINE st == IF mem[l].cmd = "stop" THEN "exited" ELSE "running"
             nb == [Here(l) EXCEPT !.ready = FALSE, !.st = st]
  <2>2. box'[proj[l]] = IF Here(l).st = "none" \/ ~Here(l).own THEN Here(l) ELSE nb
    BY <1>1, <1>2, HereIs DEF ComposeRun
  <2>3. nb.id = Here(l).id /\ nb.st = st
    BY HereIs DEF Box
  <2> HIDE DEF nb
  <2> QED
    BY <2>1, <2>2, <2>3
<1>3. CASE ComposeDown(l)
  <2>1. mem[l].cmd \in {"down", "down -v"}
    BY <1>3, HereIs DEF ComposeDown, Known, Programs
  <2>2. ~Here(l).own => box'[proj[l]] = Here(l)
    BY <1>1, <1>3, HereIs DEF ComposeDown
  <2> QED
    BY <2>1, <2>2
<1>4. CASE ComposeUp(l)
  <2>1. mem[l].cmd \in {"launch", "up", "create"} /\ pc[l] = "compose"
    BY <1>4, HereIs DEF ComposeUp, Known, Programs
  <2>2. CASE UpRefused(l)
    BY <1>4, <2>2, HereIs DEF ComposeUp
  <2>3. CASE ~UpRefused(l) /\ UpToDate(l)
    <3>1. box'[proj[l]] = Here(l) \/ box'[proj[l]] = Started(Here(l))
      BY <1>1, <1>4, <2>3, HereIs DEF ComposeUp
    <3>2. Here(l).st = "running" => Started(Here(l)) = Here(l)
      BY DEF Started
    <3>3. Here(l).own
      BY <2>3 DEF UpRefused
    <3>4. /\ box'[proj[l]].id = Here(l).id
          /\ Here(l).st = "running" => box'[proj[l]].st = "running"
      BY <3>1, <3>2, HereIs, StartedIs
    <3> QED
      BY <3>3, <3>4
  <2>4. CASE ~UpRefused(l) /\ ~UpToDate(l)
    <3>1. box'[proj[l]].image = local /\ box'[proj[l]].conf = conf[proj[l]]
      BY <1>1, <1>4, <2>4 DEF ComposeUp
    <3>2. Here(l).own
      BY <2>4 DEF UpRefused
    <3>3. mem[l].cmd = "launch" =>
            \/ Here(l).st = "none"
            \/ Here(l).st = "exited" /\ Refreshed(l) /\ mem[l].rend = Here(l).conf
      BY <2>1, <3>2, HereIs DEF Known, Replaceable
    <3> QED
      BY <2>1, <3>1, <3>2, <3>3
  <2> QED
    BY <2>2, <2>3, <2>4
<1> QED
  BY <1>2, <1>3, <1>4

\* Only RemoveState makes a volume disappear.
LEMMA VolumeRemoved ==
    ASSUME IInv, NEW v \in Volume, vol'[v] # vol[v], vol'[v] = "none"
    PROVE  /\ \A l \in Launcher : Begin(l) \/ Step(l) \/ Kill(l) => RemoveState(l)
           /\ \A p \in Project : ~(World(p) \/ Boot(p) \/ Resume(p))
<1>1. ASSUME NEW l \in Launcher, Begin(l) \/ Kill(l) PROVE FALSE
  BY <1>1 DEF Begin, Kill, docker
<1>2. ASSUME NEW l \in Launcher, Step(l), ~RemoveState(l) PROVE FALSE
  <2>1. CASE CheckSession(l) \/ Attach(l) \/ LockRecover(l) \/ Recover(l)
             \/ LockProject(l) \/ InspectLocked(l) \/ StartNamed(l) \/ ComposeRun(l)
             \/ PullOnly(l) \/ TransferEnds(l)
    BY <2>1 DEF CheckSession, Attach, LockRecover, Recover, LockProject, InspectLocked,
                StartNamed, ComposeRun, PullOnly, TransferEnds, docker
  <2>2. CASE StartStopped(l) \/ PullStopped(l) \/ RecheckPulled(l) \/ RenderFinal(l)
             \/ RecheckFinal(l) \/ RecheckOriginal(l) \/ StartOriginal(l)
    BY <2>2 DEF StartStopped, PullStopped, RecheckPulled, RenderFinal, RecheckFinal,
                RecheckOriginal, StartOriginal, docker
  <2>3. CASE Render(l) \/ SelectImage(l) \/ RecheckNew(l) \/ LockState(l)
             \/ ComposeUp(l) \/ WaitReady(l) \/ AttachStarted(l)
    BY <2>3 DEF Render, SelectImage, RecheckNew, LockState, ComposeUp, WaitReady,
                AttachStarted, docker
  <2>4. CASE LockRemoval(l) \/ PlanRemoval(l) \/ ComposeDown(l) \/ LockVolume(l)
             \/ InspectVolume(l)
    BY <2>4 DEF LockRemoval, PlanRemoval, ComposeDown, LockVolume, InspectVolume, docker
  <2>5. CASE EnsureState(l)
    <3>1. vol' = vol \/ vol' = [vol EXCEPT ![mem[l].mode] = IF @ = "none" THEN "ours" ELSE @]
      BY <2>5 DEF EnsureState
    <3> QED
      BY <3>1 DEF IInv, Machine
  <2> QED
    BY <1>2, <2>1, <2>2, <2>3, <2>4, <2>5 DEF Step
<1>3. ASSUME NEW p \in Project, World(p) \/ Boot(p) \/ Resume(p) PROVE FALSE
  BY <1>3 DEF World, Boot, Resume, Suspend, SessionExits, EditConfiguration,
              ForeignAppears, docker
<1> QED
  BY <1>1, <1>2, <1>3

\* A running workstation is replaced, removed or stopped only by a command that
\* is asked to, however a launch interleaves with others (startStopped).
THEOREM RunningSurvives == Spec => RunningSurvivesLaunch
<1>1. IInv /\ [Next]_vars => [KeepsRunning]_vars
  <2> SUFFICES ASSUME IInv, Next, NEW p \in Project, box[p].st = "running",
                      Replaced(p) \/ box'[p].st = "exited"
               PROVE  \E l \in Launcher :
                        proj[l] = p
                        /\ Acting(l, {"up", "create", "down", "down -v", "stop"})
    BY DEF KeepsRunning
  <2>1. PICK l \in Launcher : Touching(l)
    <3>1. box' # box
      BY DEF Replaced
    <3> QED
      BY <3>1, NotTouching, WorldKeeps
         DEF Next, PublishImage, Finished, vars, docker, Replaced
  <2>2. proj[l] = p
    BY <2>1, TouchingMoves DEF Replaced
  <2>3. Here(l) = box[p]
    BY <2>2 DEF Here
  <2>4. mem[l].cmd \in {"up", "create", "down", "down -v", "stop"}
    BY <2>1, <2>2, <2>3, GentleTouch, ComposeTouch DEF Touching, Replaced
  <2> QED
    BY <2>1, <2>2, <2>4, TouchingMoves DEF Acting
<1> QED
  BY <1>1, Invariance, PTL DEF Spec, RunningSurvivesLaunch

\* A bare launch replaces only a stopped container, by one with a newer image and
\* the deployed configuration (startStopped).
THEOREM RefreshFaithful == Spec => RefreshKeepsConfiguration
<1>1. IInv /\ [Next]_vars => [ReplacesFaithfully]_vars
  <2> SUFFICES ASSUME IInv, Next, NEW p \in Project, NEW k \in Launcher, Replaced(p),
                      proj[k] = p, Acting(k, {"launch"})
               PROVE  /\ box[p].st = "exited"
                      /\ box'[p].image # box[p].image
                      /\ mem[k].pulled # 0
                      /\ box'[p].conf = box[p].conf \/ conf[p] # mem[k].rend
    BY DEF ReplacesFaithfully
  <2>1. PICK l \in Launcher : Touching(l)
    <3>1. box' # box
      BY DEF Replaced
    <3> QED
      BY <3>1, NotTouching, WorldKeeps
         DEF Next, PublishImage, Finished, vars, docker, Replaced
  <2>2. k = l
    BY <2>1, TouchingMoves DEF Acting
  <2>3. Here(k) = box[p] /\ mem[k].cmd = "launch"
    BY DEF Here, Acting
  <2>4. /\ Here(k).st = "exited" /\ Refreshed(k) /\ mem[k].rend = Here(k).conf
        /\ box'[p].image = local /\ box'[p].conf = conf[p]
    BY <2>1, <2>2, <2>3, GentleTouch, ComposeTouch DEF Touching, Replaced
  <2>5. Here(k).image # local
    BY <2>4, HereIs DEF Refreshed
  <2> QED
    BY <2>3, <2>4, <2>5 DEF Refreshed
<1> QED
  BY <1>1, Invariance, PTL DEF Spec, RefreshKeepsConfiguration

\* No step of a launcher touches a container that merely has the project's name
\* (VerifyContainer).
THEOREM ForeignKept == Spec => ForeignContainerKept
<1>1. IInv /\ [Next]_vars => [KeepsForeign]_vars
  <2> SUFFICES ASSUME IInv, Next, NEW p \in Project, ~box[p].own,
                      NEW k \in Launcher, pc'[k] # pc[k], box'[p] # box[p]
               PROVE  FALSE
    BY DEF KeepsForeign
  <2>1. PICK l \in Launcher : Touching(l)
    BY NotTouching, WorldKeeps DEF Next, PublishImage, Finished, vars, docker, process
  <2>2. proj[l] = p /\ Here(l) = box[p]
    BY <2>1, TouchingMoves DEF Here
  <2> QED
    BY <2>1, <2>2, GentleTouch, ComposeTouch DEF Touching
<1> QED
  BY <1>1, Invariance, PTL DEF Spec, ForeignContainerKept

\* A volume without our labels survives, and the shared one is removed only by
\* state rm (planManagedStateRemoval).
THEOREM StateRemoval == Spec => StateRemovedOnRequest
<1>1. IInv /\ [Next]_vars => [KeepsState]_vars
  <2> SUFFICES ASSUME IInv, Next, NEW v \in Volume, vol'[v] # vol[v], vol'[v] = "none"
               PROVE  /\ vol[v] = "ours"
                      /\ v = "shared" => \E l \in Launcher : Acting(l, {"state rm"})
    BY DEF KeepsState
  <2>1. PICK l \in Launcher : RemoveState(l)
    BY VolumeRemoved DEF Next, PublishImage, Finished, vars, docker
  <2>2. /\ vol' = [vol EXCEPT ![mem[l].mode] = "none"] /\ pc[l] = "removeState"
        /\ pc' = [pc EXCEPT ![l] = "ok"]
    BY <2>1 DEF RemoveState, Finish, Goto
  <2>3. v = mem[l].mode /\ vol[v] # "foreign"
    BY <2>2, HereIs DEF IInv, Machine, Known, Validated
  <2>4. vol[v] = "ours"
    BY <2>3 DEF IInv, Machine
  <2>5. pc'[l] # pc[l]
    BY <2>2 DEF IInv, Control
  <2>6. v = "shared" => mem[l].cmd = "state rm"
    BY <2>2, <2>3, HereIs DEF Known, Programs
  <2> QED
    BY <2>4, <2>5, <2>6 DEF Acting
<1> QED
  BY <1>1, Invariance, PTL DEF Spec, StateRemovedOnRequest

=============================================================================

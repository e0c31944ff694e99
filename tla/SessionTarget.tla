---------------------------- MODULE SessionTarget ----------------------------
(***************************************************************************)
(* How a session command finds the storage it copies from and to            *)
(* (internal/app/session.go, sessiontransport/target.go, config.go and the  *)
(* preparation in docker.go, sessionconfig/sqlite.go).                      *)
(*                                                                         *)
(* Under the project lock the command inspects the workstation, discovers   *)
(* the SQLite home of the host and of the container by reading one          *)
(* configuration file after the other, selects the mounts of a helper       *)
(* container from the workstation's own, and creates and starts the helper  *)
(* between two rechecks.  Users edit configuration meanwhile, and a Docker  *)
(* client that does not know the lock may remove or replace the             *)
(* workstation and its volumes.                                             *)
(*                                                                         *)
(* A path is a sequence of names.  A mount shows the storage at root: a     *)
(* daemon path for a bind; a volume's name and its subpath for a volume.    *)
(***************************************************************************)
EXTENDS Naturals, Sequences, FiniteSets

CONSTANTS
    Home,          \* runtime home in the container
    Codex,         \* the Codex home of each end
    WorkDir,       \* the working directory of each end
    DatabaseName,  \* names of database files and their sidecars
    HostMount,     \* daemon paths where another filesystem is mounted
    Volume,        \* names of volumes
    Scenarios,     \* [request, deployment, config, edits, events]: a command,
                   \* what the workstation was created with, the configuration
                   \* of both ends, and bounds on edits and on foreign events
    Setting,       \* what each configuration file may say
    Probe,         \* the paths at which properties compare storage
    None, Bad      \* nothing set; unreadable or invalid

End == {"host", "container"}

\* Configuration files in the order they are read, the weakest first; the last
\* two are candidates of the project, in the working directory and above it.
Layers == <<"system", "user", "requirements", "managed", "project", "parent">>
Layer == {Layers[i] : i \in 1..Len(Layers)}

NoBox == [id |-> 0, status |-> "none", sound |-> FALSE, mounts |-> {},
          imageVolumes |-> {}]

Path == Seq(STRING)

\* Where the administrator's configuration is.
SystemDirectory == <<"etc", "codex">>

\* A workstation runs, is stopped or paused, or is in a state between them.
Status == {"running", "stopped", "paused", "unsettled"}

MountKind == {"volume", "bind", "nonrecursive", "unsupported"}
MountRecord == [dst : Path, kind : MountKind, root : Path, rw : BOOLEAN]

\* What a configuration file, or the environment, says.
SettingValue == [relative : BOOLEAN, path : Path]
Said == SettingValue \cup {None, Bad}

\* Mounts of a container: no two at one place, and volumes have names.
Mounted(ms) ==
    /\ ms \subseteq MountRecord
    /\ \A m, o \in ms : m.dst = o.dst => m = o
    /\ \A m \in ms : m.kind = "volume" => m.root # <<>> /\ Head(m.root) \in Volume

ASSUME TargetAssumption ==
    /\ None # Bad
    /\ Probe \subseteq Path
    /\ SystemDirectory \in Path
    /\ Home \in Path /\ Codex["container"] = Home \o <<"codex">>
    /\ \A e \in End : Codex[e] \in Path /\ WorkDir[e] \in Path
    /\ \A l \in Layer : Setting[l] \subseteq SettingValue
    /\ \A s \in Scenarios :
        /\ s.edits \in Nat /\ s.events \in Nat
        /\ s.request.op \in {"import", "export"}
        /\ DOMAIN s.request.explicit = End
        /\ \A e \in End : s.request.explicit[e] # None => s.request.explicit[e] \in Path
        /\ s.config \in [End -> [Layer \cup {"env"} -> Said]]
    /\ \A d \in {s.deployment : s \in Scenarios} :
        /\ d.status \in Status /\ d.sound \in BOOLEAN
        /\ Mounted(d.mounts)
        /\ d.foreign \subseteq Volume
        \* Docker gives every volume declared by the image a mount.
        /\ d.imageVolumes \subseteq {m.dst : m \in d.mounts}

VARIABLES
    request,    \* the command: [op, explicit, state]
    pc,
    cand,       \* the workstation as inspected at the beginning
    disc,       \* the discovery in progress: [end, at, path, managed]
    found,      \* the SQLite home discovered at each end
    target,     \* the inspected target
    helper,     \* the helper container and the volume instances it mounts
    box,        \* the workstation
    vol,        \* each volume: [inst, foreign]; inst 0 is absent
    config,     \* the configuration files of each end, and the environment
    lastId,
    edits,      \* edits of configuration files still possible
    events,     \* foreign or failing calls still possible
    origin,     \* instance of every volume when the workstation was inspected
    effective,  \* SQLite homes in force at some time during the discovery
    edited      \* configuration files that changed during the discovery

command == <<request, pc, cand, disc, found, target, helper>>
daemon == <<box, vol, lastId>>
ghosts == <<origin, effective, edited>>
vars == <<command, daemon, config, edits, events, ghosts>>

-----------------------------------------------------------------------------
(* Paths and mounts.                                                       *)

\* contains: child is root or below it.
Contains(root, child) ==
    Len(root) <= Len(child) /\ SubSeq(child, 1, Len(root)) = root

\* The rest of child below root.
Relative(root, child) == SubSeq(child, Len(root) + 1, Len(child))

\* databaseFile, directly in the directory.
DirectDatabase(p, dir) ==
    Contains(dir, p) /\ Len(p) = Len(dir) + 1 /\ p[Len(p)] \in DatabaseName

Covering(ms, p) == {m \in ms : Contains(m.dst, p)}

\* The mount whose storage is visible at p.
BaseMount(ms, p) ==
    CHOOSE m \in Covering(ms, p) :
        \A o \in Covering(ms, p) : Len(o.dst) <= Len(m.dst)

\* Mutant of StorageMounts: mounts below the home are left out.
StorageMountsBase(ms, home, history) == {BaseMount(ms, home)}

\* The mount covering the home and the mounts below it; for a database only
\* those of its own files.
StorageMounts(ms, home, history) ==
    {BaseMount(ms, home)} \cup
    {m \in ms : /\ Contains(home, m.dst)
                /\ history \/ DirectDatabase(m.dst, home)}

\* There is such storage, and all of it can be reproduced: named volumes with
\* clean subpaths, binds with known propagation, recursion and consistency.
StorageUsable(ms, home, history) ==
    /\ Covering(ms, home) # {}
    /\ \A m \in StorageMounts(ms, home, history) : m.kind # "unsupported"

-----------------------------------------------------------------------------
(* inspectTarget.                                                          *)

CodexHome == Codex["container"]

History(c) == StorageMounts(c.mounts, CodexHome, TRUE)

\* Database mounts that the history mounts do not include already.
Separate(c, sqlite) ==
    {m \in StorageMounts(c.mounts, sqlite, FALSE) :
        \A h \in History(c) : h.dst # m.dst}

Narrows(m, sqlite) == Contains(m.dst, sqlite) /\ m.dst # sqlite

\* Mutants of Narrowed: the whole mount is attached, or it stays writable.
NarrowedNot(m, sqlite, writable) == [m EXCEPT !.rw = @ /\ writable]
NarrowedWritable(m, sqlite, writable) ==
    IF Narrows(m, sqlite)
    THEN [m EXCEPT !.dst = sqlite, !.root = @ \o Relative(m.dst, sqlite)]
    ELSE m

\* A separate metadata mount shows no more than the selected directory, and is
\* writable only for an import into writable storage.
Narrowed(m, sqlite, writable) ==
    LET access == m.rw /\ writable IN
    IF Narrows(m, sqlite)
    THEN [m EXCEPT !.dst = sqlite, !.root = @ \o Relative(m.dst, sqlite),
                   !.rw = access]
    ELSE [m EXCEPT !.rw = access]

\* Mutant of Narrowable: a nonrecursive bind is narrowed like any other.
NarrowableAlways(m, sqlite) == TRUE

\* Below a nonrecursive bind a fresh bind could enter a submount that the
\* workstation does not see.
Narrowable(m, sqlite) == Narrows(m, sqlite) => m.kind # "nonrecursive"

\* A supported, settled workstation with complete runtime facts, usable
\* storage for both homes, and a writable Codex home for an import.
Accepted(c, sqlite, writable) ==
    /\ c.sound
    /\ c.status \in {"running", "stopped"}
    /\ sqlite # <<>>
    /\ StorageUsable(c.mounts, CodexHome, TRUE)
    /\ writable => BaseMount(c.mounts, CodexHome).rw
    /\ StorageUsable(c.mounts, sqlite, FALSE)
    /\ \A m \in Separate(c, sqlite) : Narrowable(m, sqlite)

Target(c, sqlite, writable) ==
    [id |-> c.id, sqlite |-> sqlite, writable |-> writable,
     mounts |-> History(c) \cup
                {Narrowed(m, sqlite, writable) : m \in Separate(c, sqlite)}]

VolumesOf(ms) == {Head(m.root) : m \in {n \in ms : n.kind = "volume"}}

\* recheck: the container inspected before is still there and gives the same
\* target, and its volumes exist and belong to no other workspace.
Recheck(t) ==
    /\ box.id = t.id
    /\ Accepted(box, t.sqlite, t.writable)
    /\ Target(box, t.sqlite, t.writable) = t
    /\ \A v \in VolumesOf(t.mounts) : vol[v].inst # 0 /\ ~vol[v].foreign

\* Image volumes that no selected mount covers become small tmpfs mounts; one
\* inside selected storage would hide it.
Uncovered(c, t) == {v \in c.imageVolumes : \A m \in t.mounts : m.dst # v}
ImageVolumesFit(c, t) ==
    \A v \in Uncovered(c, t) : ~Contains(CodexHome, v) /\ ~Contains(t.sqlite, v)

-----------------------------------------------------------------------------
(* The requested state volume (config.go, state.go).                       *)

StateConflict(s) ==
    (s.private = "true" /\ s.named) \/ (s.flagPrivate /\ s.flagNamed)

StateSpecified(s) == s.private # "unset" \/ s.named \/ s.flagPrivate \/ s.flagNamed

StateVolumeName(s) ==
    IF s.flagNamed THEN "flag"
    ELSE IF s.flagPrivate THEN "private"
    ELSE IF s.named THEN "named"
    ELSE IF s.private = "true" THEN "private" ELSE "shared"

\* A requested volume must be the one deployed at the runtime home.
StateMatches(c, s) ==
    StateSpecified(s) =>
        \E m \in c.mounts : /\ m.dst = Home /\ m.kind = "volume"
                            /\ Head(m.root) = StateVolumeName(s)

-----------------------------------------------------------------------------
(* SQLiteHome.                                                             *)

\* The directory a relative value is resolved from.
BaseDirectory(e, layer) ==
    CASE layer = "env" -> WorkDir[e] [] layer = "user" -> Codex[e]
      [] OTHER -> SystemDirectory

Resolved(e, layer, value) ==
    IF value.relative THEN BaseDirectory(e, layer) \o value.path ELSE value.path

\* The environment, or the Codex home itself.
Fallback(e) ==
    IF config[e]["env"] = None THEN Codex[e]
    ELSE Resolved(e, "env", config[e]["env"])

\* The reference: the strongest setting wins, requirements and managed
\* configuration over anything a project says; a project's own setting, or a
\* file that cannot be read, leaves the SQLite home undetermined (None).
Reference(e) ==
    LET said(l) == config[e][l]
        managed == {l \in {"requirements", "managed"} : said(l) # None}
        consulted == {"env"} \cup
                     (Layer \ IF managed = {} THEN {} ELSE {"project", "parent"})
    IN  IF \E l \in consulted : said(l) = Bad THEN None
        ELSE IF "managed" \in managed THEN Resolved(e, "managed", said("managed"))
        ELSE IF managed # {} THEN Resolved(e, "requirements", said("requirements"))
        ELSE IF said("project") # None \/ said("parent") # None THEN None
        ELSE IF said("user") # None THEN Resolved(e, "user", said("user"))
        ELSE IF said("system") # None THEN Resolved(e, "system", said("system"))
        ELSE Fallback(e)

-----------------------------------------------------------------------------
NoHelper == [st |-> "none", inst |-> [v \in Volume |-> 0]]
NoDiscovery == [end |-> "host", at |-> 1, path |-> <<>>, managed |-> FALSE]

\* Instances of the volumes once a container with these mounts exists: Docker
\* creates a named volume that is missing.
Ensured(ms) ==
    [v \in Volume |-> IF v \in VolumesOf(ms) /\ vol[v].inst = 0
                      THEN [inst |-> lastId + 1, foreign |-> FALSE] ELSE vol[v]]

Instances == [v \in Volume |-> vol[v].inst]

Init ==
    /\ \E s \in Scenarios :
        /\ request = s.request
        /\ box = [id |-> 1, status |-> s.deployment.status,
                  sound |-> s.deployment.sound, mounts |-> s.deployment.mounts,
                  imageVolumes |-> s.deployment.imageVolumes]
        /\ vol = [v \in Volume |->
                    [inst |-> IF v \in VolumesOf(s.deployment.mounts) THEN 1 ELSE 0,
                     foreign |-> v \in s.deployment.foreign]]
        /\ config = s.config
        /\ edits = s.edits
        /\ events = s.events
    /\ pc = "inspect"
    /\ cand = NoBox
    /\ disc = NoDiscovery
    /\ found = [e \in End |-> None]
    /\ target = None
    /\ helper = NoHelper
    /\ lastId = 1
    /\ origin = [v \in Volume |-> 0]
    /\ effective = [e \in End |-> {}]
    /\ edited = [e \in End |-> {}]

Active == pc \notin {"started", "failed"}

\* Mutant of Fail: the helper is left behind.
FailKeepsHelper ==
    /\ pc' = "failed"
    /\ UNCHANGED <<request, cand, disc, found, target, helper>>

\* The command returns an error; a helper it created is removed.
Fail ==
    /\ pc' = "failed"
    /\ helper' = NoHelper
    /\ UNCHANGED <<request, cand, disc, found, target>>

Goto(point) == pc' = point

\* ListContainers, the ownership checks, InspectTarget and the requested state
\* volume, all from one inspection.
InspectTarget ==
    /\ pc = "inspect"
    /\ IF /\ Accepted(box, CodexHome, FALSE)
          /\ ~StateConflict(request.state)
          /\ StateMatches(box, request.state)
       THEN /\ cand' = box
            /\ target' = Target(box, CodexHome, FALSE)
            /\ Goto("host")
            /\ origin' = Instances
            /\ UNCHANGED <<request, disc, found, helper>>
       ELSE Fail /\ UNCHANGED origin
    /\ UNCHANGED <<daemon, config, edits, events, effective, edited>>

\* An explicit path is taken as it is; otherwise the environment is the first
\* candidate, after a recheck of the workstation for the container's end.
BeginDiscovery(e) ==
    /\ pc = e
    /\ IF request.explicit[e] # None
       THEN /\ found' = [found EXCEPT ![e] = request.explicit[e]]
            /\ Goto(IF e = "host" THEN "container" ELSE "select")
            /\ UNCHANGED <<request, cand, disc, target, helper, effective>>
       ELSE IF (e = "container" => Recheck(target)) /\ config[e]["env"] # Bad
       THEN /\ disc' = [end |-> e, at |-> 1, path |-> Fallback(e), managed |-> FALSE]
            /\ effective' = [effective EXCEPT ![e] = {Reference(e)}]
            /\ Goto("read")
            /\ UNCHANGED <<request, cand, found, target, helper>>
       ELSE Fail /\ UNCHANGED effective
    /\ UNCHANGED <<daemon, config, edits, events, origin, edited>>

\* Project candidates are not read when a managed setting decides.
LayersDone == disc.at > Len(Layers) \/ (disc.at = 5 /\ disc.managed)

\* Mutant of Overrides: the first file that sets a value wins.
OverridesNever(i) == disc.path = Fallback(disc.end)

\* The four configuration files of the base: a later one replaces what an
\* earlier one said.
Overrides(i) == i <= 4

\* sqliteSetting: one file is read.  In the container it is read by the ID of
\* the inspected workstation, and a missing workstation is not a missing file.
ReadLayer ==
    /\ pc = "read" /\ ~LayersDone
    /\ LET e == disc.end
           value == config[e][Layers[disc.at]]
       IN  IF \/ e = "container" /\ box.id # cand.id
              \/ value = Bad
              \/ value # None /\ disc.at > 4
           THEN Fail
           ELSE /\ disc' = [disc EXCEPT
                      !.at = @ + 1,
                      !.path = IF value # None /\ Overrides(disc.at)
                               THEN Resolved(e, Layers[disc.at], value) ELSE @,
                      !.managed = @ \/ (value # None /\ disc.at \in {3, 4})]
                /\ UNCHANGED <<request, pc, cand, found, target, helper>>
    /\ UNCHANGED <<daemon, config, edits, events, ghosts>>

\* The discovery returns; the container's is followed by another recheck.
EndDiscovery ==
    /\ pc = "read" /\ LayersDone
    /\ IF disc.end = "container" /\ ~Recheck(target) THEN Fail
       ELSE /\ found' = [found EXCEPT ![disc.end] = disc.path]
            /\ disc' = NoDiscovery
            /\ Goto(IF disc.end = "host" THEN "container" ELSE "select")
            /\ UNCHANGED <<request, cand, target, helper>>
    /\ UNCHANGED <<daemon, config, edits, events, ghosts>>

\* InspectTargetForTransfer, from the first inspection.
SelectTarget ==
    /\ pc = "select"
    /\ LET import == request.op = "import" IN
       IF Accepted(cand, found["container"], import)
       THEN /\ target' = Target(cand, found["container"], import)
            /\ Goto("run")
            /\ UNCHANGED <<request, cand, disc, found, helper>>
       ELSE Fail
    /\ UNCHANGED <<daemon, config, edits, events, ghosts>>

\* Run: the first recheck, and the volumes of the image.
FirstRecheck ==
    /\ pc = "run"
    /\ IF Recheck(target) /\ ImageVolumesFit(cand, target)
       THEN Goto("create") /\ UNCHANGED <<request, cand, disc, found, target, helper>>
       ELSE Fail
    /\ UNCHANGED <<daemon, config, edits, events, ghosts>>

\* docker create with the target's mounts.
CreateHelper ==
    /\ pc = "create"
    /\ vol' = Ensured(target.mounts)
    /\ lastId' = lastId + 1
    /\ helper' = [st |-> "created", inst |-> [v \in Volume |-> vol'[v].inst]]
    /\ Goto("recheck")
    /\ UNCHANGED <<request, cand, disc, found, target, box, config, edits,
                   events, ghosts>>

\* Mutant of SecondRecheck: the helper is started at once.
SecondRecheckSkipped ==
    /\ pc = "recheck"
    /\ Goto("start")
    /\ UNCHANGED <<request, cand, disc, found, target, helper, daemon, config,
                   edits, events, ghosts>>

SecondRecheck ==
    /\ pc = "recheck"
    /\ IF Recheck(target)
       THEN Goto("start") /\ UNCHANGED <<request, cand, disc, found, target, helper>>
       ELSE Fail
    /\ UNCHANGED <<daemon, config, edits, events, ghosts>>

StartHelper ==
    /\ pc = "start"
    /\ helper' = [helper EXCEPT !.st = "started"]
    /\ Goto("started")
    /\ UNCHANGED <<request, cand, disc, found, target, daemon, config, edits,
                   events, ghosts>>

-----------------------------------------------------------------------------
(* The world around the command.                                           *)

Event == Active /\ events > 0 /\ events' = events - 1

\* Cancellation, the discovery's deadline, or a call that fails.
CallFails ==
    /\ Event
    /\ Fail
    /\ UNCHANGED <<daemon, config, edits, ghosts>>

\* Somebody saves, edits or removes a configuration file that the command has
\* still to read (any other edit is without effect on it).
EditConfig(e, l) ==
    /\ Active
    /\ edits > 0
    /\ found[e] = None /\ request.explicit[e] = None
    /\ edits' = edits - 1
    /\ \E value \in (Setting[l] \cup {None, Bad}) \ {config[e][l]} :
          config' = [config EXCEPT ![e][l] = value]
    /\ IF pc = "read" /\ disc.end = e
       THEN /\ effective' = [effective EXCEPT ![e] = @ \cup {Reference(e)'}]
            /\ edited' = [edited EXCEPT ![e] = @ \cup {l}]
       ELSE UNCHANGED <<effective, edited>>
    /\ UNCHANGED <<command, daemon, events, origin>>

\* docker rm --force, docker volume rm, docker run and docker pause by a client
\* that does not take the project lock (external).
RemoveWorkstation ==
    /\ Event
    /\ box.id # 0
    /\ box' = NoBox
    /\ UNCHANGED <<command, vol, lastId, config, edits, ghosts>>

RemoveVolume(v) ==
    /\ Event
    /\ vol[v].inst # 0
    /\ v \notin VolumesOf(box.mounts)
    /\ helper.st # "none" => v \notin VolumesOf(target.mounts)
    /\ vol' = [vol EXCEPT ![v] = [inst |-> 0, foreign |-> FALSE]]
    /\ UNCHANGED <<command, box, lastId, config, edits, ghosts>>

RecreateWorkstation ==
    /\ Event
    /\ box.id = 0 /\ cand.id # 0
    /\ lastId' = lastId + 1
    /\ box' = [cand EXCEPT !.id = lastId']
    /\ vol' = Ensured(cand.mounts)
    /\ UNCHANGED <<command, config, edits, ghosts>>

PauseWorkstation ==
    /\ Event
    /\ box.status \in {"running", "paused"}
    /\ box' = [box EXCEPT !.status = IF @ = "running" THEN "paused" ELSE "running"]
    /\ UNCHANGED <<command, vol, lastId, config, edits, ghosts>>

Finished == ~Active /\ UNCHANGED vars

-----------------------------------------------------------------------------
Step ==
    \/ InspectTarget \/ (\E e \in End : BeginDiscovery(e))
    \/ ReadLayer \/ EndDiscovery \/ SelectTarget
    \/ FirstRecheck \/ CreateHelper \/ SecondRecheck \/ StartHelper

World ==
    \/ CallFails
    \/ \E e \in End, l \in Layer : EditConfig(e, l)
    \/ RemoveWorkstation \/ RecreateWorkstation \/ PauseWorkstation
    \/ \E v \in Volume : RemoveVolume(v)

Next == Step \/ World \/ Finished

Spec == Init /\ [][Next]_vars

-----------------------------------------------------------------------------
(* Properties.                                                             *)

\* The storage that a container with these mounts sees at p.  A nonrecursive
\* bind shows what lies beneath a filesystem mounted below its source.
Storage(ms, p) ==
    LET m == BaseMount(ms, p)
        at == m.root \o Relative(m.dst, p)
        hidden == \E s \in HostMount : /\ s # m.root
                                       /\ Contains(m.root, s) /\ Contains(s, at)
    IN  IF Covering(ms, p) = {} THEN <<"image", p>>
        ELSE CASE m.kind = "volume" -> <<"volume", at>>
               [] m.kind = "tmpfs" -> <<"tmpfs", p>>
               [] m.kind = "nonrecursive" /\ hidden -> <<"beneath", at>>
               [] OTHER -> <<"daemon", at>>

Writable(ms, p) == Covering(ms, p) # {} /\ BaseMount(ms, p).rw

\* What the helper sees: its mounts, and a tmpfs over every other image volume.
HelperView ==
    target.mounts \cup {[dst |-> v, kind |-> "tmpfs", root |-> <<>>, rw |-> TRUE] :
                        v \in Uncovered(cand, target)}

\* Everything the helper works on: the Codex home, and the databases.
Needed == {p \in Probe : \/ Contains(CodexHome, p)
                         \/ p = target.sqlite \/ DirectDatabase(p, target.sqlite)}

HelperPrepared == pc \in {"create", "recheck", "start", "started"}

\* The variables keep their types, and a helper exists only when prepared.
TypeOK ==
    /\ request.op \in {"import", "export"} /\ DOMAIN request.explicit = End
    /\ pc \in {"inspect", "host", "container", "read", "select", "run", "create",
               "recheck", "start", "started", "failed"}
    /\ disc.end \in End /\ disc.at \in 1..(Len(Layers) + 1)
    /\ DOMAIN found = End
    /\ pc \in {"host", "container", "read", "select", "run"} => cand.id = 1
    /\ helper.st # "none" => HelperPrepared
    /\ edits \in Nat /\ events \in Nat

\* The helper finds every path of the Codex home and every database file in the
\* very storage where the workstation has it: nested mounts are kept, a narrowed
\* mount still leads to the same directory, and no image volume hides it
\* (storageMounts, inspectTarget and the image volumes in Run).
SameStorage ==
    HelperPrepared =>
        \A p \in Needed : Storage(HelperView, p) = Storage(cand.mounts, p)

\* The helper writes to selected storage only where the workstation can, an
\* export writes to no separate metadata storage, and nothing is attached but
\* the storage of the Codex home and the selected SQLite directory (target.go:
\* "must not expose the whole workspace").
LeastAccess ==
    HelperPrepared =>
        LET ms == target.mounts
            history == BaseMount(cand.mounts, CodexHome).dst
        IN  \A p \in Probe : Covering(ms, p) # {} =>
                /\ p \in Needed /\ Writable(ms, p) => Writable(cand.mounts, p)
                /\ ~Contains(history, p) => /\ Contains(target.sqlite, p)
                                            /\ request.op = "export" => ~Writable(ms, p)

\* A discovered SQLite home was the one in force, by the order of the layers,
\* at some moment of the discovery, if at most one file changed meanwhile,
\* however often: the files are read one by one, and the discovery has no
\* atomic view of several (config.go:20-24).
ResolvedAsConfigured ==
    \A e \in End :
        found[e] # None /\ request.explicit[e] = None
        /\ Cardinality(edited[e]) <= 1 =>
            found[e] \in effective[e]

\* A helper is only ever started on the volumes that the inspected workstation
\* had, never on a replacement or on an empty volume that its own creation made:
\* the volume outlives its last container, and the recheck after the creation
\* finds the inspected workstation itself (Run, recheck).
RunsOnInspectedStorage ==
    helper.st = "started" =>
        \A v \in VolumesOf(target.mounts) : helper.inst[v] = origin[v]

=============================================================================

---------------------------- MODULE HomeBootstrap ----------------------------
(***************************************************************************)
(* The start of workstation containers that share one home volume           *)
(* (image/entrypoint.sh, image/session-init.sh).                            *)
(*                                                                         *)
(* Every container runs the entrypoint as root against the same home: it    *)
(* takes over an empty volume, creates the shell startup files as the user, *)
(* writes the default settings of the harness, and starts the session.      *)
(* There is no lock.  A container can be killed between any two commands,   *)
(* and starts over.  All containers belong to one host user.                *)
(*                                                                         *)
(* A workspace that lies under the home is mounted inside the volume, so    *)
(* Docker makes its mount point there, as root, before the entrypoint runs. *)
(* Every other container of the volume sees that directory in its home.     *)
(***************************************************************************)
EXTENDS Naturals, FiniteSets

CONSTANTS
    Container,  \* containers that mount the volume
    Dir,        \* directories right under the home on the way to a workspace
    NoDir,      \* the workspace lies outside the home
    MaxKills    \* bound on killed starts

ASSUME ConstantsAssumption ==
    Container # {} /\ NoDir \notin Dir /\ MaxKills \in Nat

\* .bash_profile stands for every login file that Bash prefers to .profile.
Shell == {"bashrc", "bash_profile", "profile"}
Harness == {"settings", "notice"}
File == Shell \cup Harness
Content == {"absent", "empty", "default", "users", "unreadable"}

VARIABLES
    entry,     \* the first component of each container's workspace in the home
    owner,     \* of the home directory: root, or whoever is not the user
    mounts,    \* the entries of the home that are the way to a workspace
    used,      \* the home holds other files of a user
    stateDir,  \* .hcorral, by owner
    marker,    \* home-bootstrap.env
    file,
    temps,     \* temporary files in the home, by the container that made them
    pc,
    path,      \* the startup file that create_missing is working on
    kills,
    fresh      \* the volume was new when the first container started

given == <<entry, fresh>>
home == <<owner, mounts, used, stateDir, marker, file, temps>>
vars == <<given, home, pc, path, kills>>

\* A new volume is empty and root's.  One that is not new holds anything: other
\* files, the way to workspaces and nothing else, or nothing.
Init ==
    /\ entry \in [Container -> Dir \cup {NoDir}]
    /\ pc = [c \in Container |-> "off"]
    /\ path = [c \in Container |-> "bashrc"]
    /\ kills = 0
    /\ temps = {}
    /\ \/ /\ fresh = TRUE
          /\ owner = "root" /\ used = FALSE /\ mounts = {}
          /\ stateDir = "absent" /\ marker = "absent"
          /\ file = [f \in File |-> "absent"]
       \/ /\ fresh = FALSE
          /\ owner \in {"root", "user"} /\ used \in BOOLEAN
          /\ mounts \in SUBSET Dir
          /\ \/ stateDir = "absent" /\ marker = "absent"
             \/ stateDir = "user" /\ marker = "default"
          /\ \E rc, profile \in {"absent", "users", "unreadable"},
                settings \in {"absent", "users"} :
              file = [f \in File |-> CASE f = "bashrc" -> rc
                                       [] f = "bash_profile" -> profile
                                       [] f = "settings" -> settings
                                       [] OTHER -> "absent"]

Goto(c, point) == pc' = [pc EXCEPT ![c] = point]

Exists(f) == file[f] # "absent"

\* Docker starts the container, with the mount point of its workspace in place.
Mount(c) ==
    /\ pc[c] = "off"
    /\ mounts' = mounts \cup ({entry[c]} \cap Dir)
    /\ Goto(c, "start")
    /\ UNCHANGED <<given, owner, used, stateDir, marker, file, temps, path, kills>>

-----------------------------------------------------------------------------
(* bootstrap_empty_home_volume, as root.                                   *)

CheckMarker(c) ==
    /\ pc[c] = "start"
    /\ Goto(c, IF marker # "absent" THEN "shell" ELSE "look")
    /\ UNCHANGED <<given, home, path, kills>>

\* The way to workspaces is all that the home holds.
OnlyMountPoints ==
    /\ ~used /\ stateDir = "absent" /\ temps = {}
    /\ \A f \in File : ~Exists(f)

\* Mutant of HomeIsEmpty: the container's own mount point counts as contents.
HomeIsEmptyStrict(c) == OnlyMountPoints /\ mounts = {}

\* home_is_empty, or home_contains_only_workdir_mount_path: nothing but the way
\* to this container's own workspace is in it.
HomeIsEmpty(c) == OnlyMountPoints /\ mounts \subseteq {entry[c]}

CheckEmpty(c) ==
    /\ pc[c] = "look"
    /\ Goto(c, IF HomeIsEmpty(c) THEN "chownHome" ELSE "shell")
    /\ UNCHANGED <<given, home, path, kills>>

\* The home, the directories above a nested workspace, and that workspace.
ChownHome(c) ==
    /\ pc[c] = "chownHome"
    /\ owner' = "user"
    /\ Goto(c, "mkdirState")
    /\ UNCHANGED <<given, mounts, used, stateDir, marker, file, temps, path, kills>>

MkdirState(c) ==
    /\ pc[c] = "mkdirState"
    /\ stateDir' = IF stateDir = "absent" THEN "root" ELSE stateDir
    /\ Goto(c, "chownState")
    /\ UNCHANGED <<given, owner, mounts, used, marker, file, temps, path, kills>>

ChownState(c) ==
    /\ pc[c] = "chownState"
    /\ stateDir' = "user"
    /\ Goto(c, "openMarker")
    /\ UNCHANGED <<given, owner, mounts, used, marker, file, temps, path, kills>>

\* The redirection truncates; the contents follow.
OpenMarker(c) ==
    /\ pc[c] = "openMarker"
    /\ marker' = "empty"
    /\ Goto(c, "writeMarker")
    /\ UNCHANGED <<given, owner, mounts, used, stateDir, file, temps, path, kills>>

WriteMarker(c) ==
    /\ pc[c] = "writeMarker"
    /\ marker' = "default"
    /\ Goto(c, "shell")
    /\ UNCHANGED <<given, owner, mounts, used, stateDir, file, temps, path, kills>>

-----------------------------------------------------------------------------
(* initialize_shell_config, as the user.                                   *)

\* Mutant of CheckAccess: root looks, and root can write anywhere.
CheckAccessAsRoot(c) ==
    /\ pc[c] = "shell"
    /\ Goto(c, "missing")
    /\ path' = [path EXCEPT ![c] = "bashrc"]
    /\ UNCHANGED <<given, home, kills>>

\* The home must be a directory that the user can enter and write.
CheckAccess(c) ==
    /\ pc[c] = "shell"
    /\ Goto(c, IF owner = "user" THEN "missing" ELSE "failed")
    /\ path' = [path EXCEPT ![c] = "bashrc"]
    /\ UNCHANGED <<given, home, kills>>

CheckMissing(c) ==
    /\ pc[c] = "missing"
    /\ Goto(c, IF Exists(path[c]) THEN "verify" ELSE "temp")
    /\ UNCHANGED <<given, home, path, kills>>

\* mktemp and its contents; nobody else uses that name.
WriteTemp(c) ==
    /\ pc[c] = "temp"
    /\ temps' = temps \cup {c}
    /\ Goto(c, "link")
    /\ UNCHANGED <<given, owner, mounts, used, stateDir, marker, file, path, kills>>

\* Mutant of LinkResult: the file is written in place.
LinkResultInPlace(f) == IF Exists(f) THEN file[f] ELSE "empty"

\* Mutant of LinkResult: the temporary file is renamed over the path.
LinkResultRename(f) == "default"

\* ln -T does not replace a file.
LinkResult(f) == IF Exists(f) THEN file[f] ELSE "default"

Link(c) ==
    /\ pc[c] = "link"
    /\ file' = [file EXCEPT ![path[c]] = LinkResult(path[c])]
    /\ Goto(c, "unlink")
    /\ UNCHANGED <<given, owner, mounts, used, stateDir, marker, temps, path, kills>>

\* The trap removes the temporary file.
Unlink(c) ==
    /\ pc[c] = "unlink"
    /\ temps' = temps \ {c}
    /\ Goto(c, "verify")
    /\ UNCHANGED <<given, owner, mounts, used, stateDir, marker, file, path, kills>>

\* A startup file that the user cannot read ends the start.  After .bashrc it
\* is the turn of the login file that Bash would read, or of .profile.
Verify(c) ==
    /\ pc[c] = "verify"
    /\ path' = [path EXCEPT ![c] =
          IF path[c] = "bashrc" /\ Exists("bash_profile") THEN "bash_profile"
          ELSE "profile"]
    /\ Goto(c, IF file[path[c]] = "unreadable" THEN "failed"
               ELSE IF path[c] = "bashrc" THEN "missing" ELSE "settings")
    /\ UNCHANGED <<given, home, kills>>

-----------------------------------------------------------------------------
(* Harness settings (initialize_claude_config, initialize_pi_config) and    *)
(* the sudo notice, as root, then the session.                              *)

CheckSettings(c) ==
    /\ pc[c] = "settings"
    /\ Goto(c, IF Exists("settings") THEN "notice" ELSE "openSettings")
    /\ UNCHANGED <<given, home, path, kills>>

OpenSettings(c) ==
    /\ pc[c] = "openSettings"
    /\ file' = [file EXCEPT !["settings"] = "empty"]
    /\ Goto(c, "writeSettings")
    /\ UNCHANGED <<given, owner, mounts, used, stateDir, marker, temps, path, kills>>

WriteSettings(c) ==
    /\ pc[c] = "writeSettings"
    /\ file' = [file EXCEPT !["settings"] = "default"]
    /\ Goto(c, "notice")
    /\ UNCHANGED <<given, owner, mounts, used, stateDir, marker, temps, path, kills>>

MarkSudoNotice(c) ==
    /\ pc[c] = "notice"
    /\ file' = [file EXCEPT !["notice"] = "default"]
    /\ Goto(c, "session")
    /\ UNCHANGED <<given, owner, mounts, used, stateDir, marker, temps, path, kills>>

SessionInit(c) ==
    /\ pc[c] = "session"
    /\ Goto(c, "ready")
    /\ UNCHANGED <<given, home, path, kills>>

-----------------------------------------------------------------------------
(* The world.                                                              *)

\* A container dies and is started again, now or after it was ready.
Kill(c) ==
    /\ kills < MaxKills
    /\ pc[c] # "off"
    /\ kills' = kills + 1
    /\ Goto(c, "off")
    /\ UNCHANGED <<given, home, path>>

\* The user works in a ready container.
UserWrites(c) ==
    /\ pc[c] = "ready"
    /\ \/ used' = TRUE /\ UNCHANGED file
       \/ \E f \in Shell \cup {"settings"} :
            file' = [file EXCEPT ![f] = "users"] /\ UNCHANGED used
    /\ UNCHANGED <<given, owner, mounts, stateDir, marker, temps, pc, path, kills>>

Step(c) ==
    \/ Mount(c) \/ CheckMarker(c) \/ CheckEmpty(c) \/ ChownHome(c)
    \/ MkdirState(c) \/ ChownState(c) \/ OpenMarker(c) \/ WriteMarker(c)
    \/ CheckAccess(c) \/ CheckMissing(c) \/ WriteTemp(c) \/ Link(c)
    \/ Unlink(c) \/ Verify(c)
    \/ CheckSettings(c) \/ OpenSettings(c) \/ WriteSettings(c)
    \/ MarkSudoNotice(c) \/ SessionInit(c)

Next ==
    \/ \E c \in Container : Step(c) \/ Kill(c) \/ UserWrites(c)
    \/ (\A c \in Container : pc[c] \in {"ready", "failed"}) /\ UNCHANGED vars

Spec == Init /\ [][Next]_vars

-----------------------------------------------------------------------------
Point ==
    {"off", "start", "look", "chownHome", "mkdirState", "chownState",
     "openMarker", "writeMarker", "shell", "missing", "temp", "link", "unlink",
     "verify", "settings", "openSettings", "writeSettings", "notice", "session",
     "ready", "failed"}

\* The variables keep their types, and no startup file is ever half written.
TypeOK ==
    /\ entry \in [Container -> Dir \cup {NoDir}] /\ mounts \subseteq Dir
    /\ owner \in {"root", "user"}
    /\ used \in BOOLEAN /\ fresh \in BOOLEAN
    /\ stateDir \in {"absent", "root", "user"}
    /\ marker \in {"absent", "empty", "default"}
    /\ file \in [File -> Content]
    /\ \A f \in Shell : file[f] # "empty"
    /\ temps \subseteq Container
    /\ pc \in [Container -> Point]
    /\ path \in [Container -> Shell]
    /\ kills \in 0..MaxKills

\* A start fails on a volume that was new only while nobody has begun to set the
\* home up and the mount point of another workspace is in it: then no container
\* takes the home over (home_contains_only_workdir_mount_path).  So starts for
\* one workspace, or outside the home, never fail, and none does once one corral
\* is ready: what docs/runtime-model.md:27-28 asks for is enough, however starts
\* interleave and wherever they are killed.
FreshHomeUsable ==
    [][\A c \in Container :
         fresh /\ pc[c] # "failed" /\ pc'[c] = "failed"
            => OnlyMountPoints /\ mounts \ {entry[c]} # {}]_vars

\* A home with anything of its own in it keeps its owner, also when a container
\* found it empty and changes the owner only after others have set it up
\* (bootstrap_empty_home_volume looks once, without a lock).
HomeOwnershipKept == [][~OnlyMountPoints => owner' = owner]_vars

\* A startup file appears complete, and what the user put there is never
\* replaced, even if the user wrote it while another container was starting
\* (create_missing publishes with ln).
StartupFilesKept ==
    [][\A f \in Shell :
         \/ file'[f] = file[f]
         \/ file[f] = "absent" /\ file'[f] = "default"
         \/ file'[f] = "users"]_vars
=============================================================================

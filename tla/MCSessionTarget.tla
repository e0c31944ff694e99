--------------------------- MODULE MCSessionTarget ---------------------------
(* Small instances of SessionTarget.                                       *)
EXTENDS SessionTarget

H == <<"h">>
C == <<"h", "codex">>
CS == <<"h", "codex", "sessions">>
CF == <<"h", "codex", "state">>
HD == <<"h", "db">>
W == <<"w">>
WD == <<"w", "db">>
WDF == <<"w", "db", "state">>
WDS == <<"w", "db", "sub">>

MCHome == H
MCCodex == [host |-> <<"u", "codex">>, container |-> C]
MCWorkDir == [host |-> <<"u", "w">>, container |-> W]
MCDatabaseName == {"state"}
MCHostMount == {<<"src", "w", "db">>}
MCVolume == {"shared", "private", "named", "flag", "other"}
MCProbe == {H, C, CS, CF, HD, HD \o <<"state">>, H \o <<"state">>,
            W, WD, WDF, WDS, W \o <<"src">>}

Mount(dst, kind, root, rw) == [dst |-> dst, kind |-> kind, root |-> root, rw |-> rw]
VolumeAt(dst, name, rw) == Mount(dst, "volume", <<name>>, rw)
BindAt(dst, kind, rw) == Mount(dst, kind, <<"src">> \o dst, rw)

\* What a workstation may have at its home, inside its Codex home, at the
\* workspace and at the places of relocated databases.
HomeMounts ==
    {{}, {VolumeAt(H, "shared", TRUE)}, {Mount(H, "volume", <<"shared", "sub">>, TRUE)},
     {BindAt(C, "bind", TRUE)}, {VolumeAt(H, "shared", TRUE), VolumeAt(C, "private", FALSE)}}
NestedMounts ==
    {{}, {VolumeAt(CS, "named", TRUE)}, {BindAt(CS, "unsupported", TRUE)},
     {BindAt(CF, "bind", FALSE)}}
WorkMounts ==
    {{BindAt(W, k, w)} : k \in {"bind", "nonrecursive"}, w \in BOOLEAN}
        \cup {{VolumeAt(W, "flag", TRUE)}}
DatabaseMounts ==
    {{}, {VolumeAt(HD, "other", TRUE)}, {BindAt(WDF, "bind", TRUE)},
     {BindAt(WD, "nonrecursive", TRUE), VolumeAt(WDS, "other", TRUE)}}

Deployment(ms, iv) ==
    [status |-> "running", sound |-> TRUE, mounts |-> ms, imageVolumes |-> iv,
     foreign |-> {}]

Deployments ==
    {Deployment(h \cup n \cup w \cup d, iv) :
        h \in HomeMounts, n \in NestedMounts, w \in WorkMounts, d \in DatabaseMounts,
        iv \in {{}}}
    \cup
    {Deployment(h \cup n \cup d \cup {BindAt(W, "bind", TRUE)}, iv) :
        h \in HomeMounts \ {{}}, n \in {{VolumeAt(CS, "named", TRUE)}},
        d \in {{VolumeAt(HD, "other", TRUE)}}, iv \in {{CS}, {HD}, {HD, W}}}

NoState == [private |-> "unset", named |-> FALSE, flagPrivate |-> FALSE,
            flagNamed |-> FALSE]
NoConfig == [e \in End |-> [l \in Layer \cup {"env"} |-> None]]

Scenario(op, host, container, state, d, c, ed, ev) ==
    [request |-> [op |-> op, state |-> state,
                  explicit |-> [host |-> host, container |-> container]],
     deployment |-> d, config |-> c, edits |-> ed, events |-> ev]

\* Every deployment, with the SQLite home in the Codex home, beside it, above
\* it, in the workspace and at the root.
StorageScenarios ==
    {Scenario(op, <<"u">>, path, NoState, d, NoConfig, 0, 0) :
        op \in {"import", "export"}, path \in {C, CS, HD, H, WD, <<>>},
        d \in Deployments}

Standard == Deployment({VolumeAt(H, "shared", TRUE), BindAt(W, "bind", TRUE)}, {})

\* Configuration: an explicit path at one end, the other discovered while two
\* edits are made.
Value(relative, path) == [relative |-> relative, path |-> path]
MCSetting ==
    [system |-> {Value(TRUE, <<"s">>)}, user |-> {Value(TRUE, <<"db">>)},
     requirements |-> {Value(FALSE, HD)}, managed |-> {Value(FALSE, WD)},
     project |-> {Value(FALSE, C)}, parent |-> {Value(FALSE, C)}]
EnvSetting == {None, Bad, Value(TRUE, <<"db">>)}
Layered(e, set, env) ==
    [NoConfig EXCEPT ![e] =
        [l \in Layer \cup {"env"} |->
            IF l = "env" THEN env
            ELSE IF l \in set THEN CHOOSE v \in MCSetting[l] : TRUE ELSE None]]
InitialLayers ==
    SUBSET {"user", "managed"} \cup {{"system", "requirements"}, {"project"}}
ConfigScenarios ==
    {Scenario("import", None, WD, NoState, Standard, Layered("host", ls, env), 2, 0) :
        ls \in InitialLayers, env \in EnvSetting}
    \cup
    {Scenario("import", <<"u">>, None, NoState, Standard,
              Layered("container", ls, env), 2, 0) :
        ls \in InitialLayers, env \in EnvSetting}

\* Foreign calls: volumes, binds, storage of another workspace, unsettled and
\* unsupported workstations, and no workstation.
EventDeployments ==
    {Standard,
     [Standard EXCEPT !.foreign = {"shared"}],
     [Standard EXCEPT !.status = "stopped"],
     [Standard EXCEPT !.status = "paused"],
     [Standard EXCEPT !.sound = FALSE],
     Deployment({BindAt(C, "bind", TRUE), VolumeAt(HD, "private", TRUE)}, {})}
EventScenarios ==
    {Scenario(op, <<"u">>, path, NoState, d, NoConfig, 0, 3) :
        op \in {"import", "export"}, path \in {None, HD}, d \in EventDeployments}

\* The requested state volume.
StateScenarios ==
    {Scenario("export", <<"u">>, C, s, Deployment({VolumeAt(H, v, TRUE)}, {}),
              NoConfig, 0, 0) :
        v \in {"shared", "private", "named", "flag"},
        s \in [private : {"unset", "true", "false"}, named : BOOLEAN,
               flagPrivate : BOOLEAN, flagNamed : BOOLEAN]}

MCScenarios ==
    StorageScenarios \cup ConfigScenarios \cup EventScenarios \cup StateScenarios
=============================================================================

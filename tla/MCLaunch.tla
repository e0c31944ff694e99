------------------------------ MODULE MCLaunch ------------------------------
(* Small instances of Launch.                                              *)
EXTENDS Launch

Stopped(i) == [NoBox EXCEPT !.st = "exited", !.id = i, !.image = 1, !.conf = 1]

\* Lifecycle: a stopped and a running workstation, and somebody else's container.
LifeCommands ==
    {"launch", "attach", "start", "stop", "restart", "pull", "create", "up",
     "down", "session"}
LifeModes == {"private"}
LifeBoxes ==
    {Stopped(1), [Stopped(1) EXCEPT !.st = "running"],
     [NoBox EXCEPT !.st = "running", !.id = 1, !.own = FALSE]}
LifeVolumes == {[v \in Volume |-> "none"], [v \in Volume |-> "ours"]}

\* State volumes: two corrals, one of which may mount the shared volume.
StateCommands == {"launch", "up", "down -v", "state rm"}
StateBoxes == {Stopped(1), [Stopped(2) EXCEPT !.vol = "shared"]}
StateVolumes ==
    {[v \in Volume |-> "ours"], [v \in Volume |-> "none"],
     [v \in Volume |-> IF v = "private" THEN "foreign" ELSE "ours"]}
=============================================================================

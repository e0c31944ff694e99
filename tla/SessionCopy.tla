----------------------------- MODULE SessionCopy -----------------------------
(***************************************************************************)
(* What one transfer command promises to the user, without processes, pipes *)
(* or requests to a daemon: the destination only moves forwards, a result   *)
(* is reported only for a complete publication, success means a reported    *)
(* result, no error at either end and no helper container left, the command *)
(* returns, and once it returned the destination is left alone, unless the  *)
(* command said that it could not clean its helper up.                      *)
(***************************************************************************)
EXTENDS Naturals

VARIABLES
    dest,      \* the destination home
    reported,  \* the result of the publication reached the command
    failed,    \* something went wrong at one of the ends or with the helper
    helper,    \* a helper container exists or is being created
    outcome    \* how the command returned

vars == <<dest, reported, failed, helper, outcome>>

Stage == <<"untouched", "initialised", "partial", "complete">>

Init ==
    /\ dest = "untouched"
    /\ reported = FALSE
    /\ failed = FALSE
    /\ helper = FALSE
    /\ outcome = "running"

\* While the command runs, or a helper that it reported as left behind does, the
\* destination may move to its next stage and something may fail.
Work ==
    /\ outcome = "running" \/ (outcome = "unclean" /\ helper)
    /\ dest' \in {dest} \cup {Stage[i + 1] : i \in {j \in 1..3 : Stage[j] = dest}}
    /\ failed' \in {failed, TRUE}
    /\ UNCHANGED <<reported, helper, outcome>>

\* The helper container is requested, or is gone.
Helper ==
    /\ outcome = "running"
    /\ helper' = ~helper
    /\ UNCHANGED <<dest, reported, failed, outcome>>

Report ==
    /\ outcome = "running"
    /\ dest = "complete"
    /\ reported' = TRUE
    /\ UNCHANGED <<dest, failed, helper, outcome>>

Return(how) ==
    /\ outcome = "running"
    /\ how = "ok" => reported /\ ~failed /\ ~helper
    /\ outcome' = how
    /\ UNCHANGED <<dest, reported, failed, helper>>

Next ==
    \/ Work \/ Helper \/ Report
    \/ \E how \in {"ok", "failed", "unclean"} : Return(how)

\* What the command never does, and that it returns.
Safety == Init /\ [][Next]_vars
Spec == Safety /\ <>(outcome # "running")
=============================================================================

---------------------------- MODULE SessionStore ----------------------------
(***************************************************************************)
(* What a Codex home promises to whoever imports sessions into it, without  *)
(* files, locks or the database: it holds sessions, each with everything it *)
(* inherits, and an import that was reported successful is held from then   *)
(* on, whatever else is imported, interrupted or lost to a power failure.   *)
(***************************************************************************)
CONSTANT Session

VARIABLES
    held,      \* sessions that can be resumed from the home
    reported   \* sessions whose import was reported successful

Init == held \in SUBSET Session /\ reported = {}

\* Files are installed; nothing that was held is lost by it.
Gain == held' \in SUBSET Session /\ held \subseteq held' /\ UNCHANGED reported

\* Success is reported only for a session that is held.
Report(s) == s \in held /\ reported' = reported \cup {s} /\ UNCHANGED held

\* The machine fails: sessions may be lost, but none that was reported.
Crash == /\ reported \subseteq held' /\ held' \subseteq held
         /\ UNCHANGED reported

Next == Gain \/ Crash \/ \E s \in Session : Report(s)

Spec == Init /\ [][Next]_<<held, reported>>
=============================================================================

---------------------------- MODULE MCPublication ----------------------------
(* Lineages for TLC: A0 is the root of thread A, A1 a revert of A that     *)
(* inherits one record of A0, A2 a revert of A to its very beginning,      *)
(* which inherits nothing, B1 a fork in thread B that inherits two records *)
(* of A0, and AN the rollout a native revert of A starts.                  *)
EXTENDS Publication

CONSTANTS A, B, A0, A1, A2, B1, AN, s, n

MCThreadOf == [r \in Rollout |-> IF r = B1 THEN B ELSE A]

File(r, c) == [rollout |-> r, content |-> c]

Revert == [thread |-> A, files |-> <<File(A0, <<s>>), File(A1, <<s, s>>)>>]
Fork == [thread |-> B, files |-> <<File(A0, <<s, s>>), File(B1, <<s>>)>>]
Parent == [thread |-> A, files |-> <<File(A0, <<s, s, s>>)>>]
Restart == [thread |-> A, files |-> <<File(A2, <<s>>)>>]

\* Every conversation of thread A goes back to A0, or one of them does not.
OneLineage == {Revert, Fork, Parent}
TwoLineages == {Fork, Restart}

Empty == [place \in Place |-> Absent]

\* The home is empty, or has the complete parent, or a short native parent
\* that may grow apart from the incoming one.
Homes == {Empty,
          [Empty EXCEPT ![<<"full", A0>>] = <<s, s, s>>],
          [Empty EXCEPT ![<<"full", A0>>] = <<s>>]}
=============================================================================

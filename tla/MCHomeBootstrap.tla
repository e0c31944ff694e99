--------------------------- MODULE MCHomeBootstrap ---------------------------
(***************************************************************************)
(* Containers, and directories on the way to a workspace, are               *)
(* interchangeable: no definition names one of them.                        *)
(***************************************************************************)
EXTENDS HomeBootstrap, TLC

Symmetry == Permutations(Container) \cup Permutations(Dir)
=============================================================================

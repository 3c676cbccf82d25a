--------------------------- MODULE MCGameRegistry ---------------------------
(***************************************************************************)
(* Instances of GameRegistry for TLC.                                      *)
(***************************************************************************)
EXTENDS GameRegistry, TLC

\* Processes are interchangeable.
ProcSymmetry == Permutations(Procs)
=============================================================================

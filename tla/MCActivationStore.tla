------------------------- MODULE MCActivationStore --------------------------
(***************************************************************************)
(* Instances of ActivationStore for TLC.                                   *)
(***************************************************************************)
EXTENDS ActivationStore, TLC

\* Processes are interchangeable.
ProcSymmetry == Permutations(Procs)
=============================================================================

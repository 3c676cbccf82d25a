--------------------------- MODULE MCProbeChannel ---------------------------
(***************************************************************************)
(* Instances of ProbeChannel for TLC.                                      *)
(***************************************************************************)
EXTENDS ProbeChannel
=============================================================================

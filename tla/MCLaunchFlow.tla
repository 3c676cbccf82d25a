---------------------------- MODULE MCLaunchFlow ----------------------------
(***************************************************************************)
(* Instances of LaunchFlow for TLC.                                        *)
(***************************************************************************)
EXTENDS LaunchFlow

S(platform, listed, started, lossy) ==
  [platform |-> platform, listed |-> listed, started |-> started, lossy |-> lossy]

\* Overlapping launches; and one launch whose publications may fail, on each
\* platform, of a registration with and without files.
MCSettings ==
  {S("unix", TRUE, Attempts, {})}
  \cup {S(p, l, Watched, Watched) : p \in {"unix", "windows"}, l \in BOOLEAN}

Ordinary == {S("unix", TRUE, Attempts, {})}
=============================================================================

---------------------------- MODULE MCAgentServe ----------------------------
(***************************************************************************)
(* Instances of AgentServe for TLC.                                        *)
(***************************************************************************)
EXTENDS AgentServe

\* SHA-256 does not collide on the reports of one session.
MCDigest(r) == <<r.sequence, r.nonce, r.at>>
MCDigests == {NoDigest} \cup ((0..MaxSequence) \X Nonces \X (0..Horizon))

F(t, c, n, e) == [type |-> t, claim |-> c, nonce |-> n, expires |-> e]

\* One frame of every kind, to exercise admission and every way a session ends.
EveryFrame ==
  {F("LaunchGrant", c, 1, 1) : c \in {"good", "bad", "outdated", "foreign"}}
  \cup {F("Challenge", c, 1, 3) : c \in {"good", "bad"}}
  \cup {F("Revocation", c, 1, 0) : c \in {"good", "bad"}}
  \cup {F("Shutdown", c, 1, 0) : c \in {"good", "bad"}}
  \cup {F("Unexpected", "bad", 1, 0), F("Malformed", "bad", 1, 0)}

\* An accepted bundle, challenges with a short and a long lifetime, and a
\* revocation.
SessionFrames ==
  {F("LaunchGrant", "good", 1, 2), F("Challenge", "good", 1, 2),
   F("Challenge", "good", 2, 5), F("Revocation", "good", 1, 0)}
=============================================================================

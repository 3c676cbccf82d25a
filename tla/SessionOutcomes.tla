--------------------------- MODULE SessionOutcomes ---------------------------
(***************************************************************************)
(* The states of a protected session that are published to its status      *)
(* file, in the order in which serve()                                     *)
(* (crates/certael-agent/src/runtime.rs) may go through them, and what     *)
(* each of them says about the result of serve().                          *)
(***************************************************************************)

Finals == {"expired", "lost", "revoked"}

\* Refused before protection began.
Failures == {"launch_failed", "update_required", "installing_required_update",
             "update_ready", "update_failed"}

\* The states serve() may publish after s; a session that is protected says so
\* again with every heartbeat and every report.
After(s) ==
  CASE s = "none" -> {"awaiting_server_admission"}
    [] s = "awaiting_server_admission" ->
         {"verifying_signed_launch_bundle", "launch_failed"}
    [] s = "verifying_signed_launch_bundle" ->
         {"launch_failed", "update_required", "protected"}
    [] s = "update_required" -> {"installing_required_update"}
    [] s = "installing_required_update" -> {"update_ready", "update_failed"}
    [] s = "protected" -> {"protected", "stopped"} \cup Finals
    [] OTHER -> {}

\* serve() succeeds exactly when the game ended a protected session.
Succeeds(s) == s = "stopped"

\* Nothing is published once the session is over.
Over(s) == s \in Finals \cup {"stopped"}
=============================================================================

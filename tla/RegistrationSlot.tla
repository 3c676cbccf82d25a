-------------------------- MODULE RegistrationSlot --------------------------
(***************************************************************************)
(* What the game registry promises to whoever installs, replaces or loads  *)
(* one registration: a single value that changes in one step, to a value   *)
(* somebody asked for, and that is the acknowledged one when an            *)
(* installation reports success.  An installation that is cut short leaves *)
(* the old value or the new one.                                           *)
(***************************************************************************)
CONSTANTS Releases,   \* signed registrations with one registration ID
          NoRelease   \* nothing is registered

VARIABLES current,    \* the registration in force
          wanted,     \* those asked for since the last acknowledgement
          accepted    \* the one last acknowledged

vars == <<current, wanted, accepted>>

Init == current = NoRelease /\ wanted = {} /\ accepted = NoRelease

Ask == /\ \E r \in Releases : wanted' = wanted \cup {r}
       /\ UNCHANGED <<current, accepted>>

Acknowledge == wanted' = {} /\ accepted' = current'

Replace ==
  /\ current' \in wanted
  /\ Acknowledge \/ UNCHANGED <<wanted, accepted>>

Confirm ==
  /\ current \in wanted /\ UNCHANGED current
  /\ Acknowledge

Next == Ask \/ Replace \/ Confirm

Spec == Init /\ [][Next]_vars
=============================================================================

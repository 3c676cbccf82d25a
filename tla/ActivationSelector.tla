------------------------- MODULE ActivationSelector -------------------------
(***************************************************************************)
(* What activation.json promises to whoever updates, rolls back, recovers  *)
(* or launches the Agent: a record of three slots that changes in one      *)
(* atomic step per operation, computed from the record it replaces.  Only  *)
(* recovery gives up a slot that nobody asked to give up, and only one     *)
(* whose version was harmed.                                               *)
(***************************************************************************)
CONSTANTS Slots,   \* a version and the digest of its executable
          None     \* no slot

VARIABLES activation,   \* active, previous and pending slot
          harmed        \* slots that stopped being valid at some point

vars == <<activation, harmed>>

Init == /\ activation = [active |-> None, previous |-> None, pending |-> None]
        /\ harmed = {}

\* A slot that recovery may drop.
Lost(s) == s # None /\ s \in harmed

-----------------------------------------------------------------------------
(* The records an operation may leave behind. *)

Stage(new) ==
  \E s \in Slots : new = [activation EXCEPT !.pending = s]

Activate(new) ==
  /\ activation.pending # None
  /\ new = [active |-> activation.pending, previous |-> activation.active,
            pending |-> None]

Rollback(new) ==
  /\ activation.previous # None
  /\ new = [active |-> activation.previous, previous |-> activation.active,
            pending |-> None]

\* An offline installation becomes active at once when nothing is active or
\* when it asks for it; one that is active already changes nothing.
Register(new) ==
  \E s \in Slots :
    \/ activation.active = None /\ new = [activation EXCEPT !.active = s]
    \/ activation.active = s /\ new = activation
    \/ /\ activation.active \notin {None, s}
       /\ new = [active |-> s, previous |-> activation.active, pending |-> None]

\* Recovery falls back from a lost active slot to the previous one, forgets a
\* lost previous slot, and drops a lost pending slot.
Recover(new) ==
  /\ new.pending # activation.pending =>
       new.pending = None /\ Lost(activation.pending)
  /\ \/ new = [activation EXCEPT !.pending = new.pending]
     \/ /\ Lost(activation.active) /\ activation.previous # None
        /\ new = [active |-> activation.previous, previous |-> None,
                  pending |-> new.pending]
     \/ /\ Lost(activation.previous)
        /\ new = [active |-> activation.active, previous |-> None,
                  pending |-> new.pending]

Selectable(new) ==
  Stage(new) \/ Activate(new) \/ Rollback(new) \/ Register(new) \/ Recover(new)

-----------------------------------------------------------------------------
(* The specification. *)

Select == Selectable(activation') /\ UNCHANGED harmed

Harm == harmed \subseteq harmed' /\ UNCHANGED activation

Next == Select \/ Harm

Spec == Init /\ [][Next]_vars
=============================================================================

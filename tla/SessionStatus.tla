---------------------------- MODULE SessionStatus ----------------------------
(***************************************************************************)
(* What a protected session promises to those who watch it from outside:   *)
(* the command that started it, which sees its result, and the player, who *)
(* sees its status file.  The session goes through the stages of           *)
(* SessionOutcomes, its result agrees with the last of them, and no stage  *)
(* follows the result.  The file takes the stage just entered, or keeps    *)
(* what it shows when it cannot be replaced: it may skip a stage and never *)
(* goes back to one.  A session without a registration has neither.        *)
(***************************************************************************)
EXTENDS SessionOutcomes

VARIABLES bound,    \* the session has a registration, and a status file
          stage,    \* the state last published
          shown,    \* the state in the file
          result    \* "running", "ok" or "err"

vars == <<bound, stage, shown, result>>

Init == /\ bound \in BOOLEAN
        /\ stage = "none" /\ shown = "none" /\ result = "running"

Enter(s) == /\ result = "running" /\ bound
            /\ s \in After(stage)
            /\ stage' = s
            /\ shown' \in {s, shown}
            /\ IF Succeeds(s) THEN result' = "ok"
               ELSE IF Over(s) THEN result' = "err" ELSE result' \in {"running", "err"}

End == /\ result = "running" /\ UNCHANGED <<stage, shown>>
       /\ IF bound THEN result' = "err" ELSE result' \in {"ok", "err"}

Next == /\ UNCHANGED bound
        /\ End \/ \E s \in After(stage) : Enter(s)

Spec == Init /\ [][Next]_vars
=============================================================================

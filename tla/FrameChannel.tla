---------------------------- MODULE FrameChannel ----------------------------
(***************************************************************************)
(* One direction of the private channel between the Agent and the game, as *)
(* its two ends want to see it: whole frames, each one delivered once, in  *)
(* the order in which they were sent, until the receiver goes away.        *)
(***************************************************************************)
EXTENDS Sequences

CONSTANTS Frames, None

VARIABLES queue,      \* frames sent and not delivered
          delivered,  \* the frame delivered last, or None
          open        \* the receiver is there

vars == <<queue, delivered, open>>

Init == queue = <<>> /\ delivered = None /\ open = TRUE

Send == /\ \E f \in Frames : queue' = Append(queue, f)
        /\ UNCHANGED <<delivered, open>>

Deliver == /\ open = TRUE /\ queue # <<>>
           /\ delivered' = Head(queue)
           /\ queue' = Tail(queue)
           /\ UNCHANGED open

\* The receiver goes away, perhaps with the frame that made it leave.
Close == /\ open' = FALSE /\ queue' = <<>>
         /\ \/ UNCHANGED delivered
            \/ queue # <<>> /\ delivered' = Head(queue)

Next == Send \/ Deliver \/ Close

Spec == Init /\ [][Next]_vars
=============================================================================

---------------------------- MODULE ProbeChannel ----------------------------
(***************************************************************************)
(* The game's end of the private channel: certael_agent_channel_read and   *)
(* certael_agent_channel_write of crates/certael-agent-probe, called by    *)
(* several threads of the game on one channel, with the frames of          *)
(* crates/certael-agent-ipc as they cross the two pipes: a header and,     *)
(* unless it is empty, a payload, written and read one after the other.    *)
(*                                                                         *)
(* The Agent at the other end is serve() reduced to what it does with the  *)
(* channel: hello, the wait for a launch bundle, reports for challenges,   *)
(* heartbeats, and the end of the session.  Its reader thread and its      *)
(* queue of one frame count as part of the pipe.                           *)
(*                                                                         *)
(* Calls that fail on their arguments touch nothing and are left out, and  *)
(* the game keeps the contract of the interface: it uses no channel that   *)
(* it has destroyed.                                                       *)
(***************************************************************************)
EXTENDS Naturals, Sequences

CONSTANTS
  Readers,        \* threads of the game that read
  Writers,        \* threads of the game that write
  Capacities,     \* sizes of the buffers they read into
  PipeCapacity,   \* bound of each pipe, in headers and payloads
  None            \* no thread, no frame, no size

Threads == Readers \cup Writers
Frames == {"hello", "health", "report", "grant", "challenge", "shutdown"}
Sent == {"grant", "challenge", "shutdown"}     \* by the game

\* payload.len(), in units that tell a small buffer from a large frame.
Size(f) == CASE f = "shutdown" -> 0 [] f = "report" -> 2 [] OTHER -> 1
Sizes == 0..2

ASSUME ProbeAssumption ==
  /\ Capacities \subseteq Nat
  /\ PipeCapacity \in Nat \ {0}
  /\ None \notin Threads /\ None \notin Frames /\ None \notin Sizes

VARIABLES
  pc,         \* where each thread is
  owner,      \* the thread that holds the channel's mutex
  rest,       \* what is left to write, of each write
  partial,    \* what the read in progress has read of its frame
  pending,    \* state.pending
  hint,       \* history: the size that a small buffer was told and that no
              \* other read has made out of date
  delivered,  \* history: the last frame a read has returned
  toGame, toAgent,   \* the two pipes
  agent,      \* where serve() is
  out,        \* what serve() has left to write
  inbox,      \* what serve() has read of a frame
  taken       \* history: the last frame serve() has received

calls == <<pc, owner, rest>>
reading == <<partial, pending, hint, delivered>>
serving == <<agent, out, inbox, taken>>
vars == <<calls, reading, toGame, toAgent, serving>>

-----------------------------------------------------------------------------
(* Frames and pipes: certael-agent-ipc. *)

Piece == [frame : Frames, part : {"header", "payload"}]

\* write_frame: writing no bytes is not a write.
Pieces(f) ==
  <<[frame |-> f, part |-> "header"]>> \o
  IF Size(f) = 0 THEN <<>> ELSE <<[frame |-> f, part |-> "payload"]>>

\* read_frame returns with this piece.
Last(p) == p.part = "payload" \/ Size(p.frame) = 0

\* The frame that read_frame makes of the pieces it read; None if they are not
\* of one frame.
Parsed(ps) == IF \E f \in Frames : ps = Pieces(f) THEN Head(ps).frame ELSE None

Full(pipe) == Len(pipe) >= PipeCapacity

-----------------------------------------------------------------------------
(* A call of the game. *)

Return(t) == pc' = [pc EXCEPT ![t] = "idle"] /\ owner' = None

CallRead(t) ==
  /\ t \in Readers /\ pc[t] = "idle"
  /\ pc' = [pc EXCEPT ![t] = "read"]
  /\ UNCHANGED <<owner, rest, reading, toGame, toAgent, serving>>

CallWrite(t) ==
  /\ t \in Writers /\ pc[t] = "idle"
  /\ pc' = [pc EXCEPT ![t] = "write"]
  /\ \E f \in Sent : rest' = [rest EXCEPT ![t] = Pieces(f)]
  /\ UNCHANGED <<owner, reading, toGame, toAgent, serving>>

\* channel.state.lock(): a read goes to the pipe unless a frame is pending.
Lock(t) ==
  /\ pc[t] \in {"read", "write"} /\ owner = None
  /\ owner' = t
  /\ pc' = [pc EXCEPT ![t] = IF pc[t] = "write" THEN "send"
                             ELSE IF pending = None THEN "fetch" ELSE "copy"]
  /\ UNCHANGED <<rest, reading, toGame, toAgent, serving>>

\* read_frame waits for the next piece, with the mutex held.
Fetch(t) ==
  /\ pc[t] = "fetch" /\ toGame # <<>>
  /\ toGame' = Tail(toGame)
  /\ IF Last(Head(toGame))
     THEN /\ pending' = Parsed(Append(partial, Head(toGame)))
          /\ partial' = <<>>
          /\ pc' = [pc EXCEPT ![t] = "copy"]
     ELSE /\ partial' = Append(partial, Head(toGame))
          /\ UNCHANGED <<pending, pc>>
  /\ UNCHANGED <<owner, rest, hint, delivered, toAgent, serving>>

\* Mutant of FetchFails: the early return leaves the mutex locked.
FetchFailsLocked(t) ==
  /\ pc[t] = "fetch" /\ toGame = <<>> /\ agent = "closed"
  /\ pc' = [pc EXCEPT ![t] = "idle"]
  /\ partial' = <<>>
  /\ UNCHANGED <<owner, rest, pending, hint, delivered, toGame,
                 toAgent, serving>>

\* Mutant of FetchFails: the read waits for a channel that comes back.
FetchWaits(t) ==
  /\ pc[t] = "fetch" /\ toGame = <<>> /\ agent = "closed"
  /\ UNCHANGED vars

\* The end of the channel: InvalidFrame, and what was read is gone.
FetchFails(t) ==
  /\ pc[t] = "fetch" /\ toGame = <<>> /\ agent = "closed"
  /\ Return(t)
  /\ partial' = <<>>
  /\ UNCHANGED <<rest, pending, hint, delivered, toGame, toAgent, serving>>

\* Mutant of BufferTooSmall: the frame is taken before the size is compared.
BufferTooSmallTakes(t) ==
  /\ pc[t] = "copy" /\ \E c \in Capacities : c < Size(pending)
  /\ hint' = [hint EXCEPT ![t] = Size(pending)]
  /\ pending' = None
  /\ Return(t)
  /\ UNCHANGED <<rest, partial, delivered, toGame, toAgent, serving>>

\* The caller's buffer is too small: the size is reported and the frame stays
\* pending.
BufferTooSmall(t) ==
  /\ pc[t] = "copy" /\ \E c \in Capacities : c < Size(pending)
  /\ hint' = [hint EXCEPT ![t] = Size(pending)]
  /\ Return(t)
  /\ UNCHANGED <<rest, partial, pending, delivered, toGame, toAgent, serving>>

\* Mutant of Copy: the frame stays pending after it was returned.
CopyKeeps(t) ==
  /\ pc[t] = "copy" /\ \E c \in Capacities : c >= Size(pending)
  /\ delivered' = pending
  /\ hint' = [u \in Threads |-> None]
  /\ Return(t)
  /\ UNCHANGED <<rest, partial, pending, toGame, toAgent, serving>>

Copy(t) ==
  /\ pc[t] = "copy" /\ \E c \in Capacities : c >= Size(pending)
  /\ delivered' = pending /\ pending' = None
  /\ hint' = [u \in Threads |-> None]
  /\ Return(t)
  /\ UNCHANGED <<rest, partial, toGame, toAgent, serving>>

\* Mutant of Send: the mutex covers one write_all and not the frame.
SendUnlocks(t) ==
  /\ pc[t] = "send" /\ agent # "closed" /\ ~Full(toAgent)
  /\ toAgent' = Append(toAgent, Head(rest[t]))
  /\ rest' = [rest EXCEPT ![t] = Tail(@)]
  /\ pc' = [pc EXCEPT ![t] = IF Len(rest[t]) = 1 THEN "idle" ELSE "write"]
  /\ owner' = None
  /\ UNCHANGED <<reading, toGame, serving>>

\* write_frame writes a piece, with the mutex held.
Send(t) ==
  /\ pc[t] = "send" /\ agent # "closed" /\ ~Full(toAgent)
  /\ toAgent' = Append(toAgent, Head(rest[t]))
  /\ rest' = [rest EXCEPT ![t] = Tail(@)]
  /\ IF Len(rest[t]) = 1 THEN Return(t) ELSE UNCHANGED <<pc, owner>>
  /\ UNCHANGED <<reading, toGame, serving>>

\* The Agent is gone: InvalidFrame.
SendFails(t) ==
  /\ pc[t] = "send" /\ agent = "closed"
  /\ rest' = [rest EXCEPT ![t] = <<>>]
  /\ Return(t)
  /\ UNCHANGED <<reading, toGame, toAgent, serving>>

-----------------------------------------------------------------------------
(* The Agent. *)

AgentWrites ==
  /\ out # <<>> /\ ~Full(toGame)
  /\ toGame' = Append(toGame, Head(out))
  /\ out' = Tail(out)
  /\ UNCHANGED <<calls, reading, toAgent, agent, inbox, taken>>

\* What serve() does next when it has received f.
React(f) ==
  \/ agent = "await" /\ f = "grant" /\ agent' = "session" /\ out' = Pieces("health")
  \/ agent = "await" /\ f # "grant" /\ agent' = "leaving" /\ out' = Pieces("health")
  \/ agent = "session" /\ f = "challenge" /\ out' = Pieces("report") /\ UNCHANGED agent
  \/ agent = "session" /\ f # "challenge" /\ agent' = "leaving" /\ UNCHANGED out

\* A frame is received once its last piece is read.
AgentReads ==
  /\ agent \in {"await", "session"} /\ out = <<>> /\ toAgent # <<>>
  /\ toAgent' = Tail(toAgent)
  /\ IF Last(Head(toAgent))
     THEN LET f == Parsed(Append(inbox, Head(toAgent)))
          IN taken' = f /\ inbox' = <<>> /\ React(f)
     ELSE /\ inbox' = Append(inbox, Head(toAgent))
          /\ UNCHANGED <<agent, out, taken>>
  /\ UNCHANGED <<calls, reading, toGame>>

\* recv_timeout: no frame came before the next heartbeat, which is a second or
\* more after the last; what was in the pipe has come by then.
Heartbeat ==
  /\ agent = "session" /\ out = <<>> /\ toAgent = <<>>
  /\ out' = Pieces("health")
  /\ UNCHANGED <<calls, reading, toGame, toAgent, agent, inbox, taken>>

\* No thread of the game can take a step inside a call.
Waiting ==
  \A t \in Threads :
    \/ pc[t] = "idle"
    \/ pc[t] \in {"read", "write"} /\ owner # None
    \/ pc[t] = "fetch" /\ toGame = <<>>
    \/ pc[t] = "send" /\ Full(toAgent)

\* No launch bundle came in 15 seconds, which is longer than any call takes
\* that does not wait.
GiveUp ==
  /\ agent = "await" /\ out = <<>> /\ toAgent = <<>> /\ Waiting
  /\ agent' = "late" /\ out' = Pieces("health")
  /\ UNCHANGED <<calls, reading, toGame, toAgent, inbox, taken>>

\* serve() returns, or the Agent is killed; what is on its way to it is lost.
Leave ==
  /\ agent \in {"leaving", "late"} /\ out = <<>>
  /\ agent' = "closed" /\ inbox' = <<>> /\ toAgent' = <<>>
  /\ UNCHANGED <<calls, reading, toGame, out, taken>>

Crash ==
  /\ agent # "closed"
  /\ agent' = "closed" /\ out' = <<>> /\ inbox' = <<>> /\ toAgent' = <<>>
  /\ UNCHANGED <<calls, reading, toGame, taken>>

-----------------------------------------------------------------------------
(* The specification. *)

Init ==
  /\ pc = [t \in Threads |-> "idle"] /\ owner = None
  /\ rest = [t \in Threads |-> <<>>]
  /\ partial = <<>> /\ pending = None /\ delivered = None
  /\ hint = [t \in Threads |-> None]
  /\ toGame = <<>> /\ toAgent = <<>>
  /\ agent = "await" /\ out = Pieces("hello")
  /\ inbox = <<>> /\ taken = None

\* The steps inside a call.
Proceed(t) ==
  \/ Fetch(t) \/ FetchFails(t) \/ BufferTooSmall(t) \/ Copy(t)
  \/ Send(t) \/ SendFails(t)

ThreadStep(t) == CallRead(t) \/ CallWrite(t) \/ Lock(t) \/ Proceed(t)

AgentStep == AgentWrites \/ AgentReads \/ Heartbeat \/ GiveUp \/ Leave

Next == (\E t \in Threads : ThreadStep(t)) \/ AgentStep \/ Crash

Spec == Init /\ [][Next]_vars

\* The thread that holds the mutex runs, and the Agent reads, writes and keeps
\* its timeouts.  Nothing is assumed of the mutex: std::sync::Mutex is not fair.
Fairness ==
  /\ \A t \in Threads : WF_vars(Proceed(t))
  /\ WF_vars(AgentStep)

FairSpec == Spec /\ Fairness

-----------------------------------------------------------------------------
(* Properties. *)

TypeOK ==
  /\ pc \in [Threads -> {"idle", "read", "fetch", "copy", "write", "send"}]
  /\ owner \in Threads \cup {None}
  /\ \A t \in Threads : pc[t] \in {"fetch", "copy", "send"} <=> owner = t
  /\ \A t \in Threads : pc[t] \in {"write", "send"} <=> rest[t] # <<>>
  /\ pending \in Frames \cup {None} /\ delivered \in Frames \cup {None}
  /\ \A t \in Threads : pc[t] = "copy" => pending # None
  /\ \A t \in Threads : pc[t] = "fetch" => pending = None
  /\ partial # <<>> => \E t \in Threads : pc[t] = "fetch"
  /\ hint \in [Threads -> Sizes \cup {None}]
  /\ Len(toGame) <= PipeCapacity /\ Len(toAgent) <= PipeCapacity
  /\ agent \in {"await", "session", "leaving", "late", "closed"}
  /\ taken \in Frames \cup {None}

\* ENGINE-INTEGRATION.md: "A buffer-too-small read reports the required length
\* without consuming the pending frame": the length that a thread was told
\* stays the length of the next frame until a read has returned that frame,
\* whatever the other threads do in between.
HintIsPending ==
  \A t \in Threads : hint[t] # None => pending # None /\ hint[t] = Size(pending)

\* What a piece adds to the frames that are complete.
Completed(p) == IF Last(p) THEN <<p.frame>> ELSE <<>>

\* The frames of a pipe: those whose last piece is in it.
Whole[pipe \in Seq(Piece)] ==
  IF pipe = <<>> THEN <<>> ELSE Completed(Head(pipe)) \o Whole[Tail(pipe)]

ToGame == INSTANCE FrameChannel WITH
  queue <- (IF pending = None THEN <<>> ELSE <<pending>>) \o Whole[toGame],
  open <- TRUE

ToAgent == INSTANCE FrameChannel WITH
  queue <- Whole[toAgent], delivered <- taken, open <- agent # "closed"

\* The threads that read share one sequence of the Agent's frames: each frame
\* is returned by one read, whole, in the Agent's order, and none is lost to a
\* buffer that was too small.
ReadsInOrder == ToGame!Spec

\* The frames that several threads write reach the Agent whole and one after
\* the other: no header is followed by another frame's payload.
WritesWhole == ToAgent!Spec

\* Both ends wait for the other to read.
MutualWait == Full(toGame) /\ Full(toAgent)

\* A read waits for its frame, and a write for room, with the mutex held and
\* without a timeout.  The thread that holds it always gives it back: a report, a
\* heartbeat, the Agent's admission timeout or the end of the channel comes.  The
\* one exception lasts: a game that went on writing without reading, and an Agent
\* that writes to it, wait for each other until one of them is stopped.
HolderReturns ==
  \A t \in Threads :
    owner = t ~> (owner # t \/ [](MutualWait /\ owner = t /\ pc[t] = "send"))

\* ENGINE-INTEGRATION.md, the expected exchange: the Agent says hello and the
\* game answers with its launch bundle.  The Agent never gives up on a game
\* that is about to write.
NeverGivesUpOnWriter ==
  [][agent' = "late" => \A t \in Threads : pc[t] # "write"]_agent
=============================================================================

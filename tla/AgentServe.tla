----------------------------- MODULE AgentServe -----------------------------
(***************************************************************************)
(* The protected session of one game launch: serve() in                    *)
(* crates/certael-agent/src/runtime.rs, the thread that reads the game's   *)
(* channel for it, the channel itself, and the wall clock.                 *)
(*                                                                         *)
(* The main thread says hello, waits for a signed launch bundle, verifies  *)
(* it and the installed files, and then answers challenges, sends          *)
(* heartbeats and enforces the report deadline and the policy expiry until *)
(* it returns.  The reader thread moves frames from the inherited channel  *)
(* into a bounded queue.  The game is the environment: it may send any     *)
(* frame of GameFrames at any time, stop reading, or go away.              *)
(*                                                                         *)
(* Frames are positions in "wire", the history of what the game sent: the  *)
(* reader has read the first "read" of them, has queued the first          *)
(* "queued", and the main thread has received the first "taken".           *)
(***************************************************************************)
EXTENDS Integers, Sequences, SessionOutcomes

CONSTANTS
  TicksPerSecond,     \* resolution of the clock below now_unix()'s seconds
  Horizon,            \* bound: the last tick, standing for every later one
  AdmissionTimeout,   \* seconds serve() waits for the launch bundle
  PolicyExpires,      \* second at which the signed policy expires
  HeartbeatSeconds,   \* signed policy: heartbeat_seconds
  ReportSeconds,      \* signed policy: report_seconds
  GraceSeconds,       \* signed policy: disconnect_grace_seconds
  ChallengeWindow,    \* longest accepted lifetime of a challenge, in seconds
  MaxSequence,        \* largest sequence number (u64::MAX)
  QueueCapacity,      \* bound of the sync_channel between the two threads
  PipeCapacity,       \* frames the OS buffers towards the game
  Nonces,             \* challenge nonces
  GameFrames,         \* frames the game may send
  MaxFrames,          \* bound on the frames the game sends
  Launches,           \* kinds of launch: "plain" (no registration), "registered",
                      \* "updatable" (registered, with an update channel)
  Digests,            \* 32-byte digests
  NoDigest,           \* the all-zero digest before the first report
  Digest(_)           \* report_digest: SHA-256 of an encoded signed report

FrameTypes == {"LaunchGrant", "Challenge", "Revocation", "Shutdown",
               "Unexpected", "Malformed", "Eof"}

\* A frame: its type, what its claims amount to once decoded and verified
\* ("foreign": valid, but for another tenant, game or environment), its nonce
\* and the second at which it expires.
Frame == [type : FrameTypes,
          claim : {"good", "bad", "outdated", "foreign"},
          nonce : Nonces,
          expires : Nat]

\* A signed report: "at" is observed_at_unix.  Its observations (platform,
\* modules, whether the process identity is stable) decide nothing here.
Report == [sequence : 0..MaxSequence, nonce : Nonces, at : 0..Horizon,
           previous : Digests]

ASSUME ServeAssumption ==
  /\ TicksPerSecond \in Nat \ {0}
  /\ PolicyExpires \in Nat
  /\ Horizon \in Nat
  /\ (PolicyExpires + 1) * TicksPerSecond <= Horizon
  /\ AdmissionTimeout \in Nat
  /\ HeartbeatSeconds \in Nat \ {0}
  /\ ReportSeconds \in Nat \ {0}
  /\ GraceSeconds \in Nat
  /\ ChallengeWindow \in Nat
  /\ MaxSequence \in Nat \ {0}
  /\ QueueCapacity \in Nat \ {0}
  /\ PipeCapacity \in Nat \ {0}
  /\ GameFrames \subseteq Frame
  /\ \A f \in GameFrames : f.type # "Eof"
  /\ Nonces # {}
  /\ MaxFrames \in Nat
  /\ Launches \subseteq {"plain", "registered", "updatable"}
  /\ NoDigest \in Digests
  /\ \A r \in Report : Digest(r) \in Digests

VARIABLES
  clock,          \* ticks since the epoch of the model
  launch,         \* what the RuntimeState is bound to, a member of Launches
  wire,           \* every frame the game sent, oldest first
  read,           \* frames the reader thread has read
  queued,         \* frames the reader thread has put in the queue
  taken,          \* frames the main thread has received
  open,           \* the game holds its end of the channel
  unread,         \* frames written to the game that it has not read
  pc,             \* where the main thread is
  until,          \* tick at which the current recv_timeout gives up
  now,            \* now_unix() as last read by the loop body
  health,         \* the health state about to be written
  pending,        \* the signed report about to be written
  sequence,       \* number of the next report
  previous,       \* digest of the last report
  nextHeartbeat,  \* second of the next heartbeat
  deadline,       \* report_deadline
  stage,          \* state published last, whether or not the file took it
  status,         \* runtime status file of the registered launch
  sent,           \* last health state that reached the channel
  reports         \* every report that reached the channel, oldest first

inbound == <<wire, read, queued>>
outside == <<clock, launch, inbound, open>>   \* what the main thread leaves alone
session == <<now, pending, sequence, previous, nextHeartbeat, deadline>>
display == <<stage, status>>
vars == <<clock, launch, inbound, taken, open, unread, pc, until, health,
          session, display, sent, reports>>

Ended == {"ok", "err"}
Writing == {"hello", "verdict", "ready", "heartbeat", "report", "final"}
PCs == Writing \cup Ended \cup
       {"admission", "verify", "update", "files", "top", "recv", "inspect"}

ReadErrors == {"Malformed", "Eof"}
Refusals == {"rejected", "update_required"}
HealthStates == {"none", "ready", "protected"} \cup Refusals \cup Finals

StatusStates == {"none", "awaiting_server_admission",
   "verifying_signed_launch_bundle", "protected", "stopped"}
   \cup Failures \cup Finals

AnyNonce == CHOOSE n \in Nonces : TRUE
EofFrame == [type |-> "Eof", claim |-> "bad", nonce |-> AnyNonce, expires |-> 0]

-----------------------------------------------------------------------------
(* Helpers. *)

\* now_unix(): whole seconds of the wall clock.
NowUnix == clock \div TicksPerSecond

Least(a, b) == IF a <= b THEN a ELSE b

\* Mutant of WaitUntil: a truncated clock is compensated by a second too much.
WaitUntilLate(s) == Least(clock + (s + 1) * TicksPerSecond, Horizon)

\* The tick at which a wait of s seconds from here ends.
WaitUntil(s) == Least(clock + s * TicksPerSecond, Horizon)

\* state.registration and state.automatic_update are Some.
registered == launch # "plain"
autoUpdate == launch = "updatable"

\* publish_runtime: only a registered launch has a status file.  Its error is
\* discarded: the file then keeps the state it had, and serve() goes on.
Publish(s) == IF registered THEN stage' = s /\ status' \in {s, status}
                            ELSE UNCHANGED display

Running == pc \notin Ended
Incoming == wire[taken + 1]
QueueEmpty == queued = taken
ReaderDone == read > 0 /\ wire[read].type \in ReadErrors /\ queued = read

\* Mutant of Delivered: the write never waits for the game to read.
DeliveredUnbounded == open /\ unread' = unread + 1

\* write_frame into the channel: blocks while the game's side is full and
\* fails once the game has closed it.
Delivered == open /\ unread < PipeCapacity /\ unread' = unread + 1
Broken == ~open /\ unread' = unread

\* Receives the head of the queue.
Take == ~QueueEmpty /\ taken' = taken + 1

Refuse(h) == /\ health' = h
             /\ Publish(IF h = "rejected" THEN "launch_failed" ELSE h)
             /\ pc' = "verdict"

Finish(h) == health' = h /\ pc' = "final"

-----------------------------------------------------------------------------
(* The game, the reader thread and the clock. *)

\* Any time may pass between two steps of the main thread.
Tick ==
  /\ Running /\ clock < Horizon
  /\ clock' = clock + 1
  /\ UNCHANGED <<launch, inbound, taken, open, unread, pc, until, health,
                 session, display, sent, reports>>

GameSend(f) ==
  /\ Running /\ open /\ Len(wire) < MaxFrames
  /\ wire' = Append(wire, f)
  /\ UNCHANGED <<clock, launch, read, queued, taken, open, unread, pc, until,
                 health, session, display, sent, reports>>

\* The game reads one frame.
GameRead ==
  /\ Running /\ open /\ unread > 0
  /\ unread' = unread - 1
  /\ UNCHANGED <<outside, taken, pc, until, health, session, display, sent,
                 reports>>

\* The game exits or drops the channel: what it sent can still be read, then
\* the reader sees end of file; writes to it fail.
GameClose ==
  /\ Running /\ open
  /\ open' = FALSE
  /\ wire' = Append(wire, EofFrame)
  /\ UNCHANGED <<clock, launch, read, queued, taken, unread, pc, until,
                 health, session, display, sent, reports>>

ReaderRead ==
  /\ Running /\ ~ReaderDone
  /\ queued = read /\ read < Len(wire)
  /\ read' = read + 1
  /\ UNCHANGED <<clock, launch, wire, queued, taken, open, unread, pc, until,
                 health, session, display, sent, reports>>

\* frames.send blocks while the queue is full.
ReaderSend ==
  /\ Running
  /\ queued < read /\ queued - taken < QueueCapacity
  /\ queued' = queued + 1
  /\ UNCHANGED <<clock, launch, wire, read, taken, open, unread, pc, until,
                 health, session, display, sent, reports>>

-----------------------------------------------------------------------------
(* Admission. *)

SendHello ==
  /\ pc = "hello"
  /\ \/ /\ Delivered
        /\ pc' = "admission"
        /\ until' = WaitUntil(AdmissionTimeout)
        /\ Publish("awaiting_server_admission")
     \/ /\ Broken
        /\ pc' = "err"
        /\ UNCHANGED <<until, display>>
  /\ UNCHANGED <<outside, taken, health, session, sent, reports>>

\* The first frame must be a launch bundle; a read error is refused as well.
RecvAdmission ==
  /\ pc = "admission" /\ Take
  /\ \/ /\ Incoming.type = "LaunchGrant"
        /\ pc' = "verify"
        /\ Publish("verifying_signed_launch_bundle")
        /\ UNCHANGED health
     \/ /\ Incoming.type # "LaunchGrant"
        /\ Refuse("rejected")
  /\ UNCHANGED <<outside, unread, until, session, sent, reports>>

\* Mutant of AdmissionExpired: a plain recv() without a timeout.
AdmissionUnbounded ==
  /\ pc = "admission" /\ QueueEmpty /\ ReaderDone
  /\ Refuse("rejected")
  /\ UNCHANGED <<outside, taken, unread, until, session, sent, reports>>

\* recv_timeout re-examines the queue before it reports a timeout.
AdmissionExpired ==
  /\ pc = "admission" /\ QueueEmpty
  /\ clock >= until \/ ReaderDone
  /\ Refuse("rejected")
  /\ UNCHANGED <<outside, taken, unread, until, session, sent, reports>>

\* verify_launch_bundle and the registration binding.
VerifyBundle ==
  /\ pc = "verify"
  /\ LET bundle == wire[taken]
         live == NowUnix < PolicyExpires /\ NowUnix < bundle.expires
     IN  \/ /\ live /\ bundle.claim = "outdated"
            /\ Refuse("update_required")
         \/ /\ \/ ~live
               \/ bundle.claim = "bad"
               \/ bundle.claim = "foreign" /\ registered
            /\ Refuse("rejected")
         \/ /\ live
            /\ bundle.claim = "good" \/ (bundle.claim = "foreign" /\ ~registered)
            /\ pc' = "files"
            /\ UNCHANGED <<health, display>>
  /\ UNCHANGED <<outside, taken, unread, until, session, sent, reports>>

\* Mutant of WriteVerdict: every refusal starts the updater.
WriteVerdictInstalls ==
  /\ pc = "verdict"
  /\ \/ Delivered /\ sent' = health
     \/ Broken /\ UNCHANGED sent
  /\ pc' = IF autoUpdate THEN "update" ELSE "err"
  /\ IF autoUpdate THEN Publish("installing_required_update") ELSE UNCHANGED display
  /\ UNCHANGED <<outside, taken, until, health, session, reports>>

\* The refusal is written on a best-effort basis; a required update is then
\* installed when the launch is bound to an update channel.
WriteVerdict ==
  /\ pc = "verdict"
  /\ \/ Delivered /\ sent' = health
     \/ Broken /\ UNCHANGED sent
  /\ \/ /\ health = "update_required" /\ autoUpdate
        /\ pc' = "update"
        /\ Publish("installing_required_update")
     \/ /\ ~(health = "update_required" /\ autoUpdate)
        /\ pc' = "err"
        /\ UNCHANGED display
  /\ UNCHANGED <<outside, taken, until, health, session, reports>>

\* verify_stage_and_install_automatic succeeds or fails; a failure to start the
\* updater returns before anything is published.
InstallUpdate ==
  /\ pc = "update"
  /\ \/ \E s \in {"update_ready", "update_failed"} : Publish(s)
     \/ UNCHANGED display
  /\ pc' = "err"
  /\ UNCHANGED <<outside, taken, unread, until, health, session, sent,
                 reports>>

\* verify_files: every installed file against the signed manifest.
CheckFiles ==
  /\ pc = "files"
  /\ \/ /\ health' = "ready" /\ pc' = "ready"
        /\ UNCHANGED display
     \/ Refuse("rejected")
  /\ UNCHANGED <<outside, taken, unread, until, session, sent, reports>>

WriteReady ==
  /\ pc = "ready"
  /\ \/ /\ Delivered
        /\ sent' = health
        /\ Publish("protected")
        /\ sequence' = 1
        /\ previous' = NoDigest
        /\ nextHeartbeat' = NowUnix + HeartbeatSeconds
        /\ deadline' = NowUnix + ReportSeconds + GraceSeconds
        /\ pc' = "top"
     \/ /\ Broken
        /\ pc' = "err"
        /\ UNCHANGED <<sent, display, sequence, previous, nextHeartbeat, deadline>>
  /\ UNCHANGED <<outside, taken, until, now, pending, health, reports>>

-----------------------------------------------------------------------------
(* The protected loop. *)

\* Mutant of LoopTop: the policy's expiry is left to the report deadline.
LoopTopNoExpiry ==
  /\ pc = "top"
  /\ \/ /\ NowUnix >= deadline
        /\ Finish("lost")
        /\ UNCHANGED until
     \/ /\ NowUnix < deadline
        /\ until' = WaitUntil(1)
        /\ pc' = "recv"
        /\ UNCHANGED health
  /\ UNCHANGED <<outside, taken, unread, session, display, sent, reports>>

\* The limits are tested once per iteration, before the wait.
LoopTop ==
  /\ pc = "top"
  /\ \/ /\ NowUnix >= PolicyExpires
        /\ Finish("expired")
        /\ UNCHANGED until
     \/ /\ NowUnix < PolicyExpires /\ NowUnix >= deadline
        /\ Finish("lost")
        /\ UNCHANGED until
     \/ /\ NowUnix < PolicyExpires /\ NowUnix < deadline
        /\ LET wakeAt == Least(nextHeartbeat, Least(deadline, PolicyExpires))
           IN  until' = WaitUntil(IF wakeAt - NowUnix >= 1 THEN wakeAt - NowUnix ELSE 1)
        /\ pc' = "recv"
        /\ UNCHANGED health
  /\ UNCHANGED <<outside, taken, unread, session, display, sent, reports>>

WaitTimeout ==
  /\ pc = "recv" /\ QueueEmpty /\ ~ReaderDone /\ clock >= until
  /\ now' = NowUnix
  /\ \/ /\ NowUnix >= nextHeartbeat /\ NowUnix < deadline
        /\ health' = "protected" /\ pc' = "heartbeat"
     \/ /\ ~(NowUnix >= nextHeartbeat /\ NowUnix < deadline)
        /\ pc' = "top" /\ UNCHANGED health
  /\ UNCHANGED <<outside, taken, unread, until, pending, sequence, previous,
                 nextHeartbeat, deadline, display, sent, reports>>

WriteHeartbeat ==
  /\ pc = "heartbeat"
  /\ \/ /\ Delivered
        /\ sent' = health
        /\ Publish("protected")
        /\ nextHeartbeat' = now + HeartbeatSeconds
        /\ pc' = "top"
     \/ /\ Broken
        /\ pc' = "err"
        /\ UNCHANGED <<sent, display, nextHeartbeat>>
  /\ UNCHANGED <<outside, taken, until, health, now, pending, sequence,
                 previous, deadline, reports>>

\* Mutant of RecvStop: the loop goes on after the channel ended.
RecvStopContinues ==
  /\ pc = "recv" /\ Take /\ Incoming.type = "Eof"
  /\ Publish("stopped")
  /\ pc' = "top"
  /\ UNCHANGED <<outside, unread, until, health, session, sent, reports>>

\* End of file, a vanished reader, or an empty shutdown frame ends the session
\* without an error.
RecvStop ==
  /\ pc = "recv"
  /\ \/ /\ Take
        /\ \/ Incoming.type = "Eof"
           \/ Incoming.type = "Shutdown" /\ Incoming.claim = "good"
     \/ QueueEmpty /\ ReaderDone /\ UNCHANGED taken
  /\ Publish("stopped")
  /\ pc' = "ok"
  /\ UNCHANGED <<outside, unread, until, health, session, sent, reports>>

\* Mutant of Acceptable: the challenge is not bound to this session.
AcceptableUnbound(challenge) ==
  NowUnix < challenge.expires /\ challenge.expires <= NowUnix + ChallengeWindow

\* decode_challenge's window, and the binding to this session.
Acceptable(challenge) ==
  /\ challenge.claim = "good"
  /\ NowUnix < challenge.expires
  /\ challenge.expires <= NowUnix + ChallengeWindow

RecvChallenge ==
  /\ pc = "recv" /\ Take
  /\ Incoming.type = "Challenge" /\ Acceptable(Incoming)
  /\ now' = NowUnix
  /\ pc' = "inspect"
  /\ UNCHANGED <<outside, unread, until, health, pending, sequence, previous,
                 nextHeartbeat, deadline, display, sent, reports>>

\* Mutant of RecvRevocation: a revocation is dropped like an unknown notice.
RevocationIgnored ==
  /\ pc = "recv" /\ Take /\ Incoming.type = "Revocation"
  /\ pc' = "top"
  /\ UNCHANGED <<outside, unread, until, health, session, display, sent, reports>>

RecvRevocation ==
  /\ pc = "recv" /\ Take
  /\ Incoming.type = "Revocation" /\ Incoming.claim = "good"
  /\ Finish("revoked")
  /\ UNCHANGED <<outside, unread, until, session, display, sent, reports>>

\* Every other frame ends the session with an error and no further word.
RecvFatal ==
  /\ pc = "recv" /\ Take
  /\ \/ Incoming.type \in {"LaunchGrant", "Unexpected", "Malformed"}
     \/ Incoming.type = "Challenge" /\ ~Acceptable(Incoming)
     \/ Incoming.type \in {"Revocation", "Shutdown"} /\ Incoming.claim # "good"
  /\ pc' = "err"
  /\ UNCHANGED <<outside, unread, until, health, session, display, sent,
                 reports>>

\* The executable is hashed again; a report is built, signed and made the
\* predecessor of the next one before it is written.
InspectAndSign ==
  /\ pc = "inspect"
  /\ \/ /\ pc' = "err"
        /\ UNCHANGED <<pending, sequence, previous, deadline>>
     \/ LET report == [sequence |-> sequence, nonce |-> wire[taken].nonce,
                       at |-> now, previous |-> previous]
        IN  /\ previous' = Digest(report)
            /\ deadline' = now + ReportSeconds + GraceSeconds
            /\ \/ /\ sequence < MaxSequence
                  /\ sequence' = sequence + 1
                  /\ pending' = report
                  /\ pc' = "report"
               \/ /\ sequence = MaxSequence
                  /\ pc' = "err"
                  /\ UNCHANGED <<sequence, pending>>
  /\ UNCHANGED <<outside, taken, unread, until, health, now, nextHeartbeat,
                 display, sent, reports>>

\* Mutant of WriteReport: the report is written again after it went out.
WriteReportTwice ==
  /\ pc = "report" /\ Delivered
  /\ reports' = reports \o <<pending, pending>>
  /\ Publish("protected")
  /\ pc' = "top"
  /\ UNCHANGED <<outside, taken, until, health, session, sent>>

WriteReport ==
  /\ pc = "report"
  /\ \/ /\ Delivered
        /\ reports' = Append(reports, pending)
        /\ Publish("protected")
        /\ pc' = "top"
     \/ /\ Broken
        /\ pc' = "err"
        /\ UNCHANGED <<reports, display>>
  /\ UNCHANGED <<outside, taken, until, health, session, sent>>

\* Mutants of WriteFinal: the verdict is published although it could not be
\* written; the loop goes on after the verdict.
WriteFinalUnheard ==
  /\ pc = "final"
  /\ \/ Delivered /\ sent' = health
     \/ Broken /\ UNCHANGED sent
  /\ Publish(health)
  /\ pc' = "err"
  /\ UNCHANGED <<outside, taken, until, health, session, reports>>

WriteFinalContinues ==
  /\ pc = "final" /\ Delivered
  /\ sent' = health
  /\ Publish(health)
  /\ pc' = "top"
  /\ UNCHANGED <<outside, taken, until, health, session, reports>>

\* Expiry, loss and revocation are announced before they are published; a
\* failed write skips the publication.
WriteFinal ==
  /\ pc = "final"
  /\ \/ /\ Delivered
        /\ sent' = health
        /\ Publish(health)
     \/ Broken /\ UNCHANGED <<sent, display>>
  /\ pc' = "err"
  /\ UNCHANGED <<outside, taken, until, health, session, reports>>

-----------------------------------------------------------------------------
(* The specification. *)

Init ==
  /\ clock = 0
  /\ launch \in Launches
  /\ wire = <<>> /\ read = 0 /\ queued = 0 /\ taken = 0
  /\ open = TRUE /\ unread = 0
  /\ pc = "hello" /\ until = 0 /\ now = 0 /\ health = "none"
  /\ pending = [sequence |-> 0, nonce |-> AnyNonce, at |-> 0,
                previous |-> NoDigest]
  /\ sequence = 0 /\ previous = NoDigest
  /\ nextHeartbeat = 0 /\ deadline = 0
  /\ stage = "none" /\ status = "none" /\ sent = "none" /\ reports = <<>>

ServeStep ==
  \/ SendHello \/ RecvAdmission \/ AdmissionExpired \/ VerifyBundle
  \/ WriteVerdict \/ InstallUpdate \/ CheckFiles \/ WriteReady
  \/ LoopTop \/ WaitTimeout \/ WriteHeartbeat \/ RecvStop \/ RecvChallenge
  \/ RecvRevocation \/ RecvFatal \/ InspectAndSign \/ WriteReport \/ WriteFinal

ReaderStep == ReaderRead \/ ReaderSend

GameStep == (\E f \in GameFrames : GameSend(f)) \/ GameRead \/ GameClose

\* serve() has returned.
Returned == ~Running /\ UNCHANGED vars

Next == ServeStep \/ ReaderStep \/ GameStep \/ Tick \/ Returned

Spec == Init /\ [][Next]_vars

\* Both threads and the clock keep going; nothing is assumed of the game.
ThreadFairness ==
  WF_vars(ServeStep) /\ WF_vars(ReaderStep) /\ WF_vars(Tick)

AgentFairSpec == Spec /\ ThreadFairness

\* In addition, a game that holds the channel keeps reading it.
FairSpec == AgentFairSpec /\ WF_vars(GameRead)

-----------------------------------------------------------------------------
(* Properties. *)

TypeOK ==
  /\ clock \in 0..Horizon /\ until \in 0..Horizon
  /\ launch \in Launches /\ open \in BOOLEAN
  /\ wire \in Seq(Frame)
  /\ read \in Nat /\ queued \in Nat /\ taken \in Nat
  /\ taken <= queued /\ queued <= read /\ read <= Len(wire)
  /\ unread \in 0..PipeCapacity
  /\ pc \in PCs
  /\ now \in 0..Horizon
  /\ health \in HealthStates /\ sent \in HealthStates
  /\ pc = "final" => health \in Finals
  /\ pc \in {"verify", "inspect"} => taken > 0
  /\ pending \in Report
  /\ sequence \in 0..MaxSequence
  /\ previous \in Digests
  /\ nextHeartbeat \in Nat /\ deadline \in Nat
  /\ stage \in StatusStates /\ status \in StatusStates
  /\ reports \in Seq(Report)

\* PROTOCOL.md's "exact sequence and SHA-256 report chain": the reports that
\* reached the channel are numbered 1, 2, 3, ... and each one names the digest
\* of the one before it, although the chain state is advanced before the write
\* that may fail or block.
ReportChain ==
  \A i \in 1..Len(reports) :
    /\ reports[i].sequence = i
    /\ reports[i].previous = IF i = 1 THEN NoDigest ELSE Digest(reports[i - 1])

\* A launch bundle admits this launch.
Admits(f) == /\ f.type = "LaunchGrant"
             /\ f.claim = "good" \/ (f.claim = "foreign" /\ ~registered)

\* Across the two threads and the bounded queue between them no frame is lost,
\* repeated or reordered: the first frame the game sent was an admitted launch
\* bundle, and report i answers frame i + 1, a challenge of this session.  In
\* particular no report is sent after a revocation, a shutdown or a malformed
\* frame that the game sent before the challenge.
ReportAnswersChallenge ==
  reports # <<>> =>
    /\ Len(wire) > Len(reports)
    /\ Admits(wire[1])
    /\ \A i \in 1..Len(reports) :
         /\ wire[i + 1].type = "Challenge" /\ wire[i + 1].claim = "good"
         /\ reports[i].nonce = wire[i + 1].nonce

\* The loop tests the policy's expiry only before it waits, so a challenge that
\* arrives during the wait can still be answered after the expiry; but only
\* one: a report observed at or after the expiry is the last of its session.
LateReportIsLast ==
  \A i \in 1..Len(reports) :
    i < Len(reports) => reports[i].at < PolicyExpires

\* The wait is computed in whole seconds from a truncated clock and never less
\* than one second; still the loop never sleeps a full second beyond the report
\* deadline or the policy expiry.
SleepBounded ==
  pc = "recv" =>
    /\ until < (deadline + 1) * TicksPerSecond
    /\ until < (PolicyExpires + 1) * TicksPerSecond

\* A publication may fail unnoticed, so the status file may lag; but it never
\* runs ahead of what the game was told: it claims protection, expiry, loss or
\* revocation only once that was announced, "stopped" only once the session has
\* ended normally, and a refusal only of a game that was never told it was
\* protected.  A verdict the game was told is always published, however late.
StatusFollowsWire ==
  /\ status = "protected" => sent \in {"ready", "protected"} \cup Finals
  /\ status \in Finals => sent = status
  /\ status = "stopped" => pc = "ok"
  /\ status \in Failures => sent \in {"none"} \cup Refusals
  /\ registered /\ sent \in Finals => stage = sent

\* The reader's last act is to queue the error that ended it, and the main
\* thread returns when it receives that error: it never waits on a queue that
\* nobody will fill, and the two Disconnected arms are never taken.
NeverDisconnected ==
  pc \in {"admission", "recv"} => ~(QueueEmpty /\ ReaderDone)

\* A verdict on the session (refused, expired, lost, revoked) is the last word
\* on the channel: no step writes a health state or a report after it.
VerdictIsLast ==
  [][(sent \in Refusals \cup Finals) => (sent' = sent /\ reports' = reports)]_vars

\* serve() always returns: the admission timeout, the report deadline or the
\* policy expiry ends a session the game does not end.
Returns == <>(pc \in Ended)

\* What the command that launched the game and the player's screen may rely on:
\* the states serve() publishes follow one another in the order of
\* SessionOutcomes and it succeeds exactly when the last one is "stopped",
\* whether or not the file took it; the file shows states that were published,
\* may skip some, and never goes back.
Progress == INSTANCE SessionStatus
  WITH bound <- registered, shown <- status,
       result <- IF pc \in Ended THEN pc ELSE "running"
StatusInOrder == Progress!Spec

\* PROTOCOL.md's "exact sequence and SHA-256 report chain", as the abstract
\* chain that the session library implements as well.
Chain == INSTANCE IntegrityChain WITH issued <- reports
ReportsFormChain == Chain!Spec
=============================================================================

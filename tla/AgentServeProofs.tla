-------------------------- MODULE AgentServeProofs --------------------------
(***************************************************************************)
(* Proofs about AgentServe, for every policy, clock resolution, queue and  *)
(* pipe capacity, set of frames and digest function.                       *)
(***************************************************************************)
EXTENDS AgentServe, SequenceRecursion

(***************************************************************************)
(* The inductive invariant.  The properties speak of what reached the      *)
(* channel; to carry them through a step one has to know, at every point   *)
(* of serve(), how its locals relate to that history.                      *)
(***************************************************************************)
Before == {"hello", "admission", "verify", "files", "ready"}
InLoop == {"top", "recv", "heartbeat"}
Answering == {"inspect", "report"}

LastDigest == IF reports = <<>> THEN NoDigest ELSE Digest(reports[Len(reports)])

\* The chain state is one report ahead of the channel while a report waits to
\* be written, and in step with it otherwise.
ChainInv ==
  /\ ReportChain
  /\ pc \in Before \cup {"verdict", "update"} => reports = <<>>
  /\ pc \in InLoop \cup {"inspect"} =>
       sequence = Len(reports) + 1 /\ previous = LastDigest
  /\ pc = "report" =>
       /\ pending.sequence = Len(reports) + 1 /\ pending.previous = LastDigest
       /\ sequence = Len(reports) + 2 /\ previous = Digest(pending)

\* Frames received so far: the bundle, and one challenge per report.
FrameInv ==
  /\ ReportAnswersChallenge
  /\ pc \in {"hello", "admission"} => taken = 0
  /\ pc = "verify" => taken = 1 /\ wire[1].type = "LaunchGrant"
  /\ pc \in {"files", "ready"} => taken = 1
  /\ pc \in InLoop => taken = Len(reports) + 1
  /\ pc \in Answering =>
       /\ taken = Len(reports) + 2
       /\ wire[taken].type = "Challenge" /\ wire[taken].claim = "good"
  /\ pc \in {"files", "ready"} \cup InLoop \cup Answering => Admits(wire[1])
  /\ pc = "report" => pending.nonce = wire[taken].nonce

\* No report is from the future, and past the expiry test all are in time.
TimeInv ==
  /\ LateReportIsLast
  /\ now <= NowUnix
  /\ pc = "report" => pending.at = now
  /\ \A i \in 1..Len(reports) : reports[i].at <= NowUnix
  /\ pc \in {"recv", "heartbeat"} \cup Answering =>
       \A i \in 1..Len(reports) : reports[i].at < PolicyExpires

\* The status file and the last health state, at every point of serve().
StatusInv ==
  /\ StatusFollowsWire
  /\ ~registered => status = "none"
  /\ pc \in Before \cup {"verdict", "update"} =>
       status \notin {"protected", "stopped"} \cup Finals
  /\ pc \in Before \cup InLoop \cup Answering \cup {"final"} =>
       status \notin Failures
  /\ pc \in Before \cup {"verdict"} => sent = "none"
  /\ pc = "update" => sent \in {"none"} \cup Refusals
  /\ pc \in InLoop \cup Answering \cup {"final"} => sent \in {"ready", "protected"}
  /\ pc = "verdict" => health \in Refusals
  /\ pc = "ready" => health = "ready"
  /\ pc = "heartbeat" => health = "protected"
  /\ pc = "final" => health \in Finals

IInv == TypeOK /\ ChainInv /\ FrameInv /\ TimeInv /\ StatusInv /\ SleepBounded

-----------------------------------------------------------------------------
(* Arithmetic of the truncated clock. *)

\* now_unix() is the whole second the clock is in.
LEMMA SecondBounds ==
  ASSUME NEW t \in Nat, NEW k \in Nat \ {0}
  PROVE  /\ t \div k \in Nat
         /\ t \div k <= t
         /\ (t \div k) * k <= t
         /\ t < ((t \div k) + 1) * k
  OBVIOUS

\* A later tick is never in an earlier second.
LEMMA SecondMonotone ==
  ASSUME NEW t \in Nat, NEW k \in Nat \ {0}
  PROVE  t \div k <= (t + 1) \div k
  OBVIOUS

\* A wait of w seconds from tick t ends before the second after n + w.
LEMMA WaitEnds ==
  ASSUME NEW t \in Nat, NEW k \in Nat \ {0}, NEW w \in Nat, NEW d \in Nat,
         (t \div k) + w <= d
  PROVE  t + w * k < (d + 1) * k
  OBVIOUS

\* The wait until the first of three moments, but one second at least.
LEMMA WaitSeconds ==
  ASSUME NEW a \in Nat, NEW b \in Nat, NEW c \in Nat, NEW n \in Nat
  PROVE  (IF Least(a, Least(b, c)) - n >= 1 THEN Least(a, Least(b, c)) - n ELSE 1) \in Nat
  BY DEF Least

-----------------------------------------------------------------------------
(* Type correctness. *)

\* Every second read from the clock is a second of the model.
LEMMA NowType == TypeOK => NowUnix \in Nat /\ NowUnix <= clock /\ NowUnix \in 0..Horizon
BY ServeAssumption, SecondBounds DEF TypeOK, NowUnix

\* The end of a wait is a tick of the model.
LEMMA WaitType ==
  ASSUME TypeOK, NEW w \in Nat
  PROVE  /\ WaitUntil(w) \in 0..Horizon
         /\ WaitUntil(w) <= clock + w * TicksPerSecond
BY ServeAssumption DEF TypeOK, WaitUntil, Least

\* The end-of-file marker is a frame.
LEMMA EofType == EofFrame \in Frame
BY ServeAssumption DEF EofFrame, AnyNonce, Frame, FrameTypes

\* Every step of serve(), its reader, the game and the clock keeps the types.
LEMMA TypeStep == TypeOK /\ [Next]_vars => TypeOK'
<1> SUFFICES ASSUME TypeOK, [Next]_vars PROVE TypeOK'
  OBVIOUS
<1> USE ServeAssumption, NowType DEF TypeOK, vars, outside, inbound, session,
        StatusStates, HealthStates, Failures, Finals, Refusals, display
<1>1. CASE Tick
  BY <1>1 DEF Tick
<1>2. CASE GameRead
  BY <1>2 DEF GameRead
<1>3. CASE GameClose
  <2>1. open' \in BOOLEAN
    BY <1>3 DEF GameClose
  <2>2. wire' \in Seq(Frame) /\ Len(wire') = Len(wire) + 1
    BY <1>3, EofType DEF GameClose
  <2> QED
    BY <1>3, <2>1, <2>2 DEF GameClose
<1>4. CASE ReaderRead
  BY <1>4 DEF ReaderRead
<1>5. CASE ReaderSend
  BY <1>5 DEF ReaderSend
<1>6. CASE SendHello
  <2>1. WaitUntil(AdmissionTimeout) \in 0..Horizon
    BY WaitType
  <2> QED
    BY <1>6, <2>1 DEF SendHello, Delivered, Broken, Publish, StatusStates, PCs, Writing, Ended
<1>7. CASE RecvAdmission
  BY <1>7 DEF RecvAdmission, Publish, StatusStates, Refuse, Take, QueueEmpty,
      PCs, Writing, HealthStates, Refusals
<1>8. CASE AdmissionExpired
  BY <1>8 DEF AdmissionExpired, Publish, StatusStates, Refuse, PCs, Writing,
      HealthStates, Refusals
<1>9. CASE VerifyBundle
  BY <1>9 DEF VerifyBundle, Publish, StatusStates, Refuse, PCs, Writing,
      HealthStates, Refusals
<1>10. CASE WriteVerdict
  BY <1>10 DEF WriteVerdict, Delivered, Broken, Publish, StatusStates, PCs,
      Ended
<1>11. CASE InstallUpdate
  BY <1>11 DEF InstallUpdate, Publish, StatusStates, PCs, Ended
<1>12. CASE CheckFiles
  BY <1>12 DEF CheckFiles, Publish, StatusStates, Refuse, PCs, Writing,
      HealthStates, Refusals
<1>13. CASE WriteReady
  <2>1. sequence' \in 0..MaxSequence /\ previous' \in Digests
    BY <1>13 DEF WriteReady
  <2>2. nextHeartbeat' \in Nat /\ deadline' \in Nat
    <3>1. /\ nextHeartbeat' \in {NowUnix + HeartbeatSeconds, nextHeartbeat}
          /\ deadline' \in {NowUnix + ReportSeconds + GraceSeconds, deadline}
      BY ONLY <1>13 DEF WriteReady
    <3>2. NowUnix \in Nat
      BY ONLY TypeOK, NowType
    <3>3. nextHeartbeat \in Nat /\ deadline \in Nat
      BY ONLY TypeOK DEF TypeOK
    <3>4. HeartbeatSeconds \in Nat /\ ReportSeconds \in Nat /\ GraceSeconds \in Nat
      BY ONLY ServeAssumption DEF ServeAssumption
    <3> QED
      BY ONLY <3>1, <3>2, <3>3, <3>4
  <2>3. unread' \in 0..PipeCapacity
    <3>1. unread \in 0..PipeCapacity /\ PipeCapacity \in Nat
      BY ONLY TypeOK, ServeAssumption DEF TypeOK, ServeAssumption
    <3> QED
      BY ONLY <1>13, <3>1 DEF WriteReady, Delivered, Broken
  <2>4. pc' \in {"top", "err"}
        /\ status' \in StatusStates /\ stage' \in StatusStates /\ sent' \in HealthStates
    BY <1>13 DEF WriteReady, Publish
  <2> QED
    BY <1>13, <2>1, <2>2, <2>3, <2>4 DEF WriteReady, PCs, Ended
<1>14. CASE LoopTop
  <2>1. until' \in 0..Horizon
    <3> DEFINE wakeAt == Least(nextHeartbeat, Least(deadline, PolicyExpires))
               w == IF wakeAt - NowUnix >= 1 THEN wakeAt - NowUnix ELSE 1
    <3>1. w \in Nat
      <4>1. NowUnix \in Nat
        BY ONLY TypeOK, NowType
      <4>2. nextHeartbeat \in Nat /\ deadline \in Nat
        BY ONLY TypeOK DEF TypeOK
      <4>3. PolicyExpires \in Nat
        BY ONLY ServeAssumption DEF ServeAssumption
      <4> QED
        BY ONLY <4>1, <4>2, <4>3, WaitSeconds
    <3>2. WaitUntil(w) \in 0..Horizon
      BY <3>1, WaitType
    <3> QED
      BY <1>14, <3>2 DEF LoopTop
  <2> QED
    BY <1>14, <2>1 DEF LoopTop, Finish, PCs, Writing, Ended, HealthStates, Finals
<1>15. CASE WaitTimeout
  BY <1>15 DEF WaitTimeout, PCs, Writing, HealthStates
<1>16. CASE WriteHeartbeat
  BY <1>16 DEF WriteHeartbeat, Delivered, Broken, Publish, StatusStates, PCs,
      Ended
<1>17. CASE RecvStop
  BY <1>17 DEF RecvStop, Publish, StatusStates, Take, QueueEmpty, PCs, Ended
<1>18. CASE RecvChallenge
  BY <1>18 DEF RecvChallenge, Take, QueueEmpty, PCs
<1>19. CASE RecvRevocation
  BY <1>19 DEF RecvRevocation, Finish, Take, QueueEmpty, PCs, Writing,
      HealthStates, Finals
<1>20. CASE RecvFatal
  BY <1>20 DEF RecvFatal, Take, QueueEmpty, PCs, Ended
<1>21. CASE InspectAndSign
  <2>1. CASE pc' = "err" /\ UNCHANGED <<pending, sequence, previous, deadline>>
    BY <1>21, <2>1 DEF InspectAndSign, PCs, Ended
  <2>2. CASE ~(pc' = "err" /\ UNCHANGED <<pending, sequence, previous, deadline>>)
    <3> DEFINE R == [sequence |-> sequence, nonce |-> wire[taken].nonce,
                     at |-> now, previous |-> previous]
    <3>1. /\ previous' = Digest(R)
          /\ deadline' = now + ReportSeconds + GraceSeconds
          /\ \/ /\ sequence < MaxSequence
                /\ sequence' = sequence + 1
                /\ pending' = R
                /\ pc' = "report"
             \/ /\ sequence = MaxSequence
                /\ pc' = "err"
                /\ UNCHANGED <<sequence, pending>>
      BY <1>21, <2>2 DEF InspectAndSign
    <3>2. R \in Report
      <4>1. taken \in 1..Len(wire)
        BY <1>21 DEF InspectAndSign
      <4>2. wire[taken] \in Frame
        BY <4>1
      <4> QED
        BY <4>2 DEF Report, Frame
    <3>3. Digest(R) \in Digests
      BY <3>2
    <3> HIDE DEF R
    <3> QED
      BY <1>21, <3>1, <3>2, <3>3 DEF InspectAndSign, PCs, Writing, Ended
  <2> QED
    BY <2>1, <2>2
<1>22. CASE WriteReport
  <2>1. reports' \in Seq(Report)
    BY <1>22 DEF WriteReport
  <2> QED
    BY <1>22, <2>1 DEF WriteReport, Delivered, Broken, Publish, StatusStates, PCs, Writing, Ended
<1>23. CASE WriteFinal
  BY <1>23 DEF WriteFinal, Delivered, Broken, Publish, StatusStates, PCs,
      Ended, HealthStates, Finals
<1>24. ASSUME NEW f \in GameFrames, GameSend(f) PROVE TypeOK'
  BY <1>24 DEF GameSend
<1>25. CASE UNCHANGED vars
  BY <1>25
<1> QED
  BY <1>1, <1>2, <1>3, <1>4, <1>5, <1>6, <1>7, <1>8, <1>9, <1>10, <1>11, <1>12,
     <1>13, <1>14, <1>15, <1>16, <1>17, <1>18, <1>19, <1>20, <1>21, <1>22, <1>23, <1>24, <1>25
  DEF Next, ServeStep, ReaderStep, GameStep, Returned

\* The state of a session always has its declared types.
THEOREM TypeCorrect == Spec => []TypeOK
<1>1. Init => TypeOK
  BY ServeAssumption DEF Init, TypeOK, PCs, Writing, HealthStates, StatusStates, Failures, Finals,
     Report, AnyNonce
<1> QED
  BY <1>1, TypeStep, PTL DEF Spec

-----------------------------------------------------------------------------
(* Preservation of the inductive invariant, part by part. *)

\* The game, the reader thread and the clock leave the main thread's state
\* alone and only ever extend the history of frames.
LEMMA OutsideStep ==
  ASSUME TypeOK, Tick \/ ReaderStep \/ GameStep
  PROVE  /\ UNCHANGED <<launch, taken, pc, until, health, session, display, sent,
                        reports>>
         /\ Len(wire') >= Len(wire)
         /\ \A i \in 1..Len(wire) : wire'[i] = wire[i]
<1>1. CASE Tick \/ ReaderStep
  BY <1>1 DEF TypeOK, Tick, ReaderStep, ReaderRead, ReaderSend, inbound, session
<1>2. CASE GameRead
  BY <1>2 DEF TypeOK, GameRead, outside, inbound, session
<1>3. CASE GameClose
  BY <1>3, EofType DEF TypeOK, GameClose, session
<1>4. ASSUME NEW f \in GameFrames, GameSend(f)
      PROVE  /\ UNCHANGED <<launch, taken, pc, until, health, session, display,
                            sent, reports>>
             /\ Len(wire') >= Len(wire)
             /\ \A i \in 1..Len(wire) : wire'[i] = wire[i]
  BY <1>4, ServeAssumption DEF TypeOK, GameSend, session
<1> QED
  BY <1>1, <1>2, <1>3, <1>4 DEF GameStep

\* What is signed: a report with the current sequence number, the nonce of the
\* challenge just received, the second it was received in and the digest of the
\* report before it.
LEMMA SignStep ==
  ASSUME InspectAndSign, pc' # "err"
  PROVE  /\ pc = "inspect" /\ pc' = "report"
         /\ pending'.sequence = sequence /\ pending'.nonce = wire[taken].nonce
         /\ pending'.at = now /\ pending'.previous = previous
         /\ sequence' = sequence + 1 /\ previous' = Digest(pending')
<1> DEFINE R == [sequence |-> sequence, nonce |-> wire[taken].nonce,
                 at |-> now, previous |-> previous]
<1>1. /\ previous' = Digest(R) /\ pending' = R
      /\ sequence' = sequence + 1 /\ pc' = "report"
  BY DEF InspectAndSign
<1>2. previous' = Digest(pending')
  BY <1>1, Zenon
<1> QED
  BY <1>1, <1>2 DEF InspectAndSign

\* A step of WriteReport either appends the pending report to the history or
\* ends the session.
LEMMA WriteReportStep ==
  ASSUME TypeOK, WriteReport
  PROVE  \/ /\ pc' = "top" /\ reports' # <<>>
            /\ Len(reports') = Len(reports) + 1
            /\ \A i \in 1..Len(reports) : reports'[i] = reports[i]
            /\ reports'[Len(reports) + 1] = pending
         \/ pc' = "err" /\ reports' = reports
<1>1. CASE reports' = Append(reports, pending) /\ pc' = "top"
  BY <1>1 DEF TypeOK
<1> QED
  BY <1>1 DEF WriteReport

\* Every report of a history has a second.
LEMMA ReportTypes ==
  ASSUME NEW s \in Seq(Report)
  PROVE  Len(s) \in Nat /\ \A i \in 1..Len(s) : s[i].at \in Nat
<1> SUFFICES ASSUME NEW i \in 1..Len(s) PROVE s[i].at \in Nat
  OBVIOUS
<1>1. s[i] \in Report
  OBVIOUS
<1> QED
  BY <1>1, ServeAssumption DEF Report

\* The report chain: its state moves one report ahead when a report is signed,
\* and the channel catches up when it is written.
LEMMA ChainStep == TypeOK /\ ChainInv /\ [Next]_vars => ChainInv'
<1> SUFFICES ASSUME TypeOK, ChainInv, [Next]_vars PROVE ChainInv'
  OBVIOUS
<1> USE DEF ChainInv, ReportChain, Before, InLoop, LastDigest
<1>1. CASE Tick \/ ReaderStep \/ GameStep
  BY <1>1, OutsideStep DEF session
<1>2. CASE SendHello \/ RecvAdmission \/ AdmissionExpired \/ VerifyBundle
           \/ WriteVerdict \/ InstallUpdate \/ CheckFiles
  BY <1>2 DEF SendHello, RecvAdmission, AdmissionExpired, VerifyBundle,
     WriteVerdict, InstallUpdate, CheckFiles, Refuse, session
<1>3. CASE WriteReady
  BY <1>3 DEF WriteReady
<1>4. CASE LoopTop \/ WaitTimeout \/ WriteHeartbeat \/ RecvStop \/ RecvChallenge
           \/ RecvRevocation \/ RecvFatal \/ WriteFinal
  BY <1>4 DEF LoopTop, WaitTimeout, WriteHeartbeat, RecvStop, RecvChallenge,
     RecvRevocation, RecvFatal, WriteFinal, Finish, session
<1>5. CASE InspectAndSign
  <2>1. CASE pc' = "err"
    BY <1>5, <2>1 DEF InspectAndSign
  <2>2. CASE pc' # "err"
    <3>1. UNCHANGED reports
      BY <1>5 DEF InspectAndSign
    <3> QED
      BY <1>5, <2>2, <3>1, SignStep DEF TypeOK
  <2> QED
    BY <2>1, <2>2
<1>6. CASE WriteReport
  <2>1. CASE pc' = "err"
    BY <1>6, <2>1, WriteReportStep DEF WriteReport
  <2>2. CASE pc' # "err"
    <3>1. ReportChain'
      <4> SUFFICES ASSUME NEW i \in 1..Len(reports')
                   PROVE  /\ reports'[i].sequence = i
                          /\ reports'[i].previous =
                               IF i = 1 THEN NoDigest ELSE Digest(reports'[i - 1])
        OBVIOUS
      <4>1. CASE i <= Len(reports)
        <5>1. i \in 1..Len(reports) /\ (i # 1 => i - 1 \in 1..Len(reports))
          BY <4>1 DEF TypeOK
        <5>2. /\ reports'[i] = reports[i]
              /\ i # 1 => reports'[i - 1] = reports[i - 1]
          BY <1>6, <2>2, <5>1, WriteReportStep
        <5> QED
          BY <5>1, <5>2
      <4>2. CASE i = Len(reports) + 1
        <5>1. Len(reports) \in Nat /\ (reports = <<>> <=> Len(reports) = 0)
          BY DEF TypeOK
        <5>2. /\ pending.sequence = Len(reports) + 1
              /\ pending.previous = LastDigest
          BY <1>6 DEF WriteReport
        <5>3. reports'[i] = pending
          BY <1>6, <2>2, <4>2, WriteReportStep
        <5>4. i # 1 => reports'[i - 1] = reports[Len(reports)]
          BY <1>6, <2>2, <4>2, <5>1, WriteReportStep
        <5> QED
          BY ONLY <4>2, <5>1, <5>2, <5>3, <5>4 DEF LastDigest
      <4>3. Len(reports') = Len(reports) + 1 /\ Len(reports) \in Nat
        BY <1>6, <2>2, WriteReportStep DEF TypeOK
      <4> QED
        BY <4>1, <4>2, <4>3
    <3> QED
      BY <1>6, <2>2, <3>1, WriteReportStep DEF WriteReport, session, TypeOK
  <2> QED
    BY <2>1, <2>2
<1>7. CASE UNCHANGED vars
  BY <1>7 DEF vars, session
<1> QED
  BY <1>1, <1>2, <1>3, <1>4, <1>5, <1>6, <1>7 DEF Next, ServeStep, Returned

\* Frames: every frame before the one being handled was an admitted bundle or
\* a challenge that was answered.
LEMMA FrameStep == TypeOK /\ TypeOK' /\ ChainInv /\ FrameInv /\ [Next]_vars => FrameInv'
<1> SUFFICES ASSUME TypeOK, TypeOK', ChainInv, FrameInv, [Next]_vars PROVE FrameInv'
  OBVIOUS
<1> DEFINE Known == 1..Len(wire)
<1>0. /\ taken \in Nat /\ Len(wire) \in Nat /\ taken <= Len(wire) /\ Len(reports) \in Nat
  <2>1. /\ wire \in Seq(Frame) /\ reports \in Seq(Report)
        /\ taken \in Nat /\ queued \in Nat /\ read \in Nat
        /\ taken <= queued /\ queued <= read /\ read <= Len(wire)
    BY DEF TypeOK
  <2>2. Len(wire) \in Nat /\ Len(reports) \in Nat
    BY <2>1
  <2> QED
    BY <2>1, <2>2
<1> USE DEF FrameInv, ReportAnswersChallenge, Admits, registered, InLoop, Answering
<1>1. CASE Tick \/ ReaderStep \/ GameStep
  <2>1. /\ UNCHANGED <<launch, taken, pc, pending, reports>>
        /\ Len(wire') >= Len(wire) /\ \A i \in Known : wire'[i] = wire[i]
    BY <1>1, OutsideStep DEF session
  <2>2. Len(wire') \in Nat
    BY DEF TypeOK
  <2>3. ReportAnswersChallenge'
    <3> SUFFICES ASSUME reports # <<>>
                 PROVE  ReportAnswersChallenge'
      BY <2>1
    <3>1. /\ 1 \in Known /\ \A i \in 1..Len(reports) : i + 1 \in Known
          /\ Len(wire') > Len(reports)
      BY <1>0, <2>1, <2>2
    <3>2. /\ wire'[1] = wire[1]
          /\ \A i \in 1..Len(reports) : wire'[i + 1] = wire[i + 1]
      BY ONLY <2>1, <3>1
    <3> HIDE DEF Known
    <3>3. reports' = reports /\ launch' = launch
      BY <2>1
    <3> QED
      BY ONLY FrameInv, <3>1, <3>2, <3>3
         DEF FrameInv, ReportAnswersChallenge, Admits, registered
  <2>4. pc \in {"verify", "files", "ready"} \cup InLoop \cup Answering =>
          1 \in Known /\ taken \in Known
    BY <1>0
  <2> QED
    BY <2>1, <2>3, <2>4
<1>2. CASE SendHello \/ RecvAdmission \/ AdmissionExpired \/ VerifyBundle
           \/ WriteVerdict \/ InstallUpdate \/ CheckFiles
  <2>1. UNCHANGED <<launch, wire, reports>>
    BY <1>2 DEF SendHello, RecvAdmission, AdmissionExpired, VerifyBundle,
       WriteVerdict, InstallUpdate, CheckFiles, outside, inbound
  <2>2. ReportAnswersChallenge'
    BY <2>1
  <2>3. CASE SendHello \/ AdmissionExpired \/ WriteVerdict \/ InstallUpdate \/ CheckFiles
    BY <2>1, <2>2, <2>3 DEF SendHello, AdmissionExpired, WriteVerdict,
       InstallUpdate, CheckFiles, Refuse
  <2>4. CASE RecvAdmission
    BY <2>1, <2>2, <2>4 DEF RecvAdmission, Take, Incoming, Refuse
  <2>5. CASE VerifyBundle
    BY <2>1, <2>2, <2>5 DEF VerifyBundle, Refuse
  <2> QED
    BY <1>2, <2>3, <2>4, <2>5
<1>3. CASE WriteReady
  BY <1>3 DEF WriteReady, ChainInv, Before, outside, inbound, TypeOK
<1>4. CASE LoopTop \/ WaitTimeout \/ WriteHeartbeat \/ WriteFinal
  BY <1>4 DEF LoopTop, WaitTimeout, WriteHeartbeat, WriteFinal, Finish, session,
     outside, inbound, TypeOK
<1>5. CASE RecvStop \/ RecvRevocation \/ RecvFatal
  BY <1>5 DEF RecvStop, RecvRevocation, RecvFatal, Finish, session, outside,
     inbound, TypeOK
<1>6. CASE RecvChallenge
  BY <1>6 DEF RecvChallenge, Take, Incoming, Acceptable, outside, inbound, TypeOK
<1>7. CASE InspectAndSign
  <2>1. UNCHANGED <<launch, wire, taken, reports>> /\ pc = "inspect"
    BY <1>7 DEF InspectAndSign, outside, inbound
  <2>2. CASE pc' = "err"
    BY <2>1, <2>2
  <2>3. CASE pc' # "err"
    BY <1>7, <2>1, <2>3, SignStep
  <2> QED
    BY <2>2, <2>3
<1>8. CASE WriteReport
  <2>1. UNCHANGED <<launch, wire, taken, pending>> /\ pc = "report"
    BY <1>8 DEF WriteReport, outside, inbound, session
  <2>2. CASE pc' = "err"
    BY <1>8, <2>1, <2>2, WriteReportStep
  <2>3. CASE pc' # "err"
    <3>1. /\ pc' = "top" /\ reports' # <<>> /\ Len(reports') = Len(reports) + 1
          /\ \A i \in 1..Len(reports) : reports'[i] = reports[i]
          /\ reports'[Len(reports) + 1] = pending
      BY <1>8, <2>3, WriteReportStep
    <3>2. \A i \in 1..Len(reports') :
            /\ wire[i + 1].type = "Challenge" /\ wire[i + 1].claim = "good"
            /\ reports'[i].nonce = wire[i + 1].nonce
      BY <1>0, <2>1, <3>1
    <3> QED
      BY <1>0, <2>1, <3>1, <3>2
  <2> QED
    BY <2>2, <2>3
<1>9. CASE UNCHANGED vars
  BY <1>9 DEF vars, session, outside, inbound
<1> QED
  BY <1>1, <1>2, <1>3, <1>4, <1>5, <1>6, <1>7, <1>8, <1>9
  DEF Next, ServeStep, Returned

\* Time: the clock only advances, and the loop tests the expiry between any two
\* reports.
LEMMA TimeStep == TypeOK /\ TypeOK' /\ TimeInv /\ [Next]_vars => TimeInv'
<1> SUFFICES ASSUME TypeOK, TypeOK', TimeInv, [Next]_vars PROVE TimeInv'
  OBVIOUS
<1> USE DEF TimeInv, LateReportIsLast, Answering
<1>1. NowUnix \in Nat /\ NowUnix' \in Nat /\ NowUnix <= NowUnix'
  <2>1. clock \in Nat /\ (clock' = clock \/ clock' = clock + 1)
    BY DEF TypeOK, Next, vars, ServeStep, ReaderStep, GameStep, Returned, Tick,
       GameSend, GameRead, GameClose, ReaderRead, ReaderSend, outside,
       SendHello, RecvAdmission, AdmissionExpired, VerifyBundle, WriteVerdict,
       InstallUpdate, CheckFiles, WriteReady, LoopTop, WaitTimeout,
       WriteHeartbeat, RecvStop, RecvChallenge, RecvRevocation, RecvFatal,
       InspectAndSign, WriteReport, WriteFinal
  <2> QED
    BY <2>1, ServeAssumption, SecondBounds, SecondMonotone DEF NowUnix
<1>2. /\ now \in Nat /\ pending.at \in Nat /\ PolicyExpires \in Nat
      /\ Len(reports) \in Nat /\ \A i \in 1..Len(reports) : reports[i].at \in Nat
  <2>1. reports \in Seq(Report) /\ now \in Nat /\ pending \in Report
    BY ServeAssumption DEF TypeOK
  <2>2. pending.at \in Nat /\ PolicyExpires \in Nat
    BY <2>1, ServeAssumption DEF Report
  <2> QED
    BY <2>1, <2>2, ReportTypes
<1> HIDE DEF NowUnix
<1>3. ASSUME UNCHANGED reports
      PROVE  /\ LateReportIsLast'
             /\ \A i \in 1..Len(reports') : reports'[i].at <= NowUnix'
  BY <1>1, <1>2, <1>3
<1>4. CASE UNCHANGED <<pc, now, pending, reports>>
  BY <1>1, <1>2, <1>3, <1>4
<1>5. CASE SendHello \/ RecvAdmission \/ AdmissionExpired \/ VerifyBundle
           \/ WriteVerdict \/ InstallUpdate \/ CheckFiles \/ WriteReady
  <2>1. /\ UNCHANGED <<now, pending, reports>>
        /\ pc' \notin {"recv", "heartbeat", "report"} \cup Answering
    BY <1>5 DEF SendHello, RecvAdmission, AdmissionExpired, VerifyBundle,
       WriteVerdict, InstallUpdate, CheckFiles, WriteReady, Refuse, session
  <2> QED
    BY <1>1, <1>2, <1>3, <2>1
<1>6. CASE LoopTop
  <2>1. /\ UNCHANGED <<now, pending, reports>> /\ pc' \in {"final", "recv"}
        /\ pc' = "recv" => NowUnix < PolicyExpires
    BY <1>6 DEF LoopTop, Finish, session
  <2> QED
    BY <1>1, <1>2, <1>3, <2>1
<1>7. CASE WaitTimeout \/ RecvChallenge
  <2>1. /\ now' = NowUnix /\ pc = "recv" /\ pc' # "report"
        /\ UNCHANGED <<pending, reports>>
    BY <1>7 DEF WaitTimeout, RecvChallenge
  <2> QED
    BY <1>1, <1>2, <1>3, <2>1
<1>8. CASE WriteHeartbeat \/ RecvStop \/ RecvRevocation \/ RecvFatal \/ WriteFinal
  <2>1. UNCHANGED <<now, pending, reports>> /\ pc' \in {"top", "final"} \cup Ended
    BY <1>8 DEF WriteHeartbeat, RecvStop, RecvRevocation, RecvFatal,
       WriteFinal, Finish, session, Ended
  <2> QED
    BY <1>1, <1>2, <1>3, <2>1 DEF Ended
<1>9. CASE InspectAndSign
  <2>1. UNCHANGED <<now, reports>> /\ pc = "inspect"
    BY <1>9 DEF InspectAndSign
  <2>2. CASE pc' = "err"
    BY <1>1, <1>2, <1>3, <2>1, <2>2
  <2>3. CASE pc' # "err"
    BY <1>1, <1>2, <1>3, <1>9, <2>1, <2>3, SignStep
  <2> QED
    BY <2>2, <2>3
<1>10. CASE WriteReport
  <2>1. UNCHANGED <<now, pending>> /\ pc = "report"
    BY <1>10 DEF WriteReport, session
  <2>2. CASE pc' = "err"
    BY <1>1, <1>2, <1>3, <1>10, <2>1, <2>2, WriteReportStep
  <2>3. CASE pc' # "err"
    <3>1. \A i \in 1..Len(reports') :
            reports'[i].at <= NowUnix /\ (i < Len(reports') => reports'[i].at < PolicyExpires)
      BY <1>1, <1>2, <1>10, <2>1, <2>3, WriteReportStep
    <3>2. \A i \in 1..Len(reports') : reports'[i].at \in Nat
      BY ReportTypes DEF TypeOK
    <3> QED
      BY <1>1, <1>2, <1>10, <2>1, <2>3, <3>1, <3>2, WriteReportStep
  <2> QED
    BY <2>2, <2>3
<1>11. CASE Tick \/ ReaderStep \/ GameStep
  BY <1>4, <1>11, OutsideStep DEF session
<1> QED
  BY <1>4, <1>5, <1>6, <1>7, <1>8, <1>9, <1>10, <1>11
  DEF Next, ServeStep, Returned, vars, session

\* Status and health agree at every point of serve().
LEMMA StatusStep == TypeOK /\ StatusInv /\ [Next]_vars => StatusInv'
<1> SUFFICES ASSUME TypeOK, StatusInv, [Next]_vars PROVE StatusInv'
  OBVIOUS
<1> USE DEF StatusInv, StatusFollowsWire, Before, InLoop, Answering, Finals,
            Refusals, Failures, registered, display
<1>1. CASE Tick \/ ReaderStep \/ GameStep
  BY <1>1, OutsideStep
<1>2. CASE SendHello
  BY <1>2 DEF SendHello, Publish, outside
<1>3. CASE RecvAdmission \/ AdmissionExpired \/ VerifyBundle \/ CheckFiles
  BY <1>3 DEF RecvAdmission, AdmissionExpired, VerifyBundle, CheckFiles, Refuse,
     Publish, outside
<1>4. CASE WriteVerdict \/ InstallUpdate
  BY <1>4 DEF WriteVerdict, InstallUpdate, Publish, outside
<1>5. CASE WriteReady \/ WriteHeartbeat \/ WriteReport
  BY <1>5 DEF WriteReady, WriteHeartbeat, WriteReport, Publish, outside
<1>6. CASE LoopTop \/ WaitTimeout \/ RecvStop \/ RecvChallenge
           \/ RecvRevocation \/ RecvFatal
  BY <1>6 DEF LoopTop, WaitTimeout, RecvStop, RecvChallenge, RecvRevocation,
     RecvFatal, Finish, Publish, outside
<1>7. CASE InspectAndSign
  BY <1>7 DEF InspectAndSign, outside
<1>8. CASE WriteFinal
  <2>1. pc' = "err" /\ launch' = launch /\ health \in Finals
    BY <1>8 DEF WriteFinal, outside
  <2>2. \/ /\ sent' = health
           /\ \/ registered /\ stage' = health /\ status' \in {health, status}
              \/ ~registered /\ stage' = stage /\ status' = status
        \/ sent' = sent /\ stage' = stage /\ status' = status
    BY <1>8 DEF WriteFinal, Publish
  <2>3. pc = "final" /\ sent \in {"ready", "protected"} /\ status \notin Failures
    BY <1>8 DEF WriteFinal
  <2>4. StatusFollowsWire'
    BY <2>1, <2>2, <2>3
  <2> QED
    BY <2>1, <2>2, <2>4
<1>9. CASE UNCHANGED vars
  BY <1>9 DEF vars
<1> QED
  BY <1>1, <1>2, <1>3, <1>4, <1>5, <1>6, <1>7, <1>8, <1>9
  DEF Next, ServeStep, Returned

\* The wait is bounded when it starts, and the limits do not move during it.
LEMMA SleepStep == TypeOK /\ SleepBounded /\ [Next]_vars => SleepBounded'
<1> SUFFICES ASSUME TypeOK, SleepBounded, [Next]_vars, pc' = "recv"
             PROVE  SleepBounded'
  BY DEF SleepBounded
<1>1. CASE UNCHANGED <<pc, until, deadline>>
  BY <1>1 DEF SleepBounded
<1>2. CASE LoopTop
  <2> DEFINE wakeAt == Least(nextHeartbeat, Least(deadline, PolicyExpires))
             w == IF wakeAt - NowUnix >= 1 THEN wakeAt - NowUnix ELSE 1
  <2>1. /\ until' = WaitUntil(w) /\ NowUnix < deadline /\ NowUnix < PolicyExpires
        /\ deadline' = deadline
    BY <1>2 DEF LoopTop, Finish, session
  <2>2. /\ NowUnix \in Nat /\ deadline \in Nat /\ PolicyExpires \in Nat
        /\ nextHeartbeat \in Nat /\ clock \in Nat /\ TicksPerSecond \in Nat \ {0}
    BY NowType, ServeAssumption DEF TypeOK
  <2>3. w \in Nat /\ NowUnix + w <= deadline /\ NowUnix + w <= PolicyExpires
    BY <2>1, <2>2 DEF Least
  <2> HIDE DEF w
  <2>4. /\ clock + w * TicksPerSecond < (deadline + 1) * TicksPerSecond
        /\ clock + w * TicksPerSecond < (PolicyExpires + 1) * TicksPerSecond
    BY <2>2, <2>3, WaitEnds DEF NowUnix
  <2>5. until' <= clock + w * TicksPerSecond /\ until' \in Nat
    BY <2>1, <2>3, WaitType, ServeAssumption
  <2>6. /\ w * TicksPerSecond \in Nat /\ (deadline + 1) * TicksPerSecond \in Nat
        /\ (PolicyExpires + 1) * TicksPerSecond \in Nat
    BY <2>2, <2>3
  <2> QED
    BY <2>1, <2>2, <2>4, <2>5, <2>6 DEF SleepBounded
<1>3. CASE Tick \/ ReaderStep \/ GameStep
  BY <1>1, <1>3, OutsideStep DEF session
<1>4. CASE ServeStep /\ ~LoopTop
  BY <1>4 DEF ServeStep, SendHello, RecvAdmission, AdmissionExpired, VerifyBundle,
     WriteVerdict, InstallUpdate, CheckFiles, WriteReady, WaitTimeout,
     WriteHeartbeat, RecvStop, RecvChallenge, RecvRevocation, RecvFatal,
     InspectAndSign, WriteReport, WriteFinal, Refuse, Finish
<1> QED
  BY <1>1, <1>2, <1>3, <1>4 DEF Next, Returned, vars, session

-----------------------------------------------------------------------------
(* The theorems. *)

\* The inductive invariant holds throughout every session.
THEOREM SessionInvariant == Spec => []IInv
<1>1. Init => IInv
  <2> USE DEF Init
  <2>1. ASSUME Init PROVE ChainInv /\ FrameInv /\ StatusInv /\ SleepBounded
    BY <2>1 DEF ChainInv, ReportChain, FrameInv, ReportAnswersChallenge, StatusInv,
       StatusFollowsWire, SleepBounded, Before, InLoop, Answering, Finals,
       Failures
  <2>2. ASSUME Init PROVE TimeInv
    <3>1. NowUnix \in Nat
      BY <2>2, ServeAssumption, SecondBounds DEF NowUnix
    <3> QED
      BY <2>2, <3>1 DEF TimeInv, LateReportIsLast, Answering
  <2>3. ASSUME Init PROVE TypeOK
    BY <2>3, ServeAssumption DEF TypeOK, PCs, Writing, HealthStates,
       StatusStates, Report, AnyNonce
  <2> QED
    BY <2>1, <2>2, <2>3 DEF IInv
<1>2. IInv /\ [Next]_vars => IInv'
  BY TypeStep, ChainStep, FrameStep, TimeStep, StatusStep, SleepStep DEF IInv
<1> QED
  BY <1>1, <1>2, PTL DEF Spec

\* The reports that reach the channel form the exact sequence and digest chain
\* that the server checks.
THEOREM ReportChainHolds == Spec => []ReportChain
<1>1. IInv => ReportChain
  BY DEF IInv, ChainInv
<1> QED
  BY <1>1, SessionInvariant, PTL

\* Report i answers the i-th challenge after an admitted bundle, whatever the
\* game sends and however the two threads interleave.
THEOREM AnswersHold == Spec => []ReportAnswersChallenge
<1>1. IInv => ReportAnswersChallenge
  BY DEF IInv, FrameInv
<1> QED
  BY <1>1, SessionInvariant, PTL

\* At most one report is observed at or after the policy's expiry, and it is the
\* last one.
THEOREM LateReportHolds == Spec => []LateReportIsLast
<1>1. IInv => LateReportIsLast
  BY DEF IInv, TimeInv
<1> QED
  BY <1>1, SessionInvariant, PTL

\* For every clock resolution the loop oversleeps its limits by less than one
\* second.
THEOREM SleepHolds == Spec => []SleepBounded
<1>1. IInv => SleepBounded
  BY DEF IInv
<1> QED
  BY <1>1, SessionInvariant, PTL

\* The status file may lag behind, as publications fail unnoticed, but claims
\* nothing that was not announced to the game or has not happened.
THEOREM StatusHolds == Spec => []StatusFollowsWire
<1>1. IInv => StatusFollowsWire
  BY DEF IInv, StatusInv
<1> QED
  BY <1>1, SessionInvariant, PTL

\* The main thread never waits on a queue that the reader has abandoned.
THEOREM ConnectedHolds == Spec => []NeverDisconnected
<1>1. IInv => NeverDisconnected
  <2> SUFFICES ASSUME IInv, pc \in {"admission", "recv"}, QueueEmpty, ReaderDone
               PROVE  FALSE
    BY DEF NeverDisconnected
  <2>1. taken = read /\ read > 0 /\ wire[taken].type \in ReadErrors
    BY DEF QueueEmpty, ReaderDone
  <2>2. pc = "recv" /\ taken = Len(reports) + 1
    BY <2>1 DEF IInv, FrameInv, InLoop
  <2>3. Len(reports) \in Nat
    BY DEF IInv, TypeOK
  <2>4. CASE reports = <<>>
    BY <2>1, <2>2, <2>4 DEF IInv, FrameInv, InLoop, Admits, ReadErrors
  <2>5. CASE reports # <<>>
    <3>1. Len(reports) \in 1..Len(reports)
      BY <2>3, <2>5 DEF IInv, TypeOK
    <3>2. wire[Len(reports) + 1].type = "Challenge"
      BY <2>5, <3>1 DEF IInv, FrameInv, ReportAnswersChallenge
    <3> QED
      BY <2>1, <2>2, <3>2 DEF ReadErrors
  <2> QED
    BY <2>4, <2>5
<1> QED
  BY <1>1, SessionInvariant, PTL

\* Nothing is written to the game after a verdict on the session.
THEOREM VerdictHolds == Spec => VerdictIsLast
<1>1. IInv /\ [Next]_vars =>
        [(sent \in Refusals \cup Finals) => (sent' = sent /\ reports' = reports)]_vars
  <2> SUFFICES ASSUME IInv, [Next]_vars, sent \in Refusals \cup Finals
               PROVE  sent' = sent /\ reports' = reports
    OBVIOUS
  <2>1. pc \in {"update"} \cup Ended
    BY DEF IInv, TypeOK, StatusInv, PCs, Writing, Before, InLoop, Answering,
       Refusals, Finals, Ended
  <2>2. CASE Tick \/ ReaderStep \/ GameStep
    BY <2>2, OutsideStep DEF IInv
  <2>3. CASE ServeStep
    BY <2>1, <2>3 DEF ServeStep, SendHello, RecvAdmission, AdmissionExpired,
       VerifyBundle, WriteVerdict, InstallUpdate, CheckFiles, WriteReady, LoopTop,
       WaitTimeout, WriteHeartbeat, RecvStop, RecvChallenge, RecvRevocation,
       RecvFatal, InspectAndSign, WriteReport, WriteFinal, Ended
  <2> QED
    BY <2>2, <2>3 DEF Next, Returned, vars
<1> QED
  BY <1>1, SessionInvariant, PTL DEF Spec, VerdictIsLast

-----------------------------------------------------------------------------
(* The abstract specifications that a session implements. *)

\* What a registered launch has published last at every point of serve().
StageInv ==
  /\ ~registered => stage = "none" /\ status = "none"
  /\ registered =>
       /\ pc = "hello" => stage = "none"
       /\ pc = "admission" => stage = "awaiting_server_admission"
       /\ pc \in {"verify", "files", "ready"} =>
            stage = "verifying_signed_launch_bundle"
       /\ pc = "verdict" =>
            stage = IF health = "rejected" THEN "launch_failed" ELSE health
       /\ pc = "update" => stage = "installing_required_update"
       /\ pc \in InLoop \cup Answering \cup {"final"} => stage = "protected"

\* Every step of serve() publishes the state its point calls for, and is a step of
\* the abstract session or leaves it alone.
LEMMA StageStep ==
  IInv /\ StageInv /\ [Next]_vars => StageInv' /\ [Progress!Next]_(Progress!vars)
<1> SUFFICES ASSUME IInv, StageInv, [Next]_vars
             PROVE  StageInv' /\ [Progress!Next]_(Progress!vars)
  OBVIOUS
<1>0. pc = "final" => health \in Finals
  BY DEF IInv, StatusInv
<1>1. pc = "verdict" => health \in Refusals
  BY DEF IInv, StatusInv
<1> USE DEF StageInv, registered, display, InLoop, Answering, Ended,
            Progress!Next, Progress!vars
<1>2. CASE Tick \/ ReaderStep \/ GameStep
  BY <1>2, OutsideStep DEF IInv
<1>3. CASE LoopTop \/ WaitTimeout \/ RecvChallenge \/ RecvRevocation
  BY <1>3 DEF LoopTop, WaitTimeout, RecvChallenge, RecvRevocation, Finish, outside
<1>5. CASE InspectAndSign \/ RecvFatal
  BY <1>5 DEF InspectAndSign, RecvFatal, Progress!End, outside
<1> USE DEF Progress!End, Progress!Enter, Progress!After, Progress!Over,
            Progress!Succeeds, Progress!Finals
<1>4. CASE WriteHeartbeat \/ WriteReport
  BY <1>4 DEF WriteHeartbeat, WriteReport, Publish, outside
<1>6. CASE SendHello
  BY <1>6 DEF SendHello, Publish, outside
<1>7. CASE RecvAdmission
  BY <1>7 DEF RecvAdmission, Publish, Refuse, outside
<1>8. CASE AdmissionExpired
  BY <1>8 DEF AdmissionExpired, Publish, Refuse, outside
<1>9. CASE VerifyBundle
  BY <1>9 DEF VerifyBundle, Publish, Refuse, outside
<1>10. CASE CheckFiles
  BY <1>10 DEF CheckFiles, Publish, Refuse, outside
<1>11. CASE WriteVerdict
  BY <1>1, <1>11 DEF WriteVerdict, Publish, autoUpdate, outside
<1>12. CASE InstallUpdate
  BY <1>12 DEF InstallUpdate, Publish, outside
<1>13. CASE WriteReady
  BY <1>13 DEF WriteReady, Publish, outside
<1>14. CASE RecvStop
  BY <1>14 DEF RecvStop, Publish, outside
<1>15. CASE WriteFinal
  BY <1>0, <1>15 DEF WriteFinal, Publish, Finals, outside
<1>16. CASE UNCHANGED vars
  BY <1>16 DEF vars
<1> QED
  BY <1>2, <1>3, <1>4, <1>5, <1>6, <1>7, <1>8, <1>9, <1>10, <1>11, <1>12, <1>13,
     <1>14, <1>15, <1>16
  DEF Next, ServeStep, Returned

\* A session implements the abstract one of SessionStatus: it goes through the
\* stages in their order, its result agrees with the last one, and its status
\* file, although publications fail unnoticed, never goes back.
THEOREM StatusInOrderHolds == Spec => StatusInOrder
<1>1. Init => StageInv /\ Progress!Init
  BY ServeAssumption DEF Init, StageInv, registered, InLoop, Answering, Ended, Progress!Init
<1> QED
  BY <1>1, StageStep, SessionInvariant, PTL DEF Spec, StatusInOrder, Progress!Spec

\* A session implements the abstract report chain: the history of the channel
\* only grows, by one report at a time that continues it.
THEOREM ReportsFormChainHolds == Spec => ReportsFormChain
<1>1. Init => Chain!Init
  BY DEF Init, Chain!Init
<1>2. IInv /\ [Next]_vars => [Chain!Issue]_reports
  <2> SUFFICES ASSUME IInv, [Next]_vars, reports' # reports
               PROVE  Chain!Issue
    OBVIOUS
  <2>1. WriteReport
    BY OutsideStep DEF IInv, Next, ServeStep, Returned, vars, SendHello,
       RecvAdmission, AdmissionExpired, VerifyBundle, WriteVerdict, InstallUpdate,
       CheckFiles, WriteReady, LoopTop, WaitTimeout, WriteHeartbeat, RecvStop,
       RecvChallenge, RecvRevocation, RecvFatal, InspectAndSign, WriteFinal
  <2>2. /\ pc = "report" /\ reports' = Append(reports, pending)
        /\ reports \in Seq(Report) /\ pending \in Report
    BY <2>1 DEF WriteReport, IInv, TypeOK
  <2>3. /\ Len(reports') = Len(reports) + 1
        /\ reports'[Len(reports) + 1] = pending
        /\ SubSeq(reports', 1, Len(reports)) = reports
    BY <2>2
  <2>4. pending.sequence = Len(reports) + 1 /\ pending.previous = LastDigest
    BY <2>2 DEF IInv, ChainInv
  <2> QED
    BY <2>3, <2>4 DEF Chain!Issue, Chain!Continues, LastDigest
<1> QED
  BY <1>1, <1>2, SessionInvariant, PTL DEF Spec, ReportsFormChain, Chain!Spec

-----------------------------------------------------------------------------
(* serve() terminates: what is left for it to do.                           *)
(*                                                                          *)
(* Only an answered challenge takes the loop back to its top in the same    *)
(* second, and it uses a sequence number; every other round waits for a     *)
(* tick that lies ahead.                                                    *)

\* Where there is nothing left to wait for.
Resting == Ended \cup {"inspect", "final"}

\* At point p of serve(): sequence numbers that are left, ...
NumbersLeft(p, next) == IF p \in Before THEN MaxSequence ELSE MaxSequence - next

\* ... ticks that are left, to wait for or after the wait in progress, ...
TicksLeft(p, tick, wake) ==
  IF p = "recv" THEN Horizon - wake ELSE IF p \in Resting THEN 0 ELSE Horizon - tick

\* ... and steps that are left of the round.
StepsLeft(p) ==
  CASE p = "hello" -> 12 [] p = "admission" -> 11 [] p = "verify" -> 10
    [] p = "files" -> 9 [] p = "ready" -> 8 [] p = "recv" -> 7
    [] p = "report" -> 6 [] p = "heartbeat" -> 5 [] p = "inspect" -> 4
    [] p = "top" -> 3 [] p = "final" -> 2 [] p = "verdict" -> 2
    [] p = "update" -> 1 [] OTHER -> 0

Numbers == NumbersLeft(pc, sequence)
Ticks == TicksLeft(pc, clock, until)
Round == StepsLeft(pc)

Work == 13 * ((Horizon + 1) * Numbers + Ticks) + Round

\* Every step of serve() leaves less work, and nothing that the game, the reader
\* thread or the clock does adds any: serve() takes a bounded number of steps.
WorkDecreases == [][/\ ServeStep => Work' < Work
                    /\ Work' <= Work]_vars

LEMMA WorkOrder ==
  ASSUME NEW h \in Nat, NEW a \in Nat, NEW b \in Nat, NEW s \in 0..h, NEW t \in 0..h,
         NEW q \in 0..12, NEW r \in 0..12, b <= a
  PROVE  /\ b < a \/ t < s \/ (t <= s /\ r < q) =>
              13 * ((h + 1) * b + t) + r < 13 * ((h + 1) * a + s) + q
         /\ t <= s /\ r <= q =>
              13 * ((h + 1) * b + t) + r <= 13 * ((h + 1) * a + s) + q
<1>1. PICK k \in Nat : a = b + k
  BY a - b \in Nat
<1>2. (h + 1) * a = (h + 1) * b + (h + 1) * k /\ (h + 1) * b \in Nat
  BY <1>1
<1>3. /\ (h + 1) * k \in Nat
      /\ k > 0 => (h + 1) * k >= h + 1
  <2>1. CASE k = 0
    BY <2>1
  <2>2. CASE k > 0
    <3>1. PICK j \in Nat : k = j + 1
      BY <2>2, k - 1 \in Nat
    <3>2. (h + 1) * k = (h + 1) * j + (h + 1) /\ (h + 1) * j \in Nat
      BY <3>1
    <3> QED
      BY <3>2
  <2> QED
    BY <2>1, <2>2
<1>4. PICK x \in Nat, y \in Nat : x = (h + 1) * b /\ y = (h + 1) * k
  BY <1>2, <1>3
<1>5. (k > 0 => y >= h + 1) /\ (h + 1) * a = x + y
  BY <1>2, <1>3, <1>4
<1>6. /\ b < a \/ t < s \/ (t <= s /\ r < q) => 13 * (x + t) + r < 13 * (x + y + s) + q
      /\ t <= s /\ r <= q => 13 * (x + t) + r <= 13 * (x + y + s) + q
  BY <1>1, <1>5
<1> QED
  BY <1>4, <1>5, <1>6

LEMMA TicksOrder ==
  ASSUME NEW h \in Nat, NEW a \in 0..h, NEW b \in 0..h
  PROVE  /\ a < b => h - b < h - a
         /\ a <= b => h - b <= h - a
OBVIOUS

\* Time that passes takes nothing but ticks.
LEMMA LaterTick ==
  ASSUME NEW p \in PCs, NEW c \in 0..Horizon, NEW d \in 0..Horizon, c <= d,
         NEW u \in 0..Horizon
  PROVE  TicksLeft(p, d, u) <= TicksLeft(p, c, u)
<1>1. Horizon \in Nat
  BY ServeAssumption
<1>2. CASE p = "recv" \/ p \in Resting
  BY <1>1, <1>2 DEF TicksLeft
<1>3. CASE ~(p = "recv" \/ p \in Resting)
  <2>1. TicksLeft(p, d, u) = Horizon - d /\ TicksLeft(p, c, u) = Horizon - c
    BY <1>3 DEF TicksLeft
  <2> QED
    BY <1>1, <2>1, TicksOrder
<1> QED
  BY <1>2, <1>3

LEMMA WorkIsNat ==
  ASSUME NEW h \in Nat, NEW a \in Nat, NEW s \in 0..h, NEW q \in 0..12
  PROVE  13 * ((h + 1) * a + s) + q \in Nat
<1>1. PICK x \in Nat : x = (h + 1) * a
  OBVIOUS
<1>2. 13 * (x + s) + q \in Nat
  OBVIOUS
<1> QED
  BY <1>1, <1>2

LEMMA StepsTable ==
  /\ StepsLeft("hello") = 12 /\ StepsLeft("admission") = 11 /\ StepsLeft("verify") = 10
  /\ StepsLeft("files") = 9 /\ StepsLeft("ready") = 8 /\ StepsLeft("recv") = 7
  /\ StepsLeft("report") = 6 /\ StepsLeft("heartbeat") = 5 /\ StepsLeft("inspect") = 4
  /\ StepsLeft("top") = 3 /\ StepsLeft("final") = 2 /\ StepsLeft("verdict") = 2
  /\ StepsLeft("update") = 1 /\ StepsLeft("ok") = 0 /\ StepsLeft("err") = 0
BY DEF StepsLeft

LEMMA WorkTypes ==
  ASSUME NEW p \in PCs, NEW n \in 0..MaxSequence, NEW c \in 0..Horizon,
         NEW u \in 0..Horizon
  PROVE  /\ NumbersLeft(p, n) \in 0..MaxSequence
         /\ TicksLeft(p, c, u) \in 0..Horizon
         /\ StepsLeft(p) \in 0..12
<1>1. NumbersLeft(p, n) \in 0..MaxSequence
  BY ServeAssumption DEF NumbersLeft
<1>2. TicksLeft(p, c, u) \in 0..Horizon
  BY ServeAssumption DEF TicksLeft
<1>3. StepsLeft(p) \in 0..12
  BY StepsTable DEF PCs, Writing, Ended
<1> QED
  BY <1>1, <1>2, <1>3

\* A step from p to q that waits for nothing leaves no more than there was.
LEMMA LaterPoint ==
  ASSUME NEW p \in PCs, NEW q \in PCs, NEW n \in 0..MaxSequence,
         NEW c \in 0..Horizon, NEW u \in 0..Horizon, NEW w,
         q # "recv",
         p = "recv" => q \in Resting \/ u <= c,
         p \in Resting => q \in Resting,
         q \in Before => p \in Before
  PROVE  /\ NumbersLeft(q, n) <= NumbersLeft(p, n)
         /\ TicksLeft(q, c, w) <= TicksLeft(p, c, u)
<1>1. NumbersLeft(q, n) <= NumbersLeft(p, n)
  BY ServeAssumption DEF NumbersLeft
<1>2. TicksLeft(q, c, w) <= TicksLeft(p, c, u)
  BY ServeAssumption DEF TicksLeft
<1> QED
  BY <1>1, <1>2

LEMMA WorkState ==
  TypeOK => /\ pc \in PCs /\ sequence \in 0..MaxSequence
            /\ clock \in 0..Horizon /\ until \in 0..Horizon
BY DEF TypeOK

\* Each step of serve() leaves fewer numbers, fewer ticks or a shorter round.
LEMMA ServeStepOrder ==
  ASSUME TypeOK, TypeOK', ServeStep
  PROVE  /\ Numbers' <= Numbers
         /\ \/ Numbers' < Numbers
            \/ Ticks' < Ticks
            \/ Ticks' <= Ticks /\ Round' < Round
<1> DEFINE Goal == /\ Numbers' <= Numbers
                   /\ \/ Numbers' < Numbers
                      \/ Ticks' < Ticks
                      \/ Ticks' <= Ticks /\ Round' < Round
<1>0. /\ pc \in PCs /\ sequence \in 0..MaxSequence
      /\ clock \in 0..Horizon /\ until \in 0..Horizon
      /\ pc' \in PCs /\ sequence' \in 0..MaxSequence
      /\ clock' \in 0..Horizon /\ until' \in 0..Horizon
      /\ MaxSequence \in Nat \ {0} /\ Horizon \in Nat
  <2>1. /\ pc' \in PCs /\ sequence' \in 0..MaxSequence
        /\ clock' \in 0..Horizon /\ until' \in 0..Horizon
    BY DEF TypeOK
  <2> QED
    BY <2>1, WorkState, ServeAssumption
<1>1. ASSUME UNCHANGED <<clock, sequence>>, pc' # "recv",
             pc = "recv" => pc' \in Resting \/ until <= clock,
             pc \in Resting => pc' \in Resting,
             pc' \in Before => pc \in Before,
             StepsLeft(pc') < StepsLeft(pc)
      PROVE  Goal
  <2>1. /\ NumbersLeft(pc', sequence) <= NumbersLeft(pc, sequence)
        /\ TicksLeft(pc', clock, until') <= TicksLeft(pc, clock, until)
    BY <1>0, <1>1, LaterPoint
  <2> QED
    BY <1>1, <2>1 DEF Numbers, Ticks, Round
<1>2. CASE \/ SendHello \/ RecvAdmission \/ AdmissionExpired \/ VerifyBundle
           \/ WriteVerdict \/ InstallUpdate \/ CheckFiles
  <2>1. /\ UNCHANGED <<clock, sequence>>
        /\ \/ pc = "hello" /\ pc' \in {"admission", "err"}
           \/ pc = "admission" /\ pc' \in {"verify", "verdict"}
           \/ pc = "verify" /\ pc' \in {"files", "verdict"}
           \/ pc = "files" /\ pc' \in {"ready", "verdict"}
           \/ pc = "verdict" /\ pc' \in {"update", "err"}
           \/ pc = "update" /\ pc' = "err"
    BY <1>2 DEF SendHello, RecvAdmission, AdmissionExpired, VerifyBundle, WriteVerdict,
       InstallUpdate, CheckFiles, Refuse, outside, session
  <2> QED
    BY <1>1, <2>1, StepsTable DEF Before, Resting, Ended
<1>3. CASE WriteReady
  <2>1. /\ clock' = clock /\ pc = "ready"
        /\ (pc' = "top" /\ sequence' = 1) \/ (pc' = "err" /\ sequence' = sequence)
    BY <1>3 DEF WriteReady, outside
  <2>2. CASE pc' = "top" /\ sequence' = 1
    BY <1>0, <2>1, <2>2 DEF Numbers, NumbersLeft, Before
  <2>3. CASE pc' = "err" /\ sequence' = sequence
    BY <1>1, <2>1, <2>3, StepsTable DEF Before, Resting, Ended
  <2> QED
    BY <2>1, <2>2, <2>3
<1>4. CASE LoopTop
  <2>1. UNCHANGED <<clock, sequence>> /\ pc = "top" /\ pc' \in {"final", "recv"}
    BY <1>4 DEF LoopTop, Finish, outside, session
  <2>2. CASE pc' = "final"
    BY <1>1, <2>1, <2>2, StepsTable DEF Before, Resting, Ended
  <2>3. CASE pc' = "recv"
    <3> DEFINE wakeAt == Least(nextHeartbeat, Least(deadline, PolicyExpires))
               w == IF wakeAt - NowUnix >= 1 THEN wakeAt - NowUnix ELSE 1
    <3>1. NowUnix < PolicyExpires /\ until' = WaitUntil(w)
      BY <1>4, <2>3 DEF LoopTop, Finish
    <3>2. /\ NowUnix \in Nat /\ PolicyExpires \in Nat /\ deadline \in Nat
          /\ nextHeartbeat \in Nat /\ TicksPerSecond \in Nat \ {0}
          /\ (PolicyExpires + 1) * TicksPerSecond <= Horizon
      BY NowType, ServeAssumption DEF TypeOK
    <3>3. w \in Nat /\ w >= 1
      BY <3>2, WaitSeconds
    <3> HIDE DEF w
    <3>4. clock < (PolicyExpires + 1) * TicksPerSecond
      <4>1. (clock \div TicksPerSecond) + 0 <= PolicyExpires
        BY <3>1, <3>2 DEF NowUnix
      <4>2. clock + 0 * TicksPerSecond < (PolicyExpires + 1) * TicksPerSecond
        BY <1>0, <3>2, <4>1, WaitEnds
      <4> QED
        BY <1>0, <3>2, <4>2
    <3>5. (PolicyExpires + 1) * TicksPerSecond \in Nat
      BY <3>2
    <3>6. clock < Horizon
      BY <1>0, <3>2, <3>4, <3>5
    <3>7. w * TicksPerSecond \in Nat /\ w * TicksPerSecond >= 1
      <4>1. PICK k \in Nat, t \in Nat : w = k + 1 /\ TicksPerSecond = t + 1
        BY <3>2, <3>3, w - 1 \in Nat, TicksPerSecond - 1 \in Nat
      <4>2. w * TicksPerSecond = k * t + k + t + 1 /\ k * t \in Nat
        BY <4>1
      <4> QED
        BY <4>2
    <3>8. until' > clock
      BY <1>0, <3>1, <3>6, <3>7 DEF WaitUntil, Least
    <3>9. Ticks' < Ticks
      <4>1. Ticks' = Horizon - until' /\ Ticks = Horizon - clock
        BY <2>1, <2>3 DEF Ticks, TicksLeft, Resting, Ended
      <4> QED
        BY <1>0, <3>8, <4>1, TicksOrder
    <3>10. Numbers' = Numbers
      BY <2>1, <2>3 DEF Numbers, NumbersLeft, Before
    <3> QED
      BY <1>0, <2>1, <2>3, <3>9, <3>10, WorkTypes DEF Numbers
  <2> QED
    BY <2>1, <2>2, <2>3
<1>5. CASE WaitTimeout \/ WriteHeartbeat \/ WriteFinal
  <2>1. /\ UNCHANGED <<clock, sequence>>
        /\ \/ pc = "recv" /\ pc' \in {"heartbeat", "top"} /\ clock >= until
           \/ pc = "heartbeat" /\ pc' \in {"top", "err"}
           \/ pc = "final" /\ pc' = "err"
    BY <1>5 DEF WaitTimeout, WriteHeartbeat, WriteFinal, outside, session
  <2>2. pc = "recv" => until <= clock
    BY <1>0, <2>1
  <2> QED
    BY <1>1, <2>1, <2>2, StepsTable DEF Before, Resting, Ended
<1>6. CASE RecvStop \/ RecvChallenge \/ RecvRevocation \/ RecvFatal
  <2>1. /\ UNCHANGED <<clock, sequence>> /\ pc = "recv"
        /\ pc' \in {"ok", "err", "inspect", "final"}
    BY <1>6 DEF RecvStop, RecvChallenge, RecvRevocation, RecvFatal, Finish, outside,
       session
  <2> QED
    BY <1>1, <2>1, StepsTable DEF Before, Resting, Ended
<1>7. CASE InspectAndSign
  <2>1. /\ clock' = clock /\ pc = "inspect"
        /\ \/ pc' = "report" /\ sequence' = sequence + 1
           \/ pc' = "err" /\ sequence' = sequence
    BY <1>7 DEF InspectAndSign, outside
  <2>2. CASE pc' = "report" /\ sequence' = sequence + 1
    BY <1>0, <2>1, <2>2 DEF Numbers, NumbersLeft, Before
  <2>3. CASE pc' = "err" /\ sequence' = sequence
    BY <1>1, <2>1, <2>3, StepsTable DEF Before, Resting, Ended
  <2> QED
    BY <2>1, <2>2, <2>3
<1>8. CASE WriteReport
  <2>1. UNCHANGED <<clock, sequence>> /\ pc = "report" /\ pc' \in {"top", "err"}
    BY <1>8 DEF WriteReport, outside, session
  <2> QED
    BY <1>1, <2>1, StepsTable DEF Before, Resting, Ended
<1> QED
  BY <1>2, <1>3, <1>4, <1>5, <1>6, <1>7, <1>8 DEF ServeStep

\* serve() terminates as far as it is allowed to run: for every policy, clock
\* resolution and game, it takes at most the number of steps that Work counts.
THEOREM WorkDecreasesHolds == Spec => [](Work \in Nat) /\ WorkDecreases
<1>1. TypeOK /\ TypeOK' /\ [Next]_vars =>
        [(ServeStep => Work' < Work) /\ Work' <= Work]_vars
  <2> SUFFICES ASSUME TypeOK, TypeOK', [Next]_vars
               PROVE  (ServeStep => Work' < Work) /\ Work' <= Work
    OBVIOUS
  <2>1. /\ Horizon \in Nat /\ Numbers \in Nat /\ Numbers' \in Nat
        /\ Ticks \in 0..Horizon /\ Ticks' \in 0..Horizon
        /\ Round \in 0..12 /\ Round' \in 0..12
    <3>1. /\ pc' \in PCs /\ sequence' \in 0..MaxSequence
          /\ clock' \in 0..Horizon /\ until' \in 0..Horizon
      BY DEF TypeOK
    <3>2. Horizon \in Nat /\ MaxSequence \in Nat
      BY ServeAssumption
    <3> QED
      BY <3>1, <3>2, WorkState, WorkTypes DEF Numbers, Ticks, Round
  <2>2. ASSUME Numbers' <= Numbers,
               \/ Numbers' < Numbers
               \/ Ticks' < Ticks
               \/ Ticks' <= Ticks /\ Round' < Round
        PROVE  Work' < Work
    BY <2>1, <2>2, WorkOrder DEF Work
  <2>3. ASSUME Numbers' <= Numbers, Ticks' <= Ticks, Round' <= Round
        PROVE  Work' <= Work
    BY <2>1, <2>3, WorkOrder DEF Work
  <2>4. Work \in Nat /\ Work' \in Nat
    BY <2>1, WorkIsNat DEF Work
  <2>5. ServeStep => Work' < Work
    BY <2>2, ServeStepOrder
  <2>6. UNCHANGED <<pc, sequence, until>> /\ clock' >= clock => Work' <= Work
    <3> SUFFICES ASSUME UNCHANGED <<pc, sequence, until>>, clock' >= clock
                 PROVE  Work' <= Work
      OBVIOUS
    <3>1. Numbers' = Numbers /\ Round' = Round
      BY DEF Numbers, Round
    <3>2. /\ pc \in PCs /\ clock \in 0..Horizon /\ until \in 0..Horizon
          /\ clock' \in 0..Horizon /\ clock <= clock'
      <4>1. clock' \in 0..Horizon
        BY DEF TypeOK
      <4> QED
        BY <4>1, WorkState, ServeAssumption
    <3>3. Ticks' = TicksLeft(pc, clock', until)
      BY DEF Ticks
    <3>4. Ticks' <= Ticks
      BY <3>2, <3>3, LaterTick DEF Ticks
    <3> QED
      BY <2>1, <2>3, <3>1, <3>4
  <2>7. CASE Tick \/ ReaderStep \/ GameStep
    <3>1. UNCHANGED <<pc, sequence, until>>
      BY <2>7, OutsideStep DEF session
    <3>2. clock' = clock \/ clock' = clock + 1
      BY <2>7 DEF Tick, ReaderStep, ReaderRead, ReaderSend, GameStep, GameSend,
         GameRead, GameClose, outside
    <3>3. clock \in 0..Horizon /\ Horizon \in Nat
      BY WorkState, ServeAssumption
    <3>4. clock' >= clock
      BY <3>2, <3>3
    <3> QED
      BY <2>5, <2>6, <3>1, <3>4
  <2>8. CASE UNCHANGED vars
    <3>1. UNCHANGED <<pc, sequence, until, clock>>
      BY <2>8 DEF vars, session
    <3>2. clock \in 0..Horizon /\ Horizon \in Nat
      BY WorkState, ServeAssumption
    <3>3. clock' >= clock
      BY <3>1, <3>2
    <3> QED
      BY <2>5, <2>6, <3>1, <3>3
  <2> QED
    BY <2>4, <2>5, <2>7, <2>8 DEF Next, Returned
<1>2. TypeOK => Work \in Nat
  <2>1. TypeOK => /\ Numbers \in 0..MaxSequence /\ Ticks \in 0..Horizon
                  /\ Round \in 0..12
    BY WorkState, WorkTypes DEF Numbers, Ticks, Round
  <2>2. Horizon \in Nat /\ MaxSequence \in Nat
    BY ServeAssumption
  <2> QED
    BY <2>1, <2>2, WorkIsNat DEF Work
<1> QED
  BY <1>1, <1>2, TypeCorrect, PTL DEF Spec, WorkDecreases

-----------------------------------------------------------------------------
(* What the chain is worth to the server that checks it. *)

\* s is numbered from 1 and each report in it names the one before it: what a
\* server can check of the reports that it has received.
Chained(s) ==
  \A i \in 1..Len(s) :
    /\ s[i].sequence = i
    /\ s[i].previous = IF i = 1 THEN NoDigest ELSE Digest(s[i - 1])

\* Two different reports, one of s and one of t, have the same digest.
Collide(s, t) ==
  \E i \in 1..Len(s), j \in 1..Len(t) : s[i] # t[j] /\ Digest(s[i]) = Digest(t[j])

\* Two chains that end in the same report are the same chain.
LEMMA ChainFromLast ==
  ASSUME NEW s \in Seq(Report), NEW t \in Seq(Report), s # <<>>, t # <<>>,
         Chained(s), Chained(t), s[Len(s)] = t[Len(t)], ~Collide(s, t)
  PROVE  s = t
<1> DEFINE n == Len(s)
           T == {k \in Nat : k < n => s[n - k] = t[n - k]}
<1>1. n \in Nat \ {0} /\ Len(t) \in Nat \ {0}
  BY EmptySeq, LenProperties
<1>2. Len(t) = n
  <2>1. s[n].sequence = n /\ t[Len(t)].sequence = Len(t)
    BY <1>1 DEF Chained
  <2> QED
    BY <2>1
<1>3. 0 \in T
  BY <1>1, <1>2
<1>4. ASSUME NEW k \in Nat, k \in T PROVE k + 1 \in T
  <2> SUFFICES ASSUME k + 1 < n PROVE s[n - (k + 1)] = t[n - (k + 1)]
    OBVIOUS
  <2>0. n - k \in 1..n /\ n - (k + 1) \in 1..n
    <3>1. PICK m \in Nat : m = n
      BY <1>1
    <3>2. k + 1 < m => m - k \in 1..m /\ m - (k + 1) \in 1..m
      OBVIOUS
    <3> QED
      BY <3>1, <3>2
  <2>1. PICK i \in 1..n, j \in 1..n : i = n - k /\ j = n - (k + 1)
    BY <2>0
  <2>2. j = i - 1 /\ i # 1 /\ s[i] = t[i]
    BY <1>1, <1>4, <2>1
  <2>3. s[i].previous = Digest(s[j]) /\ t[i].previous = Digest(t[j])
    BY <1>2, <2>2 DEF Chained
  <2>4. Digest(s[j]) = Digest(t[j])
    BY <2>2, <2>3
  <2>5. s[j] = t[j]
    BY <1>2, <2>4 DEF Collide
  <2> QED
    BY <2>1, <2>5
<1>5. Nat \subseteq T
  <2> HIDE DEF T
  <2> QED
    BY <1>3, <1>4, NatSetInduction
<1>6. ASSUME NEW i \in 1..n PROVE s[i] = t[i]
  <2>1. n - i \in Nat /\ n - i < n /\ n - (n - i) = i
    BY <1>1
  <2>2. n - i \in T
    BY <1>5, <2>1
  <2> QED
    BY <2>1, <2>2
<1> QED
  BY <1>2, <1>6, SeqEqual

\* The last report commits the Agent to all of them: a chain of reports that
\* ends in the last report of a session is the session's reports, none missing,
\* added, altered or moved, unless two different reports have one digest.
LastReportCommits ==
  reports # <<>> =>
    \A s \in Seq(Report) :
      s # <<>> /\ Chained(s) /\ s[Len(s)] = reports[Len(reports)] =>
        s = reports \/ Collide(s, reports)

\* The report that the server accepts last vouches for every report before it:
\* in every session of serve() the channel's history is determined by its end.
THEOREM LastReportCommitsHolds == Spec => []LastReportCommits
<1>1. IInv => LastReportCommits
  <2> SUFFICES ASSUME IInv, reports # <<>>, NEW s \in Seq(Report), s # <<>>, Chained(s),
                      s[Len(s)] = reports[Len(reports)], ~Collide(s, reports)
               PROVE  s = reports
    BY DEF LastReportCommits
  <2>1. reports \in Seq(Report) /\ Chained(reports)
    BY DEF IInv, TypeOK, ChainInv, ReportChain, Chained
  <2> QED
    BY <2>1, ChainFromLast
<1> QED
  BY <1>1, SessionInvariant, PTL
=============================================================================

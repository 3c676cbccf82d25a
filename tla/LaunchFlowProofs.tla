-------------------------- MODULE LaunchFlowProofs --------------------------
(***************************************************************************)
(* Proofs about LaunchFlow, for every number of launches that share a      *)
(* status file, on either platform.                                        *)
(***************************************************************************)
EXTENDS LaunchFlow, TLAPS

-----------------------------------------------------------------------------
(* Types. *)

\* The states and reasons that are published have their types.
LEMMA PublishedTypes ==
  /\ \A s : After(s) \subseteq States
  /\ \A s : ReasonOf(s) \in Reasons
  /\ "none" \in States /\ "none" \in Reasons
<1>1. \A s : After(s) \subseteq States
  BY DEF After, States, Milestones, Finals
<1>2. \A s : ReasonOf(s) \in Reasons
  BY DEF ReasonOf, Reasons
<1> QED
  BY <1>1, <1>2 DEF States, Reasons

\* A published record has its type, and so has one that could not be replaced.
LEMMA RecordType ==
  ASSUME record \in Record, unwritten \subseteq Attempts,
         NEW a \in Attempts, NEW s \in States, NEW r \in Reasons, Publish(a, s, r)
  PROVE  record' \in Record /\ unwritten' \subseteq Attempts
BY DEF Publish, Record

\* Only Windows contains a game, and only one that was created.
PlaceInv == \A a \in Attempts :
  pc[a] \in {"contain", "resume"} => setting.platform = "windows" /\ game[a] # "none"

\* Every step of a launch, its game and its splash keeps the types.
LEMMA TypeStep == TypeOK /\ PlaceInv /\ [Next]_vars => TypeOK'
<1> SUFFICES ASSUME TypeOK, PlaceInv, [Next]_vars PROVE TypeOK'
  OBVIOUS
<1> USE PublishedTypes, RecordType DEF TypeOK, PlaceInv, file
<1>1. ASSUME NEW a \in Attempts, Launch(a) PROVE TypeOK'
  <2>1. record' \in Record /\ unwritten' \subseteq Attempts
    BY <1>1 DEF Launch, States, Milestones, Reasons
  <2> QED
    BY <1>1, <2>1 DEF Launch, Goto, PCs, Ended, process
<1>2. ASSUME NEW a \in Attempts, VerifyAgent(a) \/ HashFiles(a) \/ Prepare(a)
      PROVE  TypeOK'
  <2>1. record' \in Record /\ unwritten' \subseteq Attempts
    BY <1>2 DEF VerifyAgent, HashFiles, Prepare, States, Milestones, Reasons
  <2> QED
    BY <1>2, <2>1 DEF VerifyAgent, HashFiles, Prepare, Goto, PCs, Ended, process, window
<1>3. ASSUME NEW a \in Attempts,
             Create(a) \/ CloneChannel(a) \/ Contain(a) \/ Resume(a)
      PROVE  TypeOK'
  <2>1. pc' \in [Attempts -> PCs] /\ \A b \in Attempts : pc[b] = "report" => pc'[b] = "report"
    BY <1>3 DEF Create, CloneChannel, Contain, Resume, Goto, PCs, Ended
  <2>2. /\ game' \in [Attempts -> {"none", "suspended", "running", "exited"}]
        /\ contained' \subseteq Attempts
    BY <1>3 DEF Create, CloneChannel, Contain, Resume, Exit, process
  <2>3. ASSUME NEW b \in contained' PROVE setting.platform = "windows" /\ game'[b] # "none"
    BY <1>3, <2>3 DEF Create, CloneChannel, Contain, Resume, Exit, process
  <2>4. session' \in [Attempts -> States \cup {Unserved, Broken}]
    BY <1>3 DEF Create, CloneChannel, Contain, Resume, StartSession
  <2> QED
    BY <1>3, <2>1, <2>2, <2>3, <2>4
    DEF Create, CloneChannel, Contain, Resume, window, process
<1>4. ASSUME NEW a \in Attempts, ServeShows(a) PROVE TypeOK'
  <2>1. PICK s \in After(session[a]) :
          /\ session' = [session EXCEPT ![a] = s]
          /\ Publish(a, s, ReasonOf(s))
          /\ admitted' = IF s = "protected" THEN admitted \cup {a} ELSE admitted
    BY <1>4 DEF ServeShows
  <2>2. record' \in Record /\ unwritten' \subseteq Attempts
    BY <2>1
  <2>3. session' \in [Attempts -> States \cup {Unserved, Broken}]
    BY <2>1
  <2> QED
    BY <1>4, <2>1, <2>2, <2>3 DEF ServeShows, process, window
<1>5. ASSUME NEW a \in Attempts, ServeFails(a) \/ ServeReturns(a) \/ WaitGame(a)
      PROVE  TypeOK'
  BY <1>5 DEF ServeFails, ServeReturns, WaitGame, Goto, Exit, BreakSession, PCs, Ended,
     process, window
<1>6. ASSUME NEW a \in Attempts, ReadStatus(a) PROVE TypeOK'
  BY <1>6 DEF ReadStatus, Goto, PCs, process, window
<1>7. ASSUME NEW a \in Attempts, Report(a) PROVE TypeOK'
  <2>1. record' \in Record /\ unwritten' \subseteq Attempts
    BY <1>7 DEF Report, States, Reasons
  <2> QED
    BY <1>7, <2>1 DEF Report, Goto, PCs, Ended, process, window
<1>8. ASSUME NEW a \in Attempts, Crash(a) PROVE TypeOK'
  BY <1>8 DEF Crash, Goto, Exit, BreakSession, PCs, Ended, window
<1>9. ASSUME NEW a \in Attempts, GameExits(a) PROVE TypeOK'
  BY <1>9 DEF GameExits, Exit, window
<1>10. ASSUME NEW a \in Attempts, Refresh(a) \/ CloseSplash(a) PROVE TypeOK'
  <2>1. Unread \in Record
    BY DEF Unread, Record, States, Milestones, Reasons
  <2> QED
    BY <1>10, <2>1 DEF Refresh, CloseSplash, process
<1>11. CASE UNCHANGED vars
  BY <1>11 DEF vars, process, window
<1> QED
  BY <1>1, <1>2, <1>3, <1>4, <1>5, <1>6, <1>7, <1>8, <1>9, <1>10, <1>11
  DEF Next, LaunchStep, Finished

\* Every step keeps PlaceInv.
LEMMA PlaceStep == TypeOK /\ PlaceInv /\ [Next]_vars => PlaceInv'
<1> SUFFICES ASSUME TypeOK, PlaceInv, [Next]_vars PROVE PlaceInv'
  OBVIOUS
<1> USE DEF TypeOK, PlaceInv, Goto, Exit, process
<1>1. ASSUME NEW a \in Attempts,
             \/ Launch(a) \/ VerifyAgent(a) \/ HashFiles(a) \/ Prepare(a) \/ Create(a)
             \/ CloneChannel(a) \/ Contain(a) \/ Resume(a)
      PROVE  PlaceInv'
  BY <1>1 DEF Launch, VerifyAgent, HashFiles, Prepare, Create, CloneChannel, Contain,
     Resume
<1>2. ASSUME NEW a \in Attempts,
             \/ ServeShows(a) \/ ServeFails(a) \/ ServeReturns(a) \/ WaitGame(a)
             \/ ReadStatus(a) \/ Report(a) \/ Crash(a) \/ GameExits(a)
      PROVE  PlaceInv'
  BY <1>2 DEF ServeShows, ServeFails, ServeReturns, WaitGame, ReadStatus, Report,
     Crash, GameExits
<1>3. ASSUME NEW a \in Attempts, Refresh(a) \/ CloseSplash(a) PROVE PlaceInv'
  BY <1>3 DEF Refresh, CloseSplash
<1>4. CASE UNCHANGED vars
  BY <1>4 DEF vars
<1> QED
  BY <1>1, <1>2, <1>3, <1>4 DEF Next, LaunchStep, Finished

\* The state of all launches always has its declared types.
THEOREM LaunchTypes == Spec => []TypeOK
<1>1. Init => TypeOK /\ PlaceInv
  BY PublishedTypes
  DEF Init, TypeOK, PlaceInv, PCs, Record, NoRecord, Unread, States, Milestones, Reasons
<1> QED
  BY <1>1, TypeStep, PlaceStep, PTL DEF Spec

-----------------------------------------------------------------------------
(* The splash. *)

\* The status file announces a protected session only of a launch that has one.
RecordInv == record.state = "protected" => record.attempt \in admitted

\* Sessions are never taken back, and a record says "protected" only when a
\* session says so.
LEMMA RecordStep ==
  TypeOK /\ RecordInv /\ [Next]_vars => RecordInv' /\ admitted \subseteq admitted'
<1> SUFFICES ASSUME TypeOK, RecordInv, [Next]_vars
             PROVE  RecordInv' /\ admitted \subseteq admitted'
  OBVIOUS
<1> USE DEF RecordInv, Publish, file
<1>1. ASSUME NEW a \in Attempts,
             Launch(a) \/ VerifyAgent(a) \/ HashFiles(a) \/ Prepare(a)
      PROVE  RecordInv' /\ admitted \subseteq admitted'
  BY <1>1 DEF Launch, VerifyAgent, HashFiles, Prepare
<1>2. ASSUME NEW a \in Attempts, ServeShows(a)
      PROVE  RecordInv' /\ admitted \subseteq admitted'
  BY <1>2 DEF ServeShows
<1>3. ASSUME NEW a \in Attempts,
             \/ Create(a) \/ CloneChannel(a) \/ Contain(a) \/ Resume(a) \/ ServeFails(a)
             \/ ServeReturns(a) \/ WaitGame(a) \/ ReadStatus(a) \/ Report(a)
      PROVE  RecordInv' /\ admitted \subseteq admitted'
  BY <1>3 DEF Create, CloneChannel, Contain, Resume, ServeFails, ServeReturns,
     WaitGame, ReadStatus, Report
<1>4. ASSUME NEW a \in Attempts,
             Crash(a) \/ GameExits(a) \/ Refresh(a) \/ CloseSplash(a)
      PROVE  RecordInv' /\ admitted \subseteq admitted'
  BY <1>4 DEF Crash, GameExits, Refresh, CloseSplash
<1>5. CASE UNCHANGED vars
  BY <1>5 DEF vars
<1> QED
  BY <1>1, <1>2, <1>3, <1>4, <1>5 DEF Next, LaunchStep, Finished

\* Whatever other launches write to the shared file, a splash announces a
\* protected session only for the launch it belongs to, after its admission.
THEOREM SplashTruthfulHolds == Spec => []SplashTruthful
<1>1. Init => RecordInv /\ SplashTruthful
  BY DEF Init, RecordInv, NoRecord, SplashTruthful, Unread
<1>2. TypeOK /\ RecordInv /\ SplashTruthful /\ [Next]_vars => RecordInv' /\ SplashTruthful'
  <2> SUFFICES ASSUME TypeOK, RecordInv, SplashTruthful, [Next]_vars
               PROVE  SplashTruthful'
    BY RecordStep
  <2>1. admitted \subseteq admitted'
    BY RecordStep
  <2>2. CASE UNCHANGED <<shown, ready>>
    BY <2>1, <2>2 DEF SplashTruthful
  <2>3. ASSUME NEW a \in Attempts, Refresh(a) PROVE SplashTruthful'
    BY <2>3 DEF Refresh, SplashTruthful, RecordInv, TypeOK
  <2>4. ASSUME NEW a \in Attempts, CloseSplash(a) PROVE SplashTruthful'
    BY <2>4 DEF CloseSplash, SplashTruthful, Unread, TypeOK
  <2>5. ASSUME NEW a \in Attempts,
               Launch(a) \/ LaunchStep(a) \/ Crash(a) \/ GameExits(a)
        PROVE  UNCHANGED <<shown, ready>>
    BY <2>5 DEF Launch, LaunchStep, VerifyAgent, HashFiles, Prepare, Create,
       CloneChannel, Contain, Resume, ServeShows, ServeFails, ServeReturns,
       WaitGame, ReadStatus, Report, Crash, GameExits, window
  <2> QED
    BY <2>2, <2>3, <2>4, <2>5 DEF Next, Finished, vars, window
<1> QED
  BY <1>1, <1>2, LaunchTypes, PTL DEF Spec

-----------------------------------------------------------------------------
(* The game. *)

\* Launch a is where a game that runs is supervised, or may be left alone.
GameOf(a) ==
  /\ pc[a] \in {"idle", "agent", "hash", "prepare", "create"} => game[a] = "none"
  /\ pc[a] \in {"idle", "agent", "hash", "prepare", "create", "clone", "contain",
               "resume"} => session[a] = Unserved
  /\ pc[a] = "clone" => setting.platform = "unix"
  /\ pc[a] = "contain" => game[a] = "suspended"
  /\ pc[a] = "resume" => game[a] = "suspended" /\ a \in contained
  /\ pc[a] = "wait" => session[a] = "stopped"
  /\ pc[a] \in {"failed", "report", "err"} /\ game[a] = "running" =>
       setting.platform = "unix" /\ session[a] \in {Unserved, "stopped"}
  /\ pc[a] = "dead" /\ game[a] = "running" => setting.platform = "unix"
  /\ game[a] = "running" /\ setting.platform = "windows" => a \in contained
  /\ pc[a] = "ok" => game[a] # "running"

GameInv == \A a \in Attempts : GameOf(a)

\* A step of launch a leaves the games of the others alone.
LEMMA GameFrame ==
  ASSUME TypeOK, NEW a \in Attempts,
         Launch(a) \/ LaunchStep(a) \/ Crash(a) \/ GameExits(a)
  PROVE  /\ setting' = setting /\ contained \subseteq contained'
         /\ \A b \in Attempts \ {a} :
              pc'[b] = pc[b] /\ game'[b] = game[b] /\ session'[b] = session[b]
BY DEF TypeOK, Launch, LaunchStep, VerifyAgent, HashFiles, Prepare, Create,
   CloneChannel, Contain, Resume, ServeShows, ServeFails, ServeReturns,
   WaitGame, ReadStatus, Report, Crash, GameExits, Goto, Exit, StartSession, BreakSession, process

\* Every step keeps GameInv.
LEMMA GameStep == TypeOK /\ GameInv /\ [Next]_vars => GameInv'
<1> SUFFICES ASSUME TypeOK, GameInv, [Next]_vars PROVE GameInv'
  OBVIOUS
<1>0. setting.platform \in {"unix", "windows"}
  BY LaunchAssumption DEF TypeOK
<1>1. ASSUME NEW a \in Attempts,
             Launch(a) \/ VerifyAgent(a) \/ HashFiles(a) \/ Prepare(a)
      PROVE  GameOf(a)'
  BY <1>1 DEF TypeOK, GameInv, GameOf, Launch, VerifyAgent, HashFiles, Prepare, Goto, process
<1>2. ASSUME NEW a \in Attempts,
             Create(a) \/ CloneChannel(a) \/ Contain(a) \/ Resume(a)
      PROVE  GameOf(a)'
  BY <1>0, <1>2 DEF TypeOK, GameInv, GameOf, Create, CloneChannel, Contain, Resume, Goto,
     Exit, StartSession, BreakSession, process
<1>3. ASSUME NEW a \in Attempts,
             ServeShows(a) \/ ServeFails(a) \/ ServeReturns(a) \/ WaitGame(a)
      PROVE  GameOf(a)'
  <2>1. CASE ServeShows(a)
    BY <2>1 DEF TypeOK, GameInv, GameOf, ServeShows, process
  <2>2. CASE ServeFails(a) \/ ServeReturns(a)
    BY <2>2 DEF TypeOK, GameInv, GameOf, ServeFails, ServeReturns, Goto, Exit,
       BreakSession, Succeeds, process
  <2>3. CASE WaitGame(a)
    BY <1>0, <2>3 DEF TypeOK, GameInv, GameOf, WaitGame, Goto, Exit
  <2> QED
    BY <1>3, <2>1, <2>2, <2>3
<1>4. ASSUME NEW a \in Attempts,
             ReadStatus(a) \/ Report(a) \/ GameExits(a)
      PROVE  GameOf(a)'
  BY <1>4 DEF TypeOK, GameInv, GameOf, ReadStatus, Report, GameExits, Goto, Exit, StartSession, BreakSession, process
<1>5. ASSUME NEW a \in Attempts, Crash(a) PROVE GameOf(a)'
  BY <1>0, <1>5 DEF TypeOK, GameInv, GameOf, Crash, Goto, Exit, BreakSession
<1>6. ASSUME NEW a \in Attempts, Launch(a) \/ LaunchStep(a) \/ Crash(a) \/ GameExits(a)
      PROVE  GameInv'
  <2>1. GameOf(a)'
    BY <1>1, <1>2, <1>3, <1>4, <1>5, <1>6 DEF LaunchStep
  <2>2. ASSUME NEW b \in Attempts \ {a} PROVE GameOf(b)'
    BY <1>6, <2>2, GameFrame DEF GameInv, GameOf
  <2> QED
    BY <2>1, <2>2 DEF GameInv
<1>7. CASE UNCHANGED vars
  BY <1>7 DEF GameInv, GameOf, vars, process
<1>8. ASSUME NEW a \in Attempts, Refresh(a) \/ CloseSplash(a) PROVE GameInv'
  BY <1>8 DEF GameInv, GameOf, Refresh, CloseSplash, process
<1> QED
  BY <1>6, <1>7, <1>8 DEF Next, Finished

\* No game is left running after a failed session, be it that its admission
\* failed; none outlives its launch on Windows.
THEOREM GameIsSupervisedHolds == Spec => []GameIsSupervised
<1>1. Init => GameInv
  BY DEF Init, GameInv, GameOf
<1>2. TypeOK /\ GameInv => GameIsSupervised
  BY LaunchAssumption DEF GameInv, GameOf, GameIsSupervised, TypeOK, PCs, Ended
<1> QED
  BY <1>1, <1>2, GameStep, LaunchTypes, PTL DEF Spec

-----------------------------------------------------------------------------
(* The reason of a failure. *)

\* What the status file shows of a launch that was the last to write it.
ShownInv ==
  \A a \in Attempts :
    record.attempt = a =>
      /\ pc[a] # "idle"
      /\ pc[a] = "hash" =>
           record.state = "hashing_registered_game_files" \/ a \in unwritten
      /\ pc[a] = "report" /\ published[a] => record.state \in Explained
      /\ pc[a] = "err" =>
           \/ record.state \in Explained
           \/ a \in unwritten
           \/ ~setting.listed /\ record.state = "hashing_registered_game_files"

\* A step that does not write the file disturbs only the launch it belongs to.
LEMMA ShownStep == TypeOK /\ ShownInv /\ [Next]_vars => ShownInv'
<1> SUFFICES ASSUME TypeOK, ShownInv, [Next]_vars PROVE ShownInv'
  OBVIOUS
<1> USE DEF TypeOK, ShownInv, Explained, Publish, Goto, file
<1>1. ASSUME NEW a \in Attempts, Launch(a) \/ VerifyAgent(a) PROVE ShownInv'
  BY <1>1 DEF Launch, VerifyAgent
<1>2. ASSUME NEW a \in Attempts, HashFiles(a) \/ Prepare(a) PROVE ShownInv'
  BY <1>2 DEF HashFiles, Prepare
<1>3. ASSUME NEW a \in Attempts,
             \/ Create(a) \/ CloneChannel(a) \/ Contain(a) \/ Resume(a) \/ ServeFails(a)
             \/ ServeReturns(a) \/ WaitGame(a)
      PROVE  ShownInv'
  BY <1>3 DEF Create, CloneChannel, Contain, Resume, ServeFails, ServeReturns, WaitGame
<1>4. ASSUME NEW a \in Attempts, ServeShows(a) PROVE ShownInv'
  BY <1>4 DEF ServeShows
<1>5. ASSUME NEW a \in Attempts, ReadStatus(a) \/ Report(a) PROVE ShownInv'
  BY <1>5 DEF ReadStatus, Report
<1>6. ASSUME NEW a \in Attempts,
             Crash(a) \/ GameExits(a) \/ Refresh(a) \/ CloseSplash(a)
      PROVE  ShownInv'
  BY <1>6 DEF Crash, GameExits, Refresh, CloseSplash
<1>7. CASE UNCHANGED vars
  BY <1>7 DEF vars
<1> QED
  BY <1>1, <1>2, <1>3, <1>4, <1>5, <1>6, <1>7 DEF Next, LaunchStep, Finished

\* A launch that ended in an error left its reason in the status file, unless
\* another launch wrote the file since or its last publication failed.
THEOREM FailurePublishedHolds == Spec => []FailurePublished
<1>1. Init => ShownInv
  BY LaunchAssumption DEF Init, ShownInv, NoRecord
<1>2. ShownInv => FailurePublished
  BY DEF ShownInv, FailurePublished
<1> QED
  BY <1>1, <1>2, ShownStep, LaunchTypes, PTL DEF Spec
=============================================================================

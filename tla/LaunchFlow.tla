----------------------------- MODULE LaunchFlow -----------------------------
(***************************************************************************)
(* Protected launches of one registered game by `certael-agent             *)
(* launch-game` (crates/certael-agent/src/main.rs, windows_launch.rs):     *)
(* the checks before the game, its creation, the session, and what happens *)
(* to the game when one of them fails; with the status file of the         *)
(* registration (status.rs), which all launches share, and the splash      *)
(* window of each launch, a process of its own that polls it (ui.rs).      *)
(*                                                                         *)
(* The session is serve() as SessionStatus sees it, the abstraction that   *)
(* AgentServe implements.  A launch may be killed at any moment.           *)
(***************************************************************************)
EXTENDS Integers, FiniteSets, SessionOutcomes

CONSTANTS
  Attempts,    \* launches of the game: their launch_attempt_ids
  Watched,     \* those whose splash is assumed to keep polling
  Settings     \* the circumstances of the launches to consider

NoOne == "no attempt"

ASSUME LaunchAssumption ==
  /\ Attempts # {} /\ NoOne \notin Attempts
  /\ Watched \subseteq Attempts
  /\ Settings \subseteq [platform : {"unix", "windows"},
                       listed : BOOLEAN,   \* the registration lists files
                       started : SUBSET Attempts,  \* bound: the launches made
                       lossy : SUBSET Attempts]    \* bound: those whose
                                                   \* publications may fail

VARIABLES
  setting,     \* a member of Settings
  pc,          \* where each launch is
  session,     \* each session: the state it published last, or how it ended
  game,        \* the process of each launch's game
  contained,   \* launches whose game is assigned to a containment job
  record,      \* the status file
  unwritten,   \* history: launches whose last publication failed
  published,   \* true of each launch: already_published
  splash,      \* the splash window of each launch
  shown,       \* the status each splash has accepted
  ready,       \* splashes with ready_since set
  admitted     \* history: launches whose session was protected

process == <<game, contained>>
file == <<record, unwritten>>
window == <<splash, shown, ready>>
vars == <<setting, pc, session, process, file, published, window, admitted>>

Milestones ==
  {"verifying_agent_version", "hashing_registered_game_files",
   "starting_game", "awaiting_server_admission",
   "verifying_signed_launch_bundle", "update_required",
   "installing_required_update", "update_ready", "update_failed", "protected"}
States == Milestones \cup Finals \cup {"none", "launch_failed", "stopped"}

\* A launch has not called serve(), or serve() returned an error.
Unserved == "unserved"
Broken == "broken"

Reasons == {"none", "AGENT_VERSION_UNVERIFIED", "REGISTERED_GAME_FILES",
            "PROTECTED_LAUNCH_FAILED", "AGENT_UPDATE_FAILED", "SESSION"}

Record == [attempt : Attempts \cup {NoOne}, state : States, reason : Reasons]
NoRecord == [attempt |-> NoOne, state |-> "none", reason |-> "none"]

Ended == {"ok", "err", "dead"}
PCs == Ended \cup {"idle", "agent", "hash", "prepare", "create",
                   "clone", "contain", "resume", "serve", "wait", "failed",
                   "report"}

\* What a splash shows before it has read a status.
Unread == [attempt |-> NoOne, state |-> "verifying_agent_version", reason |-> "none"]

-----------------------------------------------------------------------------
(* The status file and the splash's reading of it. *)

\* phase_for_state: where a state stands on the splash's progress rail.
phase_for_state(s) ==
  CASE s = "protected" -> 2
    [] s \in {"verifying_agent_version", "hashing_registered_game_files",
              "update_required", "installing_required_update",
              "update_ready", "update_failed"} -> 0
    [] OTHER -> 1

\* publish_binding: a record replaces the file at once, or an error that is
\* discarded leaves the file as it was.
Publish(a, s, r) ==
  \/ /\ record' = [attempt |-> a, state |-> s, reason |-> r]
     /\ unwritten' = unwritten \ {a}
  \/ a \in setting.lossy /\ UNCHANGED record /\ unwritten' = unwritten \cup {a}

failure_phase(reason) ==
  IF reason \in {"REGISTERED_GAME_FILES", "AGENT_VERSION_UNVERIFIED",
                 "AGENT_UPDATE_FAILED"} THEN 0 ELSE 1

failed(a) == shown[a].state \in {"launch_failed", "update_failed"} \cup Finals

\* render_progress
Phase(a) == IF failed(a) THEN failure_phase(shown[a].reason)
            ELSE phase_for_state(shown[a].state)

\* Mutant of ReasonOf: the error itself instead of a public reason.
ReasonUnbounded(s) == s

\* The reasons serve() gives for the states it publishes.
ReasonOf(s) == IF s = "update_failed" THEN "AGENT_UPDATE_FAILED"
               ELSE IF s \in Milestones THEN "none" ELSE "SESSION"

Goto(a, l) == pc' = [pc EXCEPT ![a] = l]
StartSession(a) == session' = [session EXCEPT ![a] = "none"]
BreakSession(a) == session' = [session EXCEPT ![a] = Broken]
Exit(a) == game' = [game EXCEPT ![a] = "exited"]

-----------------------------------------------------------------------------
(* launch_registered. *)

\* The registration was loaded; the splash is started, or the launch ends.
Launch(a) ==
  /\ pc[a] = "idle" /\ a \in setting.started
  /\ \/ /\ splash' = [splash EXCEPT ![a] = "open"]
        /\ Publish(a, "verifying_agent_version", "none")
        /\ Goto(a, "agent")
     \/ /\ Goto(a, "err")
        /\ UNCHANGED <<splash, file>>
  /\ UNCHANGED <<setting, session, process, published, shown, ready, admitted>>

\* verify_selected_agent.  The milestone loading_signed_registration is published
\* and replaced at once: there is no work behind it.
VerifyAgent(a) ==
  /\ pc[a] = "agent"
  /\ \/ /\ Publish(a, "hashing_registered_game_files", "none")
        /\ Goto(a, "hash")
     \/ /\ Publish(a, "launch_failed", "AGENT_VERSION_UNVERIFIED")
        /\ Goto(a, "err")
  /\ UNCHANGED <<setting, session, process, published, window, admitted>>

\* Mutant of HashFiles: a mismatch is returned without being published.
HashFilesSilent(a) ==
  /\ pc[a] = "hash"
  /\ Goto(a, "prepare") \/ Goto(a, "err")
  /\ UNCHANGED <<setting, session, process, file, published, window, admitted>>

\* The registered files, or without any the executable; only the former
\* publishes its failure.
HashFiles(a) ==
  /\ pc[a] = "hash"
  /\ \/ Goto(a, "prepare") /\ UNCHANGED file
     \/ /\ setting.listed
        /\ Publish(a, "launch_failed", "REGISTERED_GAME_FILES")
        /\ Goto(a, "err")
     \/ ~setting.listed /\ Goto(a, "err") /\ UNCHANGED file
  /\ UNCHANGED <<setting, session, process, published, window, admitted>>

\* launch_with_root: the executable and the trust store.
Prepare(a) ==
  /\ pc[a] = "prepare"
  /\ \/ /\ Publish(a, "starting_game", "none")
        /\ Goto(a, "create")
     \/ Goto(a, "failed") /\ UNCHANGED file
  /\ UNCHANGED <<setting, session, process, published, window, admitted>>

-----------------------------------------------------------------------------
(* launch_unix and windows_launch::launch. *)

\* On Windows the game is created suspended.
Create(a) ==
  /\ pc[a] = "create"
  /\ \/ /\ setting.platform = "unix"
        /\ game' = [game EXCEPT ![a] = "running"]
        /\ Goto(a, "clone")
     \/ /\ setting.platform = "windows"
        /\ game' = [game EXCEPT ![a] = "suspended"]
        /\ Goto(a, "contain")
     \/ Goto(a, "failed") /\ UNCHANGED game
  /\ UNCHANGED <<setting, session, contained, file, published, window, admitted>>

\* Unix: the channel is duplicated for the writer; an error leaves the game
\* alone.
CloneChannel(a) ==
  /\ pc[a] = "clone"
  /\ \/ Goto(a, "serve") /\ StartSession(a)
     \/ Goto(a, "failed") /\ UNCHANGED session
  /\ UNCHANGED <<setting, process, file, published, window, admitted>>

\* Windows: create_containment_job and AssignProcessToJobObject; an error
\* leaves the game suspended.
Contain(a) ==
  /\ pc[a] = "contain"
  /\ \/ contained' = contained \cup {a} /\ Goto(a, "resume")
     \/ UNCHANGED contained /\ Goto(a, "failed")
  /\ UNCHANGED <<setting, session, game, file, published, window, admitted>>

\* The job handle is closed when launch returns, and with it the game.
Resume(a) ==
  /\ pc[a] = "resume"
  /\ \/ /\ game' = [game EXCEPT ![a] = "running"]
        /\ Goto(a, "serve") /\ StartSession(a)
     \/ Exit(a) /\ Goto(a, "failed") /\ UNCHANGED session
  /\ UNCHANGED <<setting, contained, file, published, window, admitted>>

\* serve() publishes its next state.
ServeShows(a) ==
  /\ pc[a] = "serve"
  /\ ~Over(session[a])
  /\ \E s \in After(session[a]) :
       /\ session' = [session EXCEPT ![a] = s]
       /\ Publish(a, s, ReasonOf(s))
       /\ admitted' = IF s = "protected" THEN admitted \cup {a} ELSE admitted
  /\ UNCHANGED <<setting, pc, process, published, window>>

\* Mutant of ServeFails: the game is not killed.
ServeFailsKeepsGame(a) ==
  /\ pc[a] = "serve" /\ ~Succeeds(session[a])
  /\ Goto(a, "failed") /\ BreakSession(a)
  /\ UNCHANGED <<setting, process, file, published, window, admitted>>

\* An error of serve() ends the game: killed on Unix, by its job on Windows.
ServeFails(a) ==
  /\ pc[a] = "serve" /\ ~Succeeds(session[a])
  /\ Goto(a, "failed") /\ Exit(a) /\ BreakSession(a)
  /\ UNCHANGED <<setting, contained, file, published, window, admitted>>

ServeReturns(a) ==
  /\ pc[a] = "serve" /\ Succeeds(session[a])
  /\ Goto(a, "wait")
  /\ UNCHANGED <<setting, session, process, file, published, window, admitted>>

GameExits(a) ==
  /\ game[a] = "running"
  /\ Exit(a)
  /\ UNCHANGED <<setting, pc, session, contained, file, published, window, admitted>>

\* child.wait() and WaitForSingleObject: an unsuccessful exit of the game is an
\* error of the launch, and so is a failure to wait for it, which leaves the
\* game running on Unix; on Windows the job is closed with the launch.
WaitGame(a) ==
  /\ pc[a] = "wait"
  /\ \/ /\ game[a] = "exited" /\ UNCHANGED game
        /\ Goto(a, "ok") \/ Goto(a, "failed")
     \/ /\ Goto(a, "failed")
        /\ IF a \in contained THEN Exit(a) ELSE UNCHANGED game
  /\ UNCHANGED <<setting, session, contained, file, published, window, admitted>>

\* The failed launch reads the status file, if it can, ...
ReadStatus(a) ==
  /\ pc[a] = "failed"
  /\ \E readable \in BOOLEAN :
       published' = [published EXCEPT ![a] =
         /\ readable /\ record.attempt = a
         /\ record.state \in {"launch_failed", "update_failed", "update_ready"}]
  /\ Goto(a, "report")
  /\ UNCHANGED <<setting, session, process, file, window, admitted>>

\* ... and publishes a failure unless it found one of its own.
Report(a) ==
  /\ pc[a] = "report"
  /\ IF published[a] THEN UNCHANGED file
     ELSE Publish(a, "launch_failed", "PROTECTED_LAUNCH_FAILED")
  /\ Goto(a, "err")
  /\ published' = [published EXCEPT ![a] = FALSE]
  /\ UNCHANGED <<setting, session, process, window, admitted>>

\* The launching process is killed; Windows closes its job.
Crash(a) ==
  /\ pc[a] \notin Ended \cup {"idle"}
  /\ Goto(a, "dead")
  /\ IF a \in contained THEN Exit(a) ELSE UNCHANGED game
  /\ published' = [published EXCEPT ![a] = FALSE] /\ BreakSession(a)
  /\ UNCHANGED <<setting, contained, file, window, admitted>>

-----------------------------------------------------------------------------
(* SplashApp. *)

\* Mutant of Refresh: a status of any launch is accepted.
RefreshAny(a) ==
  /\ splash[a] = "open"
  /\ shown' = [shown EXCEPT ![a] = record]
  /\ ready' = IF record.state = "protected" THEN ready \cup {a} ELSE ready
  /\ UNCHANGED <<setting, pc, session, process, file, published, splash, admitted>>

\* Mutant of Refresh: only the states of the progress rail are accepted.
RefreshMilestones(a) ==
  /\ splash[a] = "open" /\ record.attempt = a /\ record.state \in Milestones
  /\ shown' = [shown EXCEPT ![a] = record]
  /\ ready' = IF record.state = "protected" THEN ready \cup {a} ELSE ready
  /\ UNCHANGED <<setting, pc, session, process, file, published, splash, admitted>>

\* refresh: a status of another launch is ignored.
Refresh(a) ==
  /\ splash[a] = "open" /\ record.attempt = a
  /\ shown' = [shown EXCEPT ![a] = record]
  /\ ready' = IF record.state = "protected" THEN ready \cup {a} ELSE ready
  /\ UNCHANGED <<setting, pc, session, process, file, published, splash, admitted>>

\* By itself 1.2 seconds after it became ready, or by the player.
CloseSplash(a) ==
  /\ splash[a] = "open"
  /\ splash' = [splash EXCEPT ![a] = "closed"]
  /\ shown' = [shown EXCEPT ![a] = Unread]
  /\ ready' = ready \ {a}
  /\ UNCHANGED <<setting, pc, session, process, file, published, admitted>>

-----------------------------------------------------------------------------
(* The specification. *)

Init ==
  /\ setting \in Settings
  /\ pc = [a \in Attempts |-> "idle"]
  /\ session = [a \in Attempts |-> Unserved]
  /\ game = [a \in Attempts |-> "none"] /\ contained = {}
  /\ record = NoRecord /\ unwritten = {}
  /\ published = [a \in Attempts |-> FALSE]
  /\ splash = [a \in Attempts |-> "none"]
  /\ shown = [a \in Attempts |-> Unread]
  /\ ready = {}
  /\ admitted = {}

LaunchStep(a) ==
  \/ VerifyAgent(a) \/ HashFiles(a) \/ Prepare(a)
  \/ Create(a) \/ CloneChannel(a) \/ Contain(a) \/ Resume(a)
  \/ ServeShows(a) \/ ServeFails(a) \/ ServeReturns(a) \/ WaitGame(a)
  \/ ReadStatus(a) \/ Report(a)

\* Every launch has ended, and its game and splash are gone.
Finished ==
  /\ \A a \in setting.started :
       pc[a] \in Ended /\ game[a] # "running" /\ splash[a] # "open"
  /\ UNCHANGED vars

Next ==
  \/ Finished
  \/ \E a \in Attempts :
    \/ Launch(a) \/ LaunchStep(a) \/ Crash(a) \/ GameExits(a)
    \/ Refresh(a) \/ CloseSplash(a)

Spec == Init /\ [][Next]_vars

\* A watched splash polls the status file ten times a second.
SplashFairness == \A a \in Watched : WF_vars(Refresh(a))

FairSpec == Spec /\ SplashFairness

-----------------------------------------------------------------------------
(* Properties. *)

TypeOK ==
  /\ setting \in Settings
  /\ pc \in [Attempts -> PCs]
  /\ session \in [Attempts -> States \cup {Unserved, Broken}]
  /\ game \in [Attempts -> {"none", "suspended", "running", "exited"}]
  /\ contained \subseteq Attempts
  /\ \A a \in contained : setting.platform = "windows" /\ game[a] # "none"
  /\ record \in Record /\ unwritten \subseteq Attempts
  /\ published \in [Attempts -> BOOLEAN]
  /\ \A a \in Attempts : published[a] => pc[a] = "report"
  /\ splash \in [Attempts -> {"none", "open", "closed"}]
  /\ shown \in [Attempts -> Record]
  /\ ready \subseteq Attempts /\ admitted \subseteq Attempts

\* LAUNCH-SPLASH.md: "A stale status file from another launch attempt cannot
\* advance the UI": whatever the launches write to the file they share, a
\* splash announces a protected session only for a session that was admitted.
SplashTruthful ==
  \A a \in Attempts :
    a \in ready \/ shown[a].state = "protected" => a \in admitted

\* README.md: "The game is not left running after a failed protected admission",
\* nor after any other failure of its session.  On Windows no game outlives its
\* launch, not even one that is killed, or runs outside its job; on Unix only the
\* game of a launch that was killed, that failed between spawn and serve(), or
\* that could not wait for it after a session that ended normally.
GameIsSupervised ==
  \A a \in Attempts :
    game[a] = "running" =>
      /\ setting.platform = "windows" =>
           a \in contained /\ pc[a] \notin Ended \cup {"failed", "report"}
      /\ pc[a] # "ok"
      /\ pc[a] \in {"failed", "report", "err"} => session[a] \in {Unserved, "stopped"}

Explained == {"launch_failed", "update_failed", "update_ready"}

\* A launch that ended in an error has left the reason of it in the status
\* file, unless another launch wrote the file since, its own last publication
\* failed, or the executable of a registration without files could not be
\* hashed: earlier publications that were lost are made up for.
FailurePublished ==
  \A a \in Attempts :
    pc[a] = "err" /\ record.attempt = a =>
      \/ record.state \in Explained
      \/ a \in unwritten
      \/ ~setting.listed /\ record.state = "hashing_registered_game_files"

\* LAUNCH-SPLASH.md: failures "show a bounded public reason": the splash of a
\* failed launch shows it, unless the player closed the splash or another
\* launch wrote the file first; whatever the splashes of other launches do.
FailureIsShown ==
  \A a \in Watched :
    (pc[a] = "err" /\ record.attempt = a /\ record.state \in Explained)
      ~> \/ shown[a].state \in Explained
         \/ splash[a] = "closed"
         \/ record.attempt # a

\* LAUNCH-SPLASH.md: "Failures retain the last trustworthy milestone": a splash
\* that learns of a failure stays where its last status had put it.
FailureKeepsMilestone ==
  [][\A a \in Attempts :
       ~failed(a) /\ failed(a)' => Phase(a)' = Phase(a)]_shown
=============================================================================

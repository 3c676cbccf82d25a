# Certael Agent: TLA+ specifications, model checking and proofs

This directory holds TLA+ modules that describe the parts of Certael Agent whose
correctness depends on order: threads, processes, messages, files, timeouts,
validity periods and crashes. TLC checks them on small instances; TLAPS proves
every property that a passing run checks, except three of liveness, for every value
of the constants (some of them, where stated, for operations that do not overlap). `PROJECT.json` ties
each definition to the source lines it models and lists the runs, findings,
hazards and theorems.

## 1. The system

Certael Agent starts a game, holds a private channel to it, and signs integrity
reports that the game relays to an authoritative server.

| Component | State | Operations | Interacts with |
|---|---|---|---|
| Protected session, `runtime.rs` `serve()` | sequence, last report digest, next heartbeat, report deadline; the queue to its reader thread | hello, admission, verification, heartbeats, challenge/report, revocation, shutdown, expiry | the game over the channel, status file, updater, platform inspection |
| IPC, `certael-agent-ipc` | none (bytes in flight belong to the OS) | `write_frame` (blocks, fails), `read_frame` (end of file, malformed) | both ends of the channel |
| Protocol, `certael-agent-protocol` | none | verify documents and bundles, resolve keys, decide compatibility, sign reports | every component that reads signed data |
| Updater, `certael-agent-updater` | staging directory, `versions/`, `activation.json` | stage, install, activate, roll back, recover, register, resolve the active target | launcher, command line, `serve()`, installer scripts |
| Stable launcher | none | recover, verify, start | updater |
| Game registry, `registry.rs` | one directory per registration, its backup, the update metadata inside | register, update, recover, load, list | command line, launch, update checks |
| Session library, `certael-agent-session` | sequence, digest, last challenge | activate, create report | embedding programs |
| Probe, `certael-agent-probe` | channel behind a mutex, one frame kept back | open, read, write, destroy | the game's threads, `serve()` |
| Command line and launch, `main.rs`, `windows_launch.rs` | child process, containment job, splash process | launch, repair, offline launch, update commands | all of the above |
| Status file, `status.rs` | last published state, shared by all launches of a game | publish, read | `serve()`, launch, splash |
| Splash, `ui.rs` | last status of its launch, since when it is ready | poll, show, close | status file |
| Trust store, branding, hardening, platform | none shared | read, validate, inspect, render | launch |

What is hard here, and what makes each part correct:

* **Session.** Two threads, a one-element queue, a channel that can fill up in
  one direction and end in the other, and a clock that decides three limits. The
  report chain must have no gap or fork; a report must answer a challenge that
  nothing overtook; limits must be enforced; the session must end; the player's
  status must agree with what the game was told.
* **Updater.** Launchers, updates and administrators read, decide and write the
  same record without a lock and may die at any point. No record may name an
  incomplete version; installed versions must not change; recovery must not
  undo what it does not repair; a rollback target must survive.
* **Registry.** A replacement is two renames and the removal of a backup. Cut
  short anywhere it must leave the old or the new registration, with the update
  metadata that protects it against rollback.
* **Launch.** Errors before, during and after the creation of the game, by a
  process that can be killed, with two platforms that contain the game
  differently. No game may be left alone after a failed session, failures must be
  explained although publications of the status can fail unnoticed, and a splash
  must not be misled by a file that other launches write.
* **Probe.** One mutex is held across blocking reads and writes, and a frame is
  kept back for a caller whose buffer was too small. Frames must cross whole and
  in order, and the mutex must be given back.
* **Documents.** Skew, order and longest validity of each kind are compared
  separately, as are the bounds of a compatibility rule; what counts is what they
  amount to together, as time passes and versions grow.

## 2. Modules

| Module | What it is |
|---|---|
| `SessionStatus` | abstract: the stages of a session, what its status file shows of them, and its result |
| `SessionOutcomes` | the order of those stages, used by `SessionStatus` and `LaunchFlow` |
| `IntegrityChain` | abstract: a chain of reports without gap or fork |
| `AgentServe` | `serve()`, its reader thread, the channel, the clock, the status file; implements both |
| `ActivationSelector` | abstract: what `activation.json` promises |
| `ActivationStore` | the updater and launcher, step by step, with any number of processes |
| `RegistrationSlot` | abstract: a registration that changes in one step |
| `GameRegistry` | register, update, recover, load and update check of one registration, file operation by file operation |
| `LaunchFlow` | overlapping launches of one game, their sessions (as `SessionStatus`), the status file and the splash windows |
| `FrameChannel` | abstract: a queue of frames that may be closed |
| `ProbeChannel` | the game's threads on one channel, the two pipes, and the session at the other end |
| `Protocol` | verification of documents, launch bundles, challenges and compatibility, as operators |
| `AgentSession` | the session library in a program for which time passes; implements `IntegrityChain` |
| `MC...` | values of constants for TLC |
| `...Proofs` | theorems about the module they are named after |
| `SequenceRecursion` | induction and recursion over sequences, for the proofs |

Three abstractions tie the modules together. `LaunchFlow` does not repeat
`serve()`: it lets a session publish any next state of `SessionOutcomes` and fail
or succeed accordingly, and `AgentServe` is shown to publish its states in that
order with that result, whether or not the file takes them (`StatusInOrder`). `AgentServe` and `AgentSession` are two
implementations of the report chain, and both are shown to implement
`IntegrityChain`. `ProbeChannel` reduces `serve()` to what it does with the
channel and shows that each pipe, seen from its receiver, is a `FrameChannel`.

Operators whose comment begins with "Mutant of" describe plausible mistakes in
the code. No specification uses them; each shows that some property can fail.

### AgentServe

`pc` is the position of the main thread in `serve()`. Each blocking point is a
step of its own: a write (`SendHello`, `WriteVerdict`, `WriteReady`,
`WriteHeartbeat`, `WriteReport`, `WriteFinal`), a wait (`RecvAdmission`,
`AdmissionExpired`, `WaitTimeout`, `RecvStop`, `RecvChallenge`,
`RecvRevocation`, `RecvFatal`), and the code between two of them (`VerifyBundle`,
`InstallUpdate`, `CheckFiles`, `LoopTop`, `InspectAndSign`). Time may pass
between any two steps. Frames the game sent are positions in `wire`; the reader
thread (`ReaderRead`, `ReaderSend`) and the main thread each advance a counter
over it, so "lost", "repeated" and "reordered" can be stated. `unread` counts
frames written to the game and not read; a write waits while it is at
`PipeCapacity` and fails once the game has closed the channel.

The local variables keep their names: `sequence`, `previous` (digest),
`nextHeartbeat`, `deadline`, `now`. `sent` is the last health state on the wire,
`stage` the state that was published last, and `status` the one in the status file.
They differ because `publish_binding` discards the error of `status::publish`
(runtime.rs:491): `Publish` lets every publication fail, and the file then keeps
what it had while the session goes on. Signature checks, file hashing and process
inspection are outcomes: a frame carries the `claim` its verification yields,
and `CheckFiles` and `InspectAndSign` may fail. The observations in a report are
left out, because nothing in the session depends on them.

### ActivationStore

A process is at a `pc` between two accesses to the file system. An update goes
through `LoadRelease`, `SaveTarget`, `HashStaged`, `PlaceVersion`,
`RenameVersion`, `RecordPending` and `write_activation_state`; `activate_pending`,
`rollback`, `register_existing_version` and `recover` read and decide in one step
and write in another; a launcher continues with `active_target` and `Exec`.
Reading the record and verifying files is one step: an access by somebody else
in between has the same effect before or after it. The one exception, a file
that is damaged between two verifications of a slot that is recorded twice, is
left out. `Fail` ends a process anywhere: a crash, or any error of a file
operation. `Harm` alters or removes an installed file. `Concurrent = FALSE`
restricts behaviours to operations that do not overlap.

Bytes are identified by the version whose release they are; a digest is the
bytes themselves (SHA-256 does not collide). TUF verification is external: it
yields the release the repository offers, whose number only grows; that
`update --version` names the version of the target it is given is assumed. Paths,
canonicalisation, symbolic links and permissions are not modelled.

### GameRegistry

`destination` and `backup` are the two names a registration can have on disk,
each absent, torn (files removed but not the directory, or created by an update
check without a registration) or holding one release. `install_registration` is
`Begin`, `recover_registration`, `Restore` or `RemoveFiles` and
`RemoveDirectory`, `Check`, `RenameAway`, `Activate` and `GiveBack`; `Crash` ends
a process between any two of them and stands for every error of a file operation
that is not modelled on its own. A load is four reads (`LoadRecord`, `LoadBytes`,
`LoadKeys`, `LoadSessionTrust`), because a replacement may exchange the directory
between them: the second compares what it reads with the first, the others do not.
An update check goes on with `CreateDatastore`, which recreates a
missing directory, and `LoadMetadata`, which refuses older metadata.
`Concurrent = FALSE` keeps installations and update checks apart; loads and
launches overlap with everything in any case. `InForce` is the refinement
mapping: the destination, or the backup while there is no destination, and
`MetadataInForce` is the update metadata in the same place.

### LaunchFlow

`pc[a]` is where launch `a` is, from the splash to its result. The status file
`record` holds the attempt that wrote it, a state and the reason; `Publish`
replaces it at once (a temporary file and a rename in the code), or fails, for the
launches that a setting calls `lossy`, and leaves the file as it was; `unwritten`
remembers whose last publication failed. A failed launch
reads the file (`ReadStatus`) and writes it (`Report`) in two steps. On Unix the
game runs from `Create` on; on Windows it is created suspended, contained and
resumed, and closing the job (when `launch` returns with an error, or the process
dies) ends it. `WaitGame` may fail without the game having exited. A splash accepts only records of its own launch (`Refresh`), and
`ready` is its `ready_since`. The milestone `loading_signed_registration` is
published and replaced without any work in between and is merged with the next.

### ProbeChannel

A call is `CallRead` or `CallWrite`, `Lock`, and then the steps of `read_frame`
or `write_frame` with the mutex held: one per piece, because a frame is a header
and a payload that are written and read separately. `pending` is the frame kept
back; `BufferTooSmall` leaves it, `Copy` takes it. The session reads, answers,
sends heartbeats, gives up on a missing bundle and leaves; it can be killed at
any moment. Each pipe stands for everything between the two ends: the one to the
Agent includes the reader thread of `serve()` and its queue of one frame. The two
timeouts of `serve()` are seconds long, and what is in a pipe is handed over in
less: `Heartbeat` is therefore enabled only when nothing is on its way to the Agent,
and `GiveUp` (15 seconds) only when, besides, no thread can take a step inside a call.

### Protocol and AgentSession

`Protocol` has one operator per function, with the same order of decisions where
the order matters. A document is its kind, its times, the key it names, and
whether it is `formed` and `sound`. `Skew` and `Span` are the constants the
validators compare with. Times are signed integers between `-Half` and `Half - 1`,
and `Minus` wraps around, as the `i64` subtraction of a release build does. `AgentSession` lets time pass (`Tick`), activates a
session and lets it answer challenges; the properties about documents are
quantified over whatever documents there are, at every moment.

## 3. Runs

| Run | Expect | What it shows |
|---|---|---|
| `session` | pass | a session with two challenges and a revocation: answers, limits, sleep, verdict, and a status file that may miss any state; it implements `IntegrityChain` and `SessionStatus` |
| `admission` | pass | every kind of first and second frame, plain, registered and updatable launches; `serve()` returns |
| `stalled_game` | violation | without the assumption that the game reads, a full channel blocks expiry for ever |
| `store_concurrent` | pass | two unlocked processes, a crash anywhere, one damaged file: recorded slots are complete, versions immutable |
| `store_serial` | pass | operations that do not overlap implement `ActivationSelector`, with any damage |
| `store_rollback` | violation | re-activating the active version forgets the rollback target |
| `registry_replace` | pass | installations that do not overlap implement `RegistrationSlot`, wherever they stop, and keep the update metadata |
| `launch` | pass | two overlapping launches, and on each platform a launch whose publications may fail: the splash is truthful, games are supervised, failures are published, and shown by a splash that keeps polling |
| `launch_milestone` | violation | a failure moves the splash's rail away from the milestone it had reached |
| `probe` | pass | frames cross whole and in order in both directions between several threads and the session, and the holder of the mutex gives it back, unless both ends wait for each other for ever |
| `probe_blocked` | violation | a thread waiting in a read keeps another from writing the bundle until the Agent gives up |
| `library` | pass | validity bounds, update and compatibility decisions as time passes, repeated challenges, and the library's report chain |

The findings behind the violation runs, with the lines of code and the sentences
they contradict, are in `PROJECT.json`.

**Bounds.** In `session` a second has two ticks, so that truncation
to seconds matters; the policy lasts three seconds, heartbeats come every second,
and a report is due every two: expiry, loss, heartbeat and challenge all
compete. Three frames allow a bundle and two challenges, or a challenge and a
revocation or shutdown in either order; the queue holds one frame, as in the code;
the channel holds two, so it can fill. `admission` is about which frame comes when,
not about truncation: one tick per second, and a policy of two seconds.
`MaxSequence` stands for the end of a 64-bit number that starts at 1, which no
session reaches; it is 3, one more than the challenges of `session`, and 2 in
`admission`. `Horizon` is the last tick,
at least one second after the expiry, as `ServeAssumption` requires. The store
and registry instances have two versions (releases) and two processes, which is
what every race in the code needs: two writers, or a reader and a writer of
different releases. `MaxHarms` is 1 with two processes; with one process it is 6,
the number of slots, and bounds nothing. `launch` has two attempts, enough for one
to overwrite the other's record, on Unix with registered files; and a single
attempt whose publications may fail, on both platforms, with registered files and
without. The splash of one of the two is `Watched`, that is, known to keep polling:
launches are interchangeable, and the other splash may stop. The theorems cover
every combination. In `probe` two threads both read and write, a report is larger than the
smaller buffer, and a pipe holds three pieces, so that a frame can be cut by a
full pipe. `library` has a document on each side of every bound, also at
the far end of the integers' range, a bundle for
each binding that can be wrong, and challenges that share a nonce. `Half` is 2^29
there, the largest whose differences TLC's own integers hold.

**Deadlock** is checked everywhere but in `library`, where time ends at the last
of `Times`. `Returned` (a session) and `Finished` (all launches) let what has ended
stutter; elsewhere an operation can always start.

**Fairness.** `ThreadFairness` of `AgentServe` is weak fairness of the two threads
and of the clock: the operating system runs runnable threads and time passes.
`FairSpec` adds that a game holding the channel keeps reading; the code does not
guarantee it, and `stalled_game` shows what happens without. `SplashFairness` is
weak fairness of the poll of each `Watched` splash, which its event loop repeats
ten times a second. In `ProbeChannel` the steps of the thread that holds the mutex and
those of the Agent are weakly fair. Nothing is assumed of the mutex itself:
`std::sync::Mutex` is not fair, a thread that asks for it may be passed over for
ever, and `HolderReturns` therefore speaks of the thread that holds it. Sending a
frame, starting a call, taking the mutex, closing the channel, crashing and exiting
are never fair.

## 4. Proofs

All theorems hold for every value of the constants that satisfies the assumption
named in each module: any policy, clock resolution, capacity, number of frames,
processes, versions, releases and launches, any documents and times. `Digest` may
be any function into `Digests`: no proof uses that digests differ.

**AgentServe.** `TypeCorrect` first. The other invariants rest on one inductive
invariant, `IInv`, proved in `SessionInvariant` and made of:

* `ChainInv`: `sequence` and `previous` are one ahead of `reports` exactly while
  a report is pending. The chain alone is not inductive because its state
  advances before the write.
* `FrameInv`: before the first challenge exactly the bundle has been taken, and
  afterwards one frame per report, plus the one being answered. It links the
  counters over `wire` to the number of reports.
* `TimeInv`: a report observed at or after the expiry leads to `LoopTop`, which
  can only end the session.
* `StatusInv`: what `sent` and `status` can be at each `pc`.
* `SleepBounded`, with three arithmetic lemmas about truncation
  (`SecondBounds`, `SecondMonotone`, `WaitEnds`).

`AnswersHold`, `LateReportHolds`, `SleepHolds`, `StatusHolds` and `ConnectedHolds`
follow; `VerdictHolds` is an action property from the same invariant. Two
refinements use it: `ReportsFormChainHolds`, and `StatusInOrderHolds`, for which
`StageInv` says which state was published last at every `pc`.

That a session ends (`Returns`) is liveness and only model-checked; its safety part
is proved. `Work` is a natural number made of the sequence numbers that are left,
the ticks that are left after the wait in progress, and the steps that are left of
the current round, in this order. `WorkDecreasesHolds`: every step of `serve()`
lowers it and no step of the game, the reader or the clock raises it. So `serve()`
cannot run for ever, whatever the game sends; only an answered challenge returns to
the top of the loop without a wait, and it costs a sequence number. `Horizon`, the
last tick of the model, is any number beyond the expiry. What the theorem leaves to
fairness is that a step that can be taken is taken.

`LastReportCommitsHolds` says what the chain is worth to its receiver: any list of
reports that is numbered from 1, chained by digests and ends in the session's last
report is the list the session sent, or contains a report that differs from one of
the session's and has the same digest. It is proved by induction from the end.

**ProbeChannel.** `ProbeInvariant` proves one inductive invariant, `ProbeInv`:

* `TypeOK` and `PieceTypes`: who holds the mutex is the thread whose `pc` says so,
  and what is in flight are pieces of frames.
* `ToGameInv` and `ToAgentInv`: the pieces that the receiver has read, those in the
  pipe and those still to be written, put together, are a sequence of frames
  (`Framed`), the last of them whole as long as the Agent is there. A statement
  about the pipe alone is not inductive: a pipe may begin and end inside a frame,
  and that its first piece continues what was read depends on the reader's local
  state, and that nobody writes between two pieces on the holder of the mutex.
* `HintIsPending`.

`ReadsInOrderHolds` and `WritesWholeHolds` are the refinements of `FrameChannel`.
Their mapping `Whole`, the frames whose last piece is in a pipe, is a recursive
function; its equation (`WholeDef`) and what it makes of a piece that enters or
leaves (`WholeWrite`, `WholeRead`) are proved by induction on sequences.
The library states induction for an operator, which the provers cannot instantiate;
`SequenceRecursion` proves it for sets (a set of sequences that holds the empty one
and any whose tail it holds is all of them), and from that the existence of
recursively defined functions.

`NobodyStuckHolds` is the safety part of `HolderReturns`: whenever a thread is inside
a call, some thread or the Agent can move, unless both pipes are full; a state in
which they are full and somebody can move is not excused. `ENABLED`
being out of the prover's reach, `ThreadMoves` and `AgentMoves` are the guards of the
actions, written out. The theorem assumes that the game has some buffer size
(`Capacities # {}`): without one it could never read.

**ActivationStore.** `StoreTypes`; then `SlotsCompleteHolds`: `SlotsComplete` is
inductive with the types, because a version directory is filled only when it was
empty, and a slot whose file is absent and that is still complete was harmed.
`VersionsImmutableHolds` is an action property. `SelectsAtomicallyHolds` is the
refinement: if operations do not overlap, every step of the store is a step of
`ActivationSelector` or leaves the record and `harmed` alone. It needs that at
most one process is busy (`AloneInv`) and that the record it is about to write is
still one the selector may choose (`SelectInv`); that recovery drops only harmed
slots comes from `SlotsComplete`.

**GameRegistry.** `RegistryTypes` needs no assumption on
overlap. `ReplacesAtomicallyHolds`, `RegistrationSurvivesHolds` and
`MetadataKeptHolds` assume `~Concurrent` and rest on `SerialInv`: at most one operation changes the directory
(`AloneInv`), and `HeldInv` says what that operation relies on where it is: while
a backup is being removed the destination is in place, and what is acknowledged is
what was asked for. Survival follows because the registration in force is the
destination or, without one, the backup, and no step of a lone operation empties
the one it relies on.

**LaunchFlow.** `LaunchTypes` needs `PlaceInv` (only Windows contains games).
`SplashTruthfulHolds` rests on `RecordInv`: the file says "protected" only of a
launch that has been admitted; what a splash accepted stays true because
admissions are never taken back. `GameIsSupervisedHolds` rests on `GameInv`, which
says at each `pc` whether the game can be running and what has become of its
session. `FailurePublishedHolds` rests on `ShownInv`, which says what the file shows
of the launch that wrote it last, unless that launch's last publication failed.

**AgentSession.** `ShortLivedHolds`, `UpdateHelpsHolds`, `NewerIsNoWorseHolds` and
`RevokedStaysRevokedHolds` follow from lemmas about the operators (`EndsSoon`,
`OutcomeMatters`, `RuleMonotone`, `DecisionMonotone`) for every document, bundle
and manifest; `MinusExact` says that the wrapping subtraction is exact between
two times from 1970 on. `RepeatIsBriefHolds` and
`ReportsFormChainHolds` rest on `SessionInv`, which ties sequence, digest and last
challenge to the reports that were signed, and says that each of them answered a
challenge that was live at the time (`AnswersLive`).

Only model-checked: `Returns`, `FailureIsShown` and `HolderReturns`, since liveness
under fairness and `ENABLED` are outside what the prover handles. The properties of
the violation runs are false and have no proof.

## 5. Observed divergences

The four violation runs concern sentences of the documentation. The models contain
the following behaviours of the code as well; no run states them as properties,
because nothing in the repository promises the contrary precisely enough, or
because they restate a behaviour a run already shows.

* A challenge that arrives in the last second of a wait is answered although the
  policy has expired or the deadline has passed since: at most one report, and
  the last (`LateReportIsLast`).
* `serve()` keeps no record of nonces: a challenge sent twice within its lifetime
  is answered twice. The library compares with the last challenge only: after
  another one, an earlier challenge is answered again, for as long as it lives
  (`RepeatIsBrief`), and the same nonce with another expiry counts as another
  challenge. PROTOCOL.md:37 speaks of fresh challenges.
* The error of a publication is discarded: the status file, and with it the splash,
  can go on showing an earlier state, "protected" included, after the game was told
  of expiry or revocation, and after an error that nothing else reports.
* The longest validity of a grant, a revocation or a manifest is a difference of two
  `i64`, and no release profile turns on overflow checks: a document that claims an
  issue time so far before 1970 that the difference wraps around passes for
  short-lived, whatever its expiry. `ShortLived` is stated for issue times from 1970 on.
* `active_target` never activates a pending version: a relaunch after
  `update_ready` starts the old version until the update is activated.
* `recover` writes the record it read even if it changed nothing, so a launcher
  can undo a concurrent activation. `SelectsAtomically` is stated without overlap.
* Two updates of a registration share the staging directory, and the expected
  digest is computed from the staged file: one release's bytes can be installed
  under the other's version. The slot is complete all the same.
* Overlapping replacements of one registration, or a replacement that overlaps an
  update check, can lose the registration: nothing locks its directory. With
  `Concurrent = TRUE` TLC refutes `RegistrationSurvives` and `ReplacesAtomically`.
* Replacing a registration removes the update metadata kept inside its directory,
  and with it the memory that refuses older metadata.
* `load` compares the digests of the trust store and update root with the claims it
  read, but reads the keys a second time, and the session reads the trust store a
  third time by its path, both without comparing: a replacement in between combines
  the claims of one release with the keys of another.
* `activate` of the library compares the game and the environment of the grant
  with those of the policy but not the tenant, and `create_report` does not look
  at the expiry of either.
* A compatibility manifest is accepted up to 300 seconds before it is issued and
  decides nothing until then.
* On Unix a killed launcher leaves its game running, and so do a failure to
  duplicate the channel before the session and a failure to wait for the game after
  it; on Windows a game that cannot be contained is left suspended.
  `GameIsSupervised` excepts exactly these.
* The final status of a session is overwritten by `launch_failed` when the launch
  reports its failure. A registration without files reports nothing when its
  executable cannot be hashed (main.rs:799), and the file keeps its milestone,
  where LAUNCH-SPLASH.md:58 has failures show a bounded public reason;
  `FailurePublished` excepts it.

## 6. Not modelled

* The byte layout of frames, cryptography, TUF, JSON, URLs, identifiers and paths:
  their verification is an outcome. The sums of a signed time and a small constant
  that overflow at the very end of the range are not modelled; differences of two
  times from a document are (`Minus`).
* Platform inspection, process hardening, branding, drawing, the manager window
  and the recovery buttons: sequential code without shared state, or code that only
  starts a subcommand.
* Opening and destroying the probe's channel, `bind_nonce`, and `SIGPIPE`, which
  belongs to the host process.
* Uninstalling and replacing the launcher binary, which only the scripts do.
* `verify_report`, which belongs to the server.

**Simplifications.** Wall clocks only move forward, at their own pace. A clock
that is set back postpones the limits of a session, which use the wall clock,
while its waits use the monotonic one.

## 7. Plan

1. A composition of `ProbeChannel` and `AgentServe` at the level of frames, to ask
   whether a game that keeps a reading thread satisfies the reading assumption of
   `FairSpec` in every session.
2. A clock that is set back in `AgentServe`, with the limits restated in the time
   that passes.
3. The registry and the updater together: an update check that goes on with the
   trust root of a registration that is being replaced.

-------------------------- MODULE ActivationStore ---------------------------
(***************************************************************************)
(* The installed versions of the Agent and the record that selects one:    *)
(* crates/certael-agent-updater/src/lib.rs, as the CLI, the automatic      *)
(* update of a protected launch, the offline installer and the stable      *)
(* launcher use it.                                                        *)
(*                                                                         *)
(* Every operation reads the file system, decides and writes in separate   *)
(* steps, holds no lock, and may be cut short between two of them.  A      *)
(* release is named by its version, and its bytes by the same number.      *)
(***************************************************************************)
EXTENDS Integers, FiniteSets

CONSTANTS
  MaxVersion,   \* bound: versions are 1..MaxVersion, in order of publication
  Procs,        \* processes working on one install root
  Concurrent,   \* FALSE: an operation starts only when no other is under way
  MaxHarms,     \* bound: slots whose installed file is altered or removed
  None          \* no slot

Versions == 1..MaxVersion
Absent == 0                        \* no executable in the version directory
Damaged == MaxVersion + 1          \* bytes that are no release
Bytes == Versions \cup {Damaged}

\* ActivationSlot and ActivationState.
Slots == [version : Versions, sha256 : Bytes]
SlotOption == Slots \cup {None}
Activations == [active : SlotOption, previous : SlotOption, pending : SlotOption]
Empty == [active |-> None, previous |-> None, pending |-> None]

ASSUME StoreAssumption ==
  /\ MaxVersion \in Nat \ {0}
  /\ Concurrent \in BOOLEAN
  /\ MaxHarms \in Nat
  /\ None \notin Slots

VARIABLES
  published,    \* the release the update repository offers
  staged,       \* bytes of the target in the staging directory
  files,        \* bytes of the executable in each version directory
  activation,   \* activation.json
  harmed,       \* history: slots whose executable was altered or removed
  pc,           \* where each process is
  launching,    \* the process recovers on behalf of a launcher
  slot,         \* the slot each process installs
  state         \* each process's copy of the activation record

disk == <<published, staged, files, activation, harmed>>
job == <<launching, slot, state>>
vars == <<disk, pc, job>>

PCs == {"idle", "save", "hash", "place", "rename", "record", "write",
        "verify", "exec"}

NoSlot == [version |-> 1, sha256 |-> Damaged]

-----------------------------------------------------------------------------
(* Helpers. *)

\* Mutant of verify_slot: the digest is not compared.
SlotExists(s) == files[s.version] # Absent

\* verify_slot: the executable exists and has the recorded digest.
verify_slot(s) == files[s.version] = s.sha256

\* copy_and_verify: what was copied has the digest that was expected.
copy_and_verify(p) == staged = slot[p].sha256

\* An optional slot that is present and fails verification.
Invalid(s) == s # None /\ ~verify_slot(s)

MayStart(p) ==
  /\ pc[p] = "idle"
  /\ Concurrent \/ \A q \in Procs : pc[q] = "idle"

Goto(p, l) == pc' = [pc EXCEPT ![p] = l]

\* Leaves with an outcome; the locals of the call are gone.
Return(p) ==
  /\ Goto(p, "idle")
  /\ launching' = [launching EXCEPT ![p] = FALSE]
  /\ slot' = [slot EXCEPT ![p] = NoSlot]
  /\ state' = [state EXCEPT ![p] = Empty]

\* Carries the new record to write_activation_state.
Prepare(p, new) ==
  /\ Goto(p, "write")
  /\ state' = [state EXCEPT ![p] = new]

-----------------------------------------------------------------------------
(* The environment. *)

\* The update repository offers a newer release.
PublishRelease ==
  /\ published < MaxVersion
  /\ published' = published + 1
  /\ UNCHANGED <<staged, files, activation, harmed, pc, job>>

\* The offline installer moves a complete version directory into place, or
\* finds the version already installed and gives up; it then registers it.
InstallOffline(v) ==
  /\ files[v] = Absent
  /\ files' = [files EXCEPT ![v] = v]
  /\ UNCHANGED <<published, staged, activation, harmed, pc, job>>

\* A file is altered or removed behind the updater's back.
Harm(v) ==
  /\ files[v] # Absent /\ Cardinality(harmed) < MaxHarms
  /\ \E b \in {Absent, Damaged} \ {files[v]} : files' = [files EXCEPT ![v] = b]
  /\ harmed' = harmed \cup {[version |-> v, sha256 |-> files[v]]}
  /\ UNCHANGED <<published, staged, activation, pc, job>>

\* A process dies, or one of its file operations fails: what it had already
\* renamed into place stays, its temporary files are never looked at.
Fail(p) ==
  /\ pc[p] # "idle"
  /\ Return(p)
  /\ UNCHANGED disk

-----------------------------------------------------------------------------
(* verify_stage_and_install(_automatic). *)

\* The signed metadata names the release the staged target will be.
LoadRelease(p) ==
  /\ MayStart(p)
  /\ slot' = [slot EXCEPT ![p] = [version |-> published, sha256 |-> Damaged]]
  /\ Goto(p, "save")
  /\ UNCHANGED <<disk, launching, state>>

\* save_target replaces the staged file, the same one for every release.
SaveTarget(p) ==
  /\ pc[p] = "save"
  /\ staged' = slot[p].version
  /\ Goto(p, "hash")
  /\ UNCHANGED <<published, files, activation, harmed, job>>

\* The expected digest is taken from the staged file.
HashStaged(p) ==
  /\ pc[p] = "hash"
  /\ slot' = [slot EXCEPT ![p].sha256 = staged]
  /\ Goto(p, "place")
  /\ UNCHANGED <<disk, launching, state>>

\* An executable that is already there must be the expected one; otherwise the
\* staged file is copied into a temporary directory and hashed on the way.
PlaceVersion(p) ==
  /\ pc[p] = "place"
  /\ \/ verify_slot(slot[p]) /\ Goto(p, "record") /\ UNCHANGED job
     \/ /\ files[slot[p].version] = Absent /\ copy_and_verify(p)
        /\ Goto(p, "rename") /\ UNCHANGED job
     \/ /\ ~verify_slot(slot[p])
        /\ files[slot[p].version] # Absent \/ ~copy_and_verify(p)
        /\ Return(p)
  /\ UNCHANGED disk

\* Mutant of RenameVersion: the version directory is replaced.
RenameReplaces(p) ==
  /\ pc[p] = "rename"
  /\ files' = [files EXCEPT ![slot[p].version] = slot[p].sha256]
  /\ Goto(p, "record")
  /\ UNCHANGED <<published, staged, activation, harmed, job>>

\* The rename of the temporary directory fails if the version exists by now.
RenameVersion(p) ==
  /\ pc[p] = "rename"
  /\ \/ /\ files[slot[p].version] = Absent
        /\ files' = [files EXCEPT ![slot[p].version] = slot[p].sha256]
        /\ Goto(p, "record") /\ UNCHANGED job
     \/ /\ files[slot[p].version] # Absent
        /\ Return(p) /\ UNCHANGED files
  /\ UNCHANGED <<published, staged, activation, harmed>>

RecordPending(p) ==
  /\ pc[p] = "record"
  /\ \/ /\ verify_slot(slot[p])
        /\ Prepare(p, [activation EXCEPT !.pending = slot[p]])
        /\ UNCHANGED <<launching, slot>>
     \/ ~verify_slot(slot[p]) /\ Return(p)
  /\ UNCHANGED disk

-----------------------------------------------------------------------------
(* The operations on the record: each reads and decides, then writes. *)

activate_pending(p) ==
  /\ MayStart(p)
  /\ activation.pending # None /\ verify_slot(activation.pending)
  /\ Prepare(p, [active |-> activation.pending,
                 previous |-> activation.active, pending |-> None])
  /\ UNCHANGED <<disk, launching, slot>>

rollback(p) ==
  /\ MayStart(p)
  /\ activation.previous # None /\ verify_slot(activation.previous)
  /\ Prepare(p, [active |-> activation.previous,
                 previous |-> activation.active, pending |-> None])
  /\ UNCHANGED <<disk, launching, slot>>

\* What register_existing_version makes of the record.
Registered(s, activate) ==
  IF activation.active = None THEN [activation EXCEPT !.active = s]
  ELSE IF activation.active = s THEN activation
  ELSE IF activate THEN [active |-> s, previous |-> activation.active,
                         pending |-> None]
  ELSE [activation EXCEPT !.pending = s]

\* Mutant of register_existing_version: the executable need not exist.
RegisterUnchecked(p, v, activate) ==
  /\ MayStart(p)
  /\ Prepare(p, Registered([version |-> v, sha256 |-> files[v]], activate))
  /\ UNCHANGED <<disk, launching, slot>>

\* The digest of an offline installation is the one its file has now.
register_existing_version(p, v, activate) ==
  /\ MayStart(p) /\ files[v] # Absent
  /\ Prepare(p, Registered([version |-> v, sha256 |-> files[v]], activate))
  /\ UNCHANGED <<disk, launching, slot>>

\* Mutant of Recovered: recovery tidies the pending slot away.
RecoveredTidy ==
  IF Invalid(activation.active)
  THEN [active |-> activation.previous, previous |-> None, pending |-> None]
  ELSE [activation EXCEPT !.pending = None]

\* What recover makes of the record.
Recovered ==
  LET pending == IF Invalid(activation.pending) THEN None ELSE activation.pending
  IN  IF Invalid(activation.active)
      THEN [active |-> activation.previous, previous |-> None, pending |-> pending]
      ELSE [active |-> activation.active,
            previous |-> IF Invalid(activation.previous) THEN None
                         ELSE activation.previous,
            pending |-> pending]

\* recover, called by itself or by active_target on behalf of a launcher.  It
\* gives up when the active slot is invalid and there is no valid previous one.
recover(p, launch) ==
  /\ MayStart(p)
  /\ Invalid(activation.active) =>
       activation.previous # None /\ ~Invalid(activation.previous)
  /\ Prepare(p, Recovered)
  /\ launching' = [launching EXCEPT ![p] = launch]
  /\ UNCHANGED <<disk, slot>>

\* write_activation_state: one atomic rename over activation.json.
write_activation_state(p) ==
  /\ pc[p] = "write"
  /\ activation' = state[p]
  /\ \/ launching[p] /\ Goto(p, "verify") /\ UNCHANGED job
     \/ ~launching[p] /\ Return(p)
  /\ UNCHANGED <<published, staged, files, harmed>>

\* active_target verifies the slot that recover returned once more.
active_target(p) ==
  /\ pc[p] = "verify"
  /\ LET active == state[p].active
     IN  \/ /\ active # None /\ ~Invalid(active)
            /\ Goto(p, "exec") /\ UNCHANGED job
         \/ /\ active = None \/ Invalid(active)
            /\ Return(p)
  /\ UNCHANGED disk

\* The launcher replaces itself with the selected executable.
Exec(p) ==
  /\ pc[p] = "exec"
  /\ Return(p)
  /\ UNCHANGED disk

-----------------------------------------------------------------------------
(* The specification. *)

Init ==
  /\ published = 1 /\ staged = Absent
  /\ files = [v \in Versions |-> Absent]
  /\ activation = Empty
  /\ harmed = {}
  /\ pc = [p \in Procs |-> "idle"]
  /\ launching = [p \in Procs |-> FALSE]
  /\ slot = [p \in Procs |-> NoSlot]
  /\ state = [p \in Procs |-> Empty]

Step(p) ==
  \/ LoadRelease(p) \/ SaveTarget(p) \/ HashStaged(p) \/ PlaceVersion(p)
  \/ RenameVersion(p) \/ RecordPending(p)
  \/ activate_pending(p) \/ rollback(p)
  \/ \E v \in Versions, activate \in BOOLEAN :
       register_existing_version(p, v, activate)
  \/ \E launch \in BOOLEAN : recover(p, launch)
  \/ write_activation_state(p) \/ active_target(p) \/ Exec(p)
  \/ Fail(p)

Environment ==
  PublishRelease \/ \E v \in Versions : InstallOffline(v) \/ Harm(v)

Next == (\E p \in Procs : Step(p)) \/ Environment

Spec == Init /\ [][Next]_vars

-----------------------------------------------------------------------------
(* Properties. *)

TypeOK ==
  /\ published \in Versions
  /\ staged \in Versions \cup {Absent}
  /\ files \in [Versions -> Bytes \cup {Absent}]
  /\ activation \in Activations
  /\ harmed \subseteq Slots
  /\ pc \in [Procs -> PCs]
  /\ launching \in [Procs -> BOOLEAN]
  /\ slot \in [Procs -> Slots]
  /\ state \in [Procs -> Activations]

Recorded(a) == {a.active, a.previous, a.pending} \ {None}

\* The executable of a slot was installed completely, with the slot's digest.
Complete(s) == files[s.version] = s.sha256 \/ s \in harmed

\* UPDATES.md: "Incomplete temporary directories are not eligible slots": a
\* version is in place, with the recorded digest, before any record names it,
\* whatever the other processes do and wherever a process dies; so every slot
\* of activation.json, and of a record about to replace it, is complete.
SlotsComplete ==
  /\ \A s \in Recorded(activation) : Complete(s)
  /\ \A p \in Procs : \A s \in Recorded(state[p]) : Complete(s)

\* UPDATES.md: "copies the target into an immutable version directory": two
\* installations of one version that race between the existence check and the
\* rename never replace an executable, whatever they staged.
VersionsImmutable ==
  [][\A v \in Versions :
       files[v] \notin {Absent, files'[v]} =>
         [version |-> v, sha256 |-> files[v]] \in harmed']_vars

Selector == INSTANCE ActivationSelector
              WITH activation <- activation, harmed <- harmed

\* As long as operations do not overlap, every change of activation.json is one
\* step of the selector, computed from the record it replaces, although the
\* code reads, verifies and writes in separate steps and may die in between;
\* recovery only ever gives up harmed slots.
SelectsAtomically == Selector!Spec

\* The updater's comment on rollback, "Atomically selects the previously active
\* immutable version": the previous slot is another one than the active slot.
PreviousIsOther ==
  activation.previous # None => activation.previous # activation.active
=============================================================================

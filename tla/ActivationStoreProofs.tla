----------------------- MODULE ActivationStoreProofs ------------------------
(***************************************************************************)
(* Proofs about ActivationStore, for any number of processes and versions. *)
(*                                                                         *)
(* SlotsComplete is inductive together with the types.  The refinement of  *)
(* ActivationSelector needs two more facts about operations that do not    *)
(* overlap: at most one is under way, and the record it is about to write  *)
(* is still one the selector may choose from the record on disk.           *)
(***************************************************************************)
EXTENDS ActivationStore, TLAPS

\* A target has been saved before it is hashed.
StagedInv == \A p \in Procs : pc[p] = "hash" => staged # Absent

TypeInv == TypeOK /\ StagedInv

USE StoreAssumption

\* Facts about the constants of the model.
LEMMA ByteFacts ==
  /\ Absent \notin Bytes
  /\ Damaged \in Bytes
  /\ Versions \subseteq Bytes
  /\ 1 \in Versions
  /\ NoSlot \in Slots
  /\ Empty \in Activations
  BY DEF Absent, Bytes, Damaged, Versions, NoSlot, Slots, Empty, Activations,
         SlotOption

\* A call that returns leaves its locals well typed.
LEMMA ReturnType ==
  ASSUME TypeOK, NEW p \in Procs, Return(p)
  PROVE  /\ pc' \in [Procs -> PCs] /\ launching' \in [Procs -> BOOLEAN]
         /\ slot' \in [Procs -> Slots] /\ state' \in [Procs -> Activations]
         /\ \A q \in Procs : pc'[q] = "hash" => pc[q] = "hash"
  BY ByteFacts DEF TypeOK, Return, Goto, PCs

\* The two records that operations compute are well typed.
LEMMA RecordTypes ==
  ASSUME TypeOK
  PROVE  /\ Recovered \in Activations
         /\ \A s \in Slots, b \in BOOLEAN : Registered(s, b) \in Activations
         /\ \A s \in Slots : [activation EXCEPT !.pending = s] \in Activations
  <1>0. activation \in Activations
    BY DEF TypeOK
  <1>1. Recovered \in Activations
    BY <1>0 DEF Recovered, Activations, SlotOption
  <1>2. \A s \in Slots, b \in BOOLEAN : Registered(s, b) \in Activations
    BY <1>0 DEF Registered, Activations, SlotOption
  <1>3. \A s \in Slots : [activation EXCEPT !.pending = s] \in Activations
    BY <1>0 DEF Activations, SlotOption
  <1> QED BY <1>1, <1>2, <1>3

\* The types are preserved by every step.
LEMMA TypeStep ==
  ASSUME TypeInv, [Next]_vars
  PROVE  TypeInv'
  <1> USE DEF TypeInv
  <1>1. ASSUME NEW p \in Procs, LoadRelease(p) PROVE TypeInv'
    BY <1>1, ByteFacts
       DEF LoadRelease, Goto, TypeOK, StagedInv, PCs, disk, Slots
  <1>2. ASSUME NEW p \in Procs, SaveTarget(p) PROVE TypeInv'
    <2>1. slot[p].version \in Versions
      BY DEF TypeOK, Slots
    <2>2. slot[p].version # Absent
      BY <2>1 DEF Versions, Absent
    <2> QED BY <1>2, <2>1, <2>2
            DEF SaveTarget, Goto, TypeOK, StagedInv, PCs, job
  <1>3. ASSUME NEW p \in Procs, HashStaged(p) PROVE TypeInv'
    <2>1. staged \in Bytes
      BY <1>3, ByteFacts DEF HashStaged, TypeOK, StagedInv
    <2>2. slot' \in [Procs -> Slots]
      BY <1>3, <2>1 DEF HashStaged, TypeOK, Slots
    <2> QED BY <1>3, <2>2 DEF HashStaged, Goto, TypeOK, StagedInv, PCs, disk
  <1>4. ASSUME NEW p \in Procs, PlaceVersion(p) PROVE TypeInv'
    <2>1. CASE Return(p)
      BY <1>4, <2>1, ReturnType DEF PlaceVersion, TypeOK, StagedInv, disk
    <2>2. CASE ~Return(p)
      BY <1>4, <2>2 DEF PlaceVersion, Goto, TypeOK, StagedInv, PCs, disk, job
    <2> QED BY <2>1, <2>2
  <1>5. ASSUME NEW p \in Procs, RenameVersion(p) PROVE TypeInv'
    <2>1. CASE Return(p) /\ UNCHANGED files
      BY <1>5, <2>1, ReturnType DEF RenameVersion, TypeOK, StagedInv
    <2>2. CASE ~(Return(p) /\ UNCHANGED files)
      <3>1. slot[p].sha256 \in Bytes /\ slot[p].version \in Versions
        BY DEF TypeOK, Slots
      <3> QED BY <1>5, <2>2, <3>1
              DEF RenameVersion, Goto, TypeOK, StagedInv, PCs, job
    <2> QED BY <2>1, <2>2
  <1>6. ASSUME NEW p \in Procs, NEW new \in Activations, Prepare(p, new),
               UNCHANGED <<disk, slot>>, launching' \in [Procs -> BOOLEAN]
        PROVE TypeInv'
    BY <1>6 DEF Prepare, Goto, TypeOK, StagedInv, PCs, disk
  <1>7. ASSUME NEW p \in Procs, RecordPending(p) PROVE TypeInv'
    <2>1. CASE Return(p)
      BY <1>7, <2>1, ReturnType DEF RecordPending, TypeOK, StagedInv, disk
    <2>2. CASE ~Return(p)
      BY <1>7, <2>2, <1>6, RecordTypes DEF RecordPending, TypeOK
    <2> QED BY <2>1, <2>2
  <1>8. ASSUME NEW p \in Procs, activate_pending(p) \/ rollback(p) PROVE TypeInv'
    <2>1. PICK new \in Activations : Prepare(p, new)
      BY <1>8 DEF activate_pending, rollback, TypeOK, Activations, SlotOption
    <2> QED BY <1>6, <1>8, <2>1 DEF activate_pending, rollback, TypeOK
  <1>9. ASSUME NEW p \in Procs, NEW v \in Versions, NEW b \in BOOLEAN,
               register_existing_version(p, v, b)
        PROVE TypeInv'
    <2>1. [version |-> v, sha256 |-> files[v]] \in Slots
      BY <1>9 DEF register_existing_version, TypeOK, Slots
    <2> QED BY <1>6, <1>9, <2>1, RecordTypes
            DEF register_existing_version, TypeOK
  <1>10. ASSUME NEW p \in Procs, NEW b \in BOOLEAN, recover(p, b) PROVE TypeInv'
    BY <1>6, <1>10, RecordTypes DEF recover, TypeOK
  <1>11. ASSUME NEW p \in Procs, write_activation_state(p) PROVE TypeInv'
    <2>1. activation' \in Activations
      BY <1>11 DEF write_activation_state, TypeOK
    <2>2. CASE Return(p)
      BY <1>11, <2>1, <2>2, ReturnType
         DEF write_activation_state, TypeOK, StagedInv
    <2>3. CASE ~Return(p)
      BY <1>11, <2>1, <2>3
         DEF write_activation_state, Goto, TypeOK, StagedInv, PCs, job
    <2> QED BY <2>2, <2>3
  <1>12. ASSUME NEW p \in Procs, active_target(p) PROVE TypeInv'
    <2>1. CASE Return(p)
      BY <1>12, <2>1, ReturnType DEF active_target, TypeOK, StagedInv, disk
    <2>2. CASE ~Return(p)
      BY <1>12, <2>2 DEF active_target, Goto, TypeOK, StagedInv, PCs, disk, job
    <2> QED BY <2>1, <2>2
  <1>13. ASSUME NEW p \in Procs, Exec(p) \/ Fail(p) PROVE TypeInv'
    BY <1>13, ReturnType DEF Exec, Fail, TypeOK, StagedInv, disk
  <1>14. CASE PublishRelease
    BY <1>14 DEF PublishRelease, TypeOK, StagedInv, Versions, job
  <1>15. ASSUME NEW v \in Versions, InstallOffline(v) PROVE TypeInv'
    BY <1>15, ByteFacts DEF InstallOffline, TypeOK, StagedInv, job
  <1>16. ASSUME NEW v \in Versions, Harm(v) PROVE TypeInv'
    BY <1>16, ByteFacts DEF Harm, TypeOK, StagedInv, Slots, job
  <1>17. CASE UNCHANGED vars
    BY <1>17 DEF vars, disk, job, TypeOK, StagedInv
  <1> QED
    BY <1>1, <1>2, <1>3, <1>4, <1>5, <1>7, <1>8, <1>9, <1>10, <1>11, <1>12,
       <1>13, <1>14, <1>15, <1>16, <1>17 DEF Next, Step, Environment

\* The initial state is well typed.
LEMMA TypeInit ==
  ASSUME Init
  PROVE  TypeInv
  BY ByteFacts DEF Init, TypeInv, TypeOK, StagedInv, PCs, Versions, SlotOption

\* The store keeps its types: activation.json and every process's copy of it
\* always hold three optional slots of installed versions.
THEOREM StoreTypes == Spec => []TypeOK
  <1>1. Init => TypeInv
    BY TypeInit
  <1>2. TypeInv /\ [Next]_vars => TypeInv'
    BY TypeStep
  <1>3. TypeInv => TypeOK
    BY DEF TypeInv
  <1> QED BY <1>1, <1>2, <1>3, PTL DEF Spec

-----------------------------------------------------------------------------
(* Recorded slots are complete. *)

\* A slot that verifies is complete, and a complete slot stays complete unless
\* a file changes.
LEMMA CompleteKept ==
  ASSUME UNCHANGED <<files, harmed>>, NEW s, Complete(s)
  PROVE  Complete(s)'
  BY DEF Complete

\* Installing a version completes slots and spoils none; harming one is noted.
LEMMA CompleteStep ==
  ASSUME TypeOK, NEW s \in Slots, Complete(s), NEW v \in Versions,
         \/ files[v] = Absent /\ UNCHANGED harmed
         \/ harmed' = harmed \cup {[version |-> v, sha256 |-> files[v]]},
         NEW b, files' = [files EXCEPT ![v] = b]
  PROVE  Complete(s)'
  <1>1. s.sha256 \in Bytes /\ s.version \in Versions
        /\ s = [version |-> s.version, sha256 |-> s.sha256]
    BY DEF Slots
  <1>2. CASE s.version = v
    BY <1>1, <1>2, ByteFacts DEF Complete, TypeOK
  <1>3. CASE s.version # v
    BY <1>1, <1>3 DEF Complete, TypeOK
  <1> QED BY <1>2, <1>3

\* The slots of a record are slots.
LEMMA RecordedType ==
  ASSUME NEW a \in Activations, NEW s \in Recorded(a)
  PROVE  s \in Slots
  BY DEF Activations, SlotOption, Recorded

\* SlotsComplete is preserved when a process takes a record of complete slots,
\* or forgets the one it holds, and no file changes.
LEMMA CompleteLocal ==
  ASSUME TypeOK, SlotsComplete, UNCHANGED <<files, harmed, activation>>,
         NEW p \in Procs, NEW new, state' = [state EXCEPT ![p] = new],
         \A s \in Recorded(new) : Complete(s)
  PROVE  SlotsComplete'
  BY CompleteKept DEF SlotsComplete, TypeOK, Recorded

\* Every record that an operation prepares has only complete slots.
LEMMA CompleteRecords ==
  ASSUME TypeOK, SlotsComplete
  PROVE  /\ \A s \in Recorded(Empty) : Complete(s)
         /\ \A s \in Recorded(Recovered) : Complete(s)
         /\ \A t \in Slots, b \in BOOLEAN :
              Complete(t) => \A s \in Recorded(Registered(t, b)) : Complete(s)
         /\ \A t \in Slots :
              Complete(t) => \A s \in Recorded([activation EXCEPT !.pending = t]) :
                               Complete(s)
         /\ \A x, y \in {activation.active, activation.previous, activation.pending} :
              \A s \in Recorded([active |-> x, previous |-> y, pending |-> None]) :
                Complete(s)
  <1>0. activation \in Activations
    BY DEF TypeOK
  <1>1. \A s \in {activation.active, activation.previous, activation.pending} :
          s # None => Complete(s)
    BY DEF SlotsComplete, Recorded
  <1>2. \A s \in Recorded(Empty) : Complete(s)
    BY DEF Recorded, Empty
  <1>3. \A s \in Recorded(Recovered) : Complete(s)
    BY <1>1 DEF Recorded, Recovered
  <1>4. ASSUME NEW t \in Slots, NEW b \in BOOLEAN, Complete(t),
               NEW s \in Recorded(Registered(t, b))
        PROVE  Complete(s)
    <2>1. s \in {t, activation.active, activation.previous, activation.pending} \ {None}
      BY <1>0, <1>4 DEF Recorded, Registered, Activations
    <2> QED BY <1>1, <1>4, <2>1
  <1>5. ASSUME NEW t \in Slots, Complete(t),
               NEW s \in Recorded([activation EXCEPT !.pending = t])
        PROVE  Complete(s)
    <2>1. s \in {t, activation.active, activation.previous} \ {None}
      BY <1>0, <1>5 DEF Recorded, Activations
    <2> QED BY <1>1, <1>5, <2>1
  <1>6. \A x, y \in {activation.active, activation.previous, activation.pending} :
          \A s \in Recorded([active |-> x, previous |-> y, pending |-> None]) :
            Complete(s)
    BY <1>1 DEF Recorded
  <1> QED BY <1>2, <1>3, <1>4, <1>5, <1>6

\* SlotsComplete is preserved by every step.
LEMMA CompleteInv ==
  ASSUME TypeInv, SlotsComplete, [Next]_vars
  PROVE  SlotsComplete'
  <1> USE DEF TypeInv
  <1>1. ASSUME UNCHANGED <<files, harmed, activation, state>> PROVE SlotsComplete'
    BY <1>1, CompleteKept DEF SlotsComplete
  <1>2. ASSUME NEW p \in Procs, Return(p), UNCHANGED <<files, harmed, activation>>
        PROVE  SlotsComplete'
    BY <1>2, CompleteLocal, CompleteRecords DEF Return
  <1>3. ASSUME NEW v \in Versions, NEW b, files' = [files EXCEPT ![v] = b],
               UNCHANGED <<activation, state>>,
               \/ files[v] = Absent /\ UNCHANGED harmed
               \/ harmed' = harmed \cup {[version |-> v, sha256 |-> files[v]]}
        PROVE  SlotsComplete'
    <2>1. \A s \in Slots : Complete(s) => Complete(s)'
      BY <1>3, CompleteStep
    <2>2. \A s \in Recorded(activation) : s \in Slots
      BY RecordedType DEF TypeOK
    <2>3. \A p \in Procs : \A s \in Recorded(state[p]) : s \in Slots
      BY RecordedType DEF TypeOK
    <2> QED BY <1>3, <2>1, <2>2, <2>3 DEF SlotsComplete, Recorded
  <1>4. ASSUME NEW p \in Procs,
               LoadRelease(p) \/ SaveTarget(p) \/ HashStaged(p)
        PROVE  SlotsComplete'
    BY <1>1, <1>4 DEF LoadRelease, SaveTarget, HashStaged, disk, job
  <1>5. ASSUME NEW p \in Procs, PlaceVersion(p) \/ active_target(p)
        PROVE  SlotsComplete'
    BY <1>1, <1>2, <1>5 DEF PlaceVersion, active_target, disk, job
  <1>6. ASSUME NEW p \in Procs, RenameVersion(p) PROVE SlotsComplete'
    <2>1. slot[p].version \in Versions
      BY DEF TypeOK, Slots
    <2>2. CASE Return(p) /\ UNCHANGED files
      BY <1>2, <1>6, <2>2 DEF RenameVersion
    <2>3. CASE ~(Return(p) /\ UNCHANGED files)
      BY <1>3, <1>6, <2>1, <2>3 DEF RenameVersion, job
    <2> QED BY <2>2, <2>3
  <1>7. ASSUME NEW p \in Procs, RecordPending(p) PROVE SlotsComplete'
    <2>1. CASE Return(p)
      BY <1>2, <1>7, <2>1 DEF RecordPending, disk
    <2>2. CASE ~Return(p)
      <3>1. Complete(slot[p]) /\ slot[p] \in Slots
        BY <1>7, <2>2 DEF RecordPending, Complete, verify_slot, TypeOK
      <3> QED BY <1>7, <2>2, <3>1, CompleteLocal, CompleteRecords
              DEF RecordPending, Prepare, disk
    <2> QED BY <2>1, <2>2
  <1>8. ASSUME NEW p \in Procs, activate_pending(p) \/ rollback(p)
        PROVE  SlotsComplete'
    <2>1. PICK x, y \in {activation.active, activation.previous, activation.pending} :
            Prepare(p, [active |-> x, previous |-> y, pending |-> None])
      BY <1>8 DEF activate_pending, rollback
    <2>2. \A s \in Recorded([active |-> x, previous |-> y, pending |-> None]) :
            Complete(s)
      BY CompleteRecords
    <2>3. UNCHANGED <<files, harmed, activation>>
      BY <1>8 DEF activate_pending, rollback, disk
    <2> QED BY <2>1, <2>2, <2>3, CompleteLocal DEF Prepare
  <1>9. ASSUME NEW p \in Procs, NEW v \in Versions, NEW b \in BOOLEAN,
               register_existing_version(p, v, b)
        PROVE  SlotsComplete'
    <2> DEFINE t == [version |-> v, sha256 |-> files[v]]
    <2>1. t \in Slots /\ Complete(t)
      BY <1>9 DEF register_existing_version, Complete, TypeOK, Slots
    <2>2. \A s \in Recorded(Registered(t, b)) : Complete(s)
      BY <2>1, CompleteRecords
    <2>3. Prepare(p, Registered(t, b)) /\ UNCHANGED <<files, harmed, activation>>
      BY <1>9 DEF register_existing_version, disk
    <2> HIDE DEF t
    <2> QED BY <2>2, <2>3, CompleteLocal DEF Prepare
  <1>10. ASSUME NEW p \in Procs, NEW b \in BOOLEAN, recover(p, b)
         PROVE  SlotsComplete'
    BY <1>10, CompleteLocal, CompleteRecords DEF recover, Prepare, disk
  <1>11. ASSUME NEW p \in Procs, write_activation_state(p) PROVE SlotsComplete'
    <2>1. UNCHANGED <<files, harmed>> /\ activation' = state[p]
      BY <1>11 DEF write_activation_state
    <2>2. \A s \in Recorded(activation') : Complete(s)'
      BY <2>1, CompleteKept DEF SlotsComplete
    <2>3. \A q \in Procs : state'[q] \in {state[q], Empty}
      BY <1>11 DEF write_activation_state, Return, job, TypeOK
    <2>4. \A q \in Procs : \A s \in Recorded(state'[q]) : Complete(s)'
      BY <2>1, <2>3, CompleteKept, CompleteRecords DEF SlotsComplete
    <2> QED BY <2>2, <2>4 DEF SlotsComplete, Recorded
  <1>12. ASSUME NEW p \in Procs, Exec(p) \/ Fail(p) PROVE SlotsComplete'
    BY <1>2, <1>12 DEF Exec, Fail, disk
  <1>13. CASE PublishRelease \/ UNCHANGED vars
    BY <1>1, <1>13 DEF PublishRelease, vars, disk, job
  <1>14. ASSUME NEW v \in Versions, InstallOffline(v) \/ Harm(v)
         PROVE  SlotsComplete'
    BY <1>3, <1>14 DEF InstallOffline, Harm, job
  <1> QED
    BY <1>4, <1>5, <1>6, <1>7, <1>8, <1>9, <1>10, <1>11, <1>12, <1>13, <1>14
       DEF Next, Step, Environment

\* With no lock, any number of processes and a crash anywhere, activation.json
\* only ever names versions that were completely installed with the recorded
\* digest: copy, rename and verification come before the record.
THEOREM SlotsCompleteHolds == Spec => []SlotsComplete
  <1>1. Init => TypeInv /\ SlotsComplete
    BY TypeInit DEF Init, SlotsComplete, Recorded, Empty
  <1>2. TypeInv /\ SlotsComplete /\ [Next]_vars => (TypeInv /\ SlotsComplete)'
    BY TypeStep, CompleteInv
  <1> QED BY <1>1, <1>2, PTL DEF Spec

\* No step but the loss of a file changes an installed executable.
LEMMA ImmutableStep ==
  ASSUME TypeOK, [Next]_vars, NEW v \in Versions, files[v] \notin {Absent, files'[v]}
  PROVE  [version |-> v, sha256 |-> files[v]] \in harmed'
  <1>1. ASSUME NEW p \in Procs, Step(p) PROVE files'[v] = files[v]
    <2>1. CASE RenameVersion(p)
      BY <2>1 DEF RenameVersion, TypeOK, Slots
    <2>2. CASE ~RenameVersion(p)
      BY <1>1, <2>2
         DEF Step, LoadRelease, SaveTarget, HashStaged, PlaceVersion, RecordPending,
             activate_pending, rollback, register_existing_version, recover,
             write_activation_state, active_target, Exec, Fail, disk
    <2> QED BY <2>1, <2>2
  <1>2. ASSUME NEW w \in Versions, InstallOffline(w) PROVE files'[v] = files[v]
    BY <1>2 DEF InstallOffline, TypeOK
  <1>3. ASSUME NEW w \in Versions, Harm(w)
        PROVE  files'[v] = files[v] \/ [version |-> v, sha256 |-> files[v]] \in harmed'
    BY <1>3 DEF Harm, TypeOK
  <1>4. CASE PublishRelease \/ UNCHANGED vars
    BY <1>4 DEF PublishRelease, vars, disk
  <1> QED BY <1>1, <1>2, <1>3, <1>4 DEF Next, Environment

\* Version directories are immutable: racing installations of one version, with
\* the same bytes or not, never replace an installed executable.
THEOREM VersionsImmutableHolds == Spec => VersionsImmutable
  <1>1. Init => TypeInv
    BY TypeInit
  <1>2. TypeInv /\ [Next]_vars => TypeInv'
    BY TypeStep
  <1>3. TypeInv /\ [Next]_vars =>
          [\A v \in Versions :
             files[v] \notin {Absent, files'[v]} =>
               [version |-> v, sha256 |-> files[v]] \in harmed']_vars
    BY ImmutableStep DEF TypeInv
  <1> QED BY <1>1, <1>2, <1>3, PTL DEF Spec, VersionsImmutable

-----------------------------------------------------------------------------
(* Operations that do not overlap implement the selector. *)

\* At most one operation is under way.
AloneInv == \A p, q \in Procs : pc[p] # "idle" /\ pc[q] # "idle" => p = q

\* The record about to be written is one the selector may still choose.
SelectInv == \A p \in Procs : pc[p] = "write" => Selector!Selectable(state[p])

\* The three invariants of the refinement.
SerialInv == TypeInv /\ SlotsComplete /\ AloneInv /\ SelectInv

\* What a step of process p does to the program counters.
LEMMA StepPc ==
  ASSUME TypeOK, NEW p \in Procs, Step(p)
  PROVE  /\ \A q \in Procs \ {p} : pc'[q] = pc[q] /\ state'[q] = state[q]
         /\ pc[p] = "idle" => MayStart(p)
  BY DEF Step, LoadRelease, SaveTarget, HashStaged, PlaceVersion, RenameVersion,
         RecordPending, activate_pending, rollback, register_existing_version,
         recover, write_activation_state, active_target, Exec, Fail, Prepare,
         Return, Goto, job, TypeOK

\* Operations that start one at a time stay one at a time.
LEMMA AloneStep ==
  ASSUME ~Concurrent, TypeOK, AloneInv, [Next]_vars
  PROVE  AloneInv'
  <1>1. ASSUME NEW p \in Procs, Step(p) PROVE AloneInv'
    BY <1>1, StepPc DEF AloneInv, MayStart
  <1>2. CASE Environment \/ UNCHANGED vars
    BY <1>2 DEF Environment, PublishRelease, InstallOffline, Harm, vars, AloneInv
  <1> QED BY <1>1, <1>2 DEF Next

\* An invalid slot of the record was harmed.
LEMMA InvalidIsLost ==
  ASSUME TypeOK, SlotsComplete,
         NEW s \in {activation.active, activation.previous, activation.pending},
         Invalid(s)
  PROVE  Selector!Lost(s)
  BY DEF SlotsComplete, Recorded, Complete, Invalid, verify_slot, Selector!Lost

\* Each record that an operation prepares is one the selector may choose.
LEMMA Choices ==
  ASSUME TypeOK, SlotsComplete
  PROVE  /\ \A s \in Slots : Selector!Selectable([activation EXCEPT !.pending = s])
         /\ activation.pending # None =>
              Selector!Selectable([active |-> activation.pending,
                                   previous |-> activation.active, pending |-> None])
         /\ activation.previous # None =>
              Selector!Selectable([active |-> activation.previous,
                                   previous |-> activation.active, pending |-> None])
         /\ \A s \in Slots, b \in BOOLEAN : Selector!Selectable(Registered(s, b))
         /\ (Invalid(activation.active) => activation.previous # None) =>
              Selector!Selectable(Recovered)
  <1> USE DEF Selector!Selectable
  <1>0. activation \in Activations
    BY DEF TypeOK
  <1>1. \A s \in Slots : Selector!Selectable([activation EXCEPT !.pending = s])
    BY DEF Selector!Stage
  <1>2. activation.pending # None =>
          Selector!Selectable([active |-> activation.pending,
                               previous |-> activation.active, pending |-> None])
    BY DEF Selector!Activate
  <1>3. activation.previous # None =>
          Selector!Selectable([active |-> activation.previous,
                               previous |-> activation.active, pending |-> None])
    BY DEF Selector!Rollback
  <1>4. \A s \in Slots, b \in BOOLEAN : Selector!Selectable(Registered(s, b))
    <2> SUFFICES ASSUME NEW s \in Slots, NEW b \in BOOLEAN
                 PROVE  Selector!Selectable(Registered(s, b))
      OBVIOUS
    <2>1. CASE activation.active = None
      <3>1. Registered(s, b) = [activation EXCEPT !.active = s]
        BY <2>1 DEF Registered
      <3> QED BY <2>1, <3>1 DEF Selector!Register
    <2>2. CASE activation.active # None /\ activation.active = s
      <3>1. Registered(s, b) = activation
        BY <2>2 DEF Registered
      <3> QED BY <2>2, <3>1 DEF Selector!Register
    <2>3. CASE activation.active \notin {None, s} /\ b
      <3>1. Registered(s, b) = [active |-> s, previous |-> activation.active,
                                pending |-> None]
        BY <2>3 DEF Registered
      <3> QED BY <2>3, <3>1 DEF Selector!Register
    <2>4. CASE activation.active \notin {None, s} /\ ~b
      <3>1. Registered(s, b) = [activation EXCEPT !.pending = s]
        BY <2>4 DEF Registered
      <3> QED BY <1>1, <3>1
    <2> QED BY <2>1, <2>2, <2>3, <2>4
  <1>5. ASSUME Invalid(activation.active) => activation.previous # None
        PROVE  Selector!Selectable(Recovered)
    <2> DEFINE pending == IF Invalid(activation.pending) THEN None
                          ELSE activation.pending
    <2>1. pending # activation.pending =>
            pending = None /\ Selector!Lost(activation.pending)
      BY InvalidIsLost
    <2>2. CASE Invalid(activation.active)
      <3>1. Recovered = [active |-> activation.previous, previous |-> None,
                         pending |-> pending]
        BY <2>2 DEF Recovered
      <3>2. Selector!Lost(activation.active)
        BY <2>2, InvalidIsLost
      <3> HIDE DEF pending
      <3> QED BY <1>5, <2>1, <2>2, <3>1, <3>2 DEF Selector!Recover
    <2>3. CASE ~Invalid(activation.active) /\ Invalid(activation.previous)
      <3>1. Recovered = [active |-> activation.active, previous |-> None,
                         pending |-> pending]
        BY <2>3 DEF Recovered
      <3>2. Selector!Lost(activation.previous)
        BY <2>3, InvalidIsLost
      <3>3. Recovered.pending = pending
        BY <2>3 DEF Recovered
      <3> HIDE DEF pending
      <3> QED BY <2>1, <3>1, <3>2, <3>3 DEF Selector!Recover
    <2>4. CASE ~Invalid(activation.active) /\ ~Invalid(activation.previous)
      <3>1. Recovered = [activation EXCEPT !.pending = pending]
        BY <1>0, <2>4 DEF Recovered, Activations
      <3>2. Recovered.pending = pending
        BY <2>4 DEF Recovered
      <3> HIDE DEF pending
      <3> QED BY <2>1, <3>1, <3>2 DEF Selector!Recover
    <2> QED BY <2>2, <2>3, <2>4
  <1> QED BY <1>1, <1>2, <1>3, <1>4, <1>5

\* The record about to be written stays a choice of the selector: nobody else
\* changes the record between the read and the write.
LEMMA SelectStep ==
  ASSUME ~Concurrent, SerialInv, [Next]_vars
  PROVE  SelectInv'
  <1> USE DEF SerialInv, TypeInv
  <1>1. ASSUME UNCHANGED activation, harmed \subseteq harmed',
               \A p \in Procs : pc'[p] = "write" =>
                 \/ pc[p] = "write" /\ state'[p] = state[p]
                 \/ Selector!Selectable(state'[p])
        PROVE  SelectInv'
    <2> SUFFICES ASSUME NEW p \in Procs, pc'[p] = "write"
                 PROVE  Selector!Selectable(state[p])'
      BY DEF SelectInv
    <2>1. Selector!Selectable(state'[p])
      BY <1>1 DEF SelectInv
    <2> QED
      BY <1>1, <2>1
         DEF Selector!Selectable, Selector!Stage, Selector!Activate,
             Selector!Rollback, Selector!Register, Selector!Recover, Selector!Lost
  <1>2. ASSUME NEW p \in Procs, NEW new, Prepare(p, new),
               UNCHANGED <<activation, harmed>>, Selector!Selectable(new)
        PROVE  SelectInv'
    BY <1>1, <1>2 DEF Prepare, Goto, TypeOK
  <1>3. ASSUME NEW p \in Procs, Return(p), UNCHANGED <<activation, harmed>>
        PROVE  SelectInv'
    BY <1>1, <1>3 DEF Return, Goto, TypeOK
  <1>4. ASSUME NEW p \in Procs, NEW l \in PCs \ {"write"}, Goto(p, l),
               UNCHANGED <<activation, harmed, state>>
        PROVE  SelectInv'
    BY <1>1, <1>4 DEF Goto, TypeOK
  <1>5. ASSUME NEW p \in Procs,
               LoadRelease(p) \/ SaveTarget(p) \/ HashStaged(p)
        PROVE  SelectInv'
    BY <1>4, <1>5 DEF LoadRelease, SaveTarget, HashStaged, PCs, disk, job
  <1>6. ASSUME NEW p \in Procs,
               PlaceVersion(p) \/ RenameVersion(p) \/ active_target(p)
        PROVE  SelectInv'
    BY <1>3, <1>4, <1>6
       DEF PlaceVersion, RenameVersion, active_target, PCs, disk, job
  <1>7. ASSUME NEW p \in Procs, RecordPending(p) PROVE SelectInv'
    <2>1. slot[p] \in Slots
      BY DEF TypeOK
    <2> QED BY <1>2, <1>3, <1>7, <2>1, Choices DEF RecordPending, disk
  <1>8. ASSUME NEW p \in Procs, activate_pending(p) PROVE SelectInv'
    BY <1>2, <1>8, Choices DEF activate_pending, disk
  <1>9. ASSUME NEW p \in Procs, rollback(p) PROVE SelectInv'
    BY <1>2, <1>9, Choices DEF rollback, disk
  <1>10. ASSUME NEW p \in Procs, NEW v \in Versions, NEW b \in BOOLEAN,
                register_existing_version(p, v, b)
         PROVE  SelectInv'
    <2>1. [version |-> v, sha256 |-> files[v]] \in Slots
      BY <1>10 DEF register_existing_version, TypeOK, Slots
    <2> QED BY <1>2, <1>10, <2>1, Choices DEF register_existing_version, disk
  <1>11. ASSUME NEW p \in Procs, NEW b \in BOOLEAN, recover(p, b) PROVE SelectInv'
    BY <1>2, <1>11, Choices DEF recover, disk
  <1>12. ASSUME NEW p \in Procs, write_activation_state(p) PROVE SelectInv'
    <2>1. \A q \in Procs : pc'[q] # "write"
      BY <1>12 DEF write_activation_state, AloneInv, Return, Goto, TypeOK
    <2> QED BY <2>1 DEF SelectInv
  <1>13. ASSUME NEW p \in Procs, Exec(p) \/ Fail(p) PROVE SelectInv'
    BY <1>3, <1>13 DEF Exec, Fail, disk
  <1>14. CASE Environment \/ UNCHANGED vars
    BY <1>1, <1>14
       DEF Environment, PublishRelease, InstallOffline, Harm, vars, disk, job
  <1> QED
    BY <1>5, <1>6, <1>7, <1>8, <1>9, <1>10, <1>11, <1>12, <1>13, <1>14
       DEF Next, Step

\* Every step is a step of the selector or leaves the record alone.
LEMMA SelectorStep ==
  ASSUME SerialInv, [Next]_vars
  PROVE  [Selector!Next]_(Selector!vars)
  <1> USE DEF SerialInv, TypeInv, Selector!vars
  <1>1. ASSUME NEW p \in Procs, write_activation_state(p)
        PROVE  Selector!Next
    BY <1>1 DEF write_activation_state, SelectInv, Selector!Next, Selector!Select
  <1>2. ASSUME NEW p \in Procs, Step(p), ~write_activation_state(p)
        PROVE  UNCHANGED <<activation, harmed>>
    BY <1>2
       DEF Step, LoadRelease, SaveTarget, HashStaged, PlaceVersion, RenameVersion,
           RecordPending, activate_pending, rollback, register_existing_version,
           recover, active_target, Exec, Fail, disk
  <1>3. ASSUME NEW v \in Versions, Harm(v) PROVE Selector!Next
    BY <1>3 DEF Harm, Selector!Next, Selector!Harm
  <1>4. CASE PublishRelease \/ (\E v \in Versions : InstallOffline(v)) \/ UNCHANGED vars
    BY <1>4 DEF PublishRelease, InstallOffline, vars, disk
  <1> QED BY <1>1, <1>2, <1>3, <1>4 DEF Next, Environment

\* Operations that do not overlap implement the atomic selector: every change
\* of activation.json is one whole operation on the record it replaces, and
\* recovery gives up no slot whose executable was not harmed.
THEOREM SelectsAtomicallyHolds ==
  ASSUME ~Concurrent
  PROVE  Spec => SelectsAtomically
  <1>1. Init => SerialInv /\ Selector!Init
    BY TypeInit
       DEF Init, SerialInv, SlotsComplete, AloneInv, SelectInv, Recorded, Empty,
           Selector!Init
  <1>2. SerialInv /\ [Next]_vars => SerialInv'
    BY TypeStep, CompleteInv, AloneStep, SelectStep DEF SerialInv, TypeInv
  <1>3. SerialInv /\ [Next]_vars => [Selector!Next]_(Selector!vars)
    BY SelectorStep
  <1> QED BY <1>1, <1>2, <1>3, PTL DEF Spec, SelectsAtomically, Selector!Spec
=============================================================================

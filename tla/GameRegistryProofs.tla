------------------------- MODULE GameRegistryProofs -------------------------
(***************************************************************************)
(* Proofs about GameRegistry, for every number of releases, metadata       *)
(* versions and processes.                                                 *)
(***************************************************************************)
EXTENDS GameRegistry, TLAPS

\* What one process does.
Step(p) == Install(p) \/ Load(p) \/ Crash(p)

-----------------------------------------------------------------------------
(* Type correctness. *)

\* No release is the one that stands for none.
LEMMA ReleaseTypes ==
  /\ NoRelease \notin Releases /\ Torn \notin Releases /\ NoRelease # Torn
  /\ Nothing \in Loaded /\ Absent \notin Dir
  /\ [release |-> Torn, metadata |-> 0] \in Dir
  BY RegistryAssumption DEF NoRelease, Releases, Torn, Nothing, Loaded, Absent, Dir

\* Leaving a call restores the idle state of the process.
LEMMA LeaveType ==
  ASSUME TypeOK, NEW p \in Procs, Leave(p),
         destination' \in Dir \cup {Absent}, backup' \in Dir \cup {Absent},
         wanted' \subseteq Releases, accepted' \in Releases \cup {NoRelease}
  PROVE  TypeOK'
<1>1. /\ pc' \in [Procs -> PCs] /\ release' \in [Procs -> Releases \cup {NoRelease}]
      /\ replace' \in [Procs -> BOOLEAN] /\ loaded' \in [Procs -> Loaded]
  BY ReleaseTypes DEF TypeOK, Leave, Goto, PCs
<1>2. /\ \A q \in Procs : pc'[q] \in Installing <=> release'[q] # NoRelease
      /\ \A q \in Procs : pc'[q] \in Loading \cup Checking <=> loaded'[q] # Nothing
  BY DEF TypeOK, Leave, Goto, Installing, Loading, Checking
<1> QED
  BY <1>1, <1>2 DEF TypeOK

\* Going on within a call keeps it a call of its kind.
LEMMA ContinueType ==
  ASSUME TypeOK, NEW p \in Procs, NEW l \in PCs, Continue(p, l),
         pc[p] \in Installing => l \in Installing,
         pc[p] \in Loading \cup Checking => l \in Loading \cup Checking,
         pc[p] # "idle",
         destination' \in Dir \cup {Absent}, backup' \in Dir \cup {Absent}
  PROVE  TypeOK'
<1>1. pc' \in [Procs -> PCs]
  BY DEF TypeOK, Continue, Goto
<1>2. /\ \A q \in Procs : pc'[q] \in Installing <=> release'[q] # NoRelease
      /\ \A q \in Procs : pc'[q] \in Loading \cup Checking <=> loaded'[q] # Nothing
  BY DEF TypeOK, Continue, Goto, call, Installing, Loading, Checking, PCs
<1> QED
  BY <1>1, <1>2 DEF TypeOK, Continue, call, history

\* Every step of every process keeps the types.
LEMMA TypeStep == TypeOK /\ [Next]_vars => TypeOK'
<1> SUFFICES ASSUME TypeOK, [Next]_vars PROVE TypeOK'
  OBVIOUS
<1>1. ASSUME NEW p \in Procs, NEW r \in Releases, NEW u \in BOOLEAN, Begin(p, r, u)
      PROVE  TypeOK'
  <2>1. /\ pc' \in [Procs -> PCs] /\ release' \in [Procs -> Releases \cup {NoRelease}]
        /\ replace' \in [Procs -> BOOLEAN] /\ wanted' \subseteq Releases
    BY <1>1 DEF TypeOK, Begin, Goto, PCs, Installing
  <2>2. /\ \A q \in Procs : pc'[q] \in Installing <=> release'[q] # NoRelease
        /\ \A q \in Procs : pc'[q] \in Loading \cup Checking <=> loaded'[q] # Nothing
    BY <1>1, ReleaseTypes DEF TypeOK, Begin, MayStart, Goto, Installing, Loading, Checking
  <2> QED
    BY <1>1, <2>1, <2>2 DEF TypeOK, Begin, disk
<1>2. ASSUME NEW p \in Procs,
             recover_registration(p) \/ Check(p) \/ RenameAway(p) \/ Restore(p)
      PROVE  TypeOK'
  <2>1. destination' \in Dir \cup {Absent} /\ backup' \in Dir \cup {Absent}
    BY <1>2 DEF TypeOK, recover_registration, Check, RenameAway, Restore, disk
  <2>2. \/ Err(p)
        \/ /\ pc[p] \in Installing
           /\ \E l \in Installing : Continue(p, l)
    BY <1>2 DEF recover_registration, Check, RenameAway, Restore, Installing
  <2> QED
    BY <2>1, <2>2, LeaveType, ContinueType
    DEF Err, history, TypeOK, PCs, Installing, Loading, Checking
<1>3. ASSUME NEW p \in Procs,
             RemoveFiles(p) \/ RemoveDirectory(p) \/ Activate(p) \/ GiveBack(p)
      PROVE  TypeOK'
  <2>0. pc[p] \in Installing /\ release[p] \in Releases
    BY <1>3 DEF RemoveFiles, RemoveDirectory, Activate, GiveBack, TypeOK, Installing
  <2>1. destination' \in Dir \cup {Absent} /\ backup' \in Dir \cup {Absent}
    <3>1. [release |-> release[p], metadata |-> 0] \in Dir
      BY <2>0, RegistryAssumption DEF Dir
    <3> QED
      BY <1>3, <3>1, ReleaseTypes
      DEF TypeOK, RemoveFiles, RemoveDirectory, Activate, GiveBack, disk
  <2>2. \/ Err(p) \/ Ok(p) \/ \E l \in Installing : Continue(p, l)
    BY <1>3 DEF RemoveFiles, RemoveDirectory, Activate, GiveBack, Installing
  <2> QED
    BY <2>0, <2>1, <2>2, LeaveType, ContinueType
    DEF Err, Ok, history, TypeOK, PCs, Installing, Loading, Checking
<1>4. ASSUME NEW p \in Procs, Crash(p) \/ EndSession(p) PROVE TypeOK'
  BY <1>4, LeaveType DEF Crash, EndSession, Err, disk, history, TypeOK
<1>5. ASSUME NEW p \in Procs, NEW check \in BOOLEAN, LoadRecord(p, check)
      PROVE  TypeOK'
  <2>1. destination.release \in Releases /\ pc[p] = "idle"
    BY <1>5, ReleaseTypes DEF LoadRecord, MayStart, Whole, exists, TypeOK, Dir
  <2>2. /\ pc' \in [Procs -> PCs] /\ loaded' \in [Procs -> Loaded]
        /\ loaded'[p] # Nothing /\ \A q \in Procs \ {p} : loaded'[q] = loaded[q]
    BY <1>5, <2>1, ReleaseTypes DEF LoadRecord, TypeOK, Goto, PCs, Loading, Loaded, Nothing
  <2>3. /\ \A q \in Procs : pc'[q] \in Installing <=> release'[q] # NoRelease
        /\ \A q \in Procs : pc'[q] \in Loading \cup Checking <=> loaded'[q] # Nothing
    BY <1>5, <2>1, <2>2 DEF LoadRecord, TypeOK, Goto, call, Installing, Loading, Checking
  <2> QED
    BY <1>5, <2>2, <2>3 DEF LoadRecord, TypeOK, disk, call, history
<1>6. ASSUME NEW p \in Procs, LoadBytes(p) \/ LoadKeys(p) \/ LoadSessionTrust(p)
      PROVE  TypeOK'
  <2>1. UNCHANGED disk /\ pc[p] \in Loading
    BY <1>6 DEF LoadBytes, LoadKeys, LoadSessionTrust, Loading
  <2>2. Err(p) \/ \E l \in Loading \cup Checking : Continue(p, l)
    BY <1>6 DEF LoadBytes, LoadKeys, LoadSessionTrust, Continue, Loading, Checking
  <2> QED
    BY <2>1, <2>2, LeaveType, ContinueType
    DEF Err, disk, history, TypeOK, PCs, Installing, Loading, Checking
<1>7. ASSUME NEW p \in Procs, CreateDatastore(p) PROVE TypeOK'
  BY <1>7, ContinueType, ReleaseTypes
  DEF CreateDatastore, TypeOK, PCs, Installing, Loading, Checking
<1>8. ASSUME NEW p \in Procs, LoadMetadata(p) PROVE TypeOK'
  <2>1. destination' \in Dir
    BY <1>8, RegistryAssumption DEF LoadMetadata, exists, TypeOK, Dir
  <2> QED
    BY <1>8, <2>1, LeaveType DEF LoadMetadata, history, TypeOK
<1>9. CASE UNCHANGED vars
  BY <1>9 DEF vars, disk, call, history, TypeOK
<1> QED
  BY <1>1, <1>2, <1>3, <1>4, <1>5, <1>6, <1>7, <1>8, <1>9
  DEF Next, Install, Load

\* The registry always has its declared types.
THEOREM RegistryTypes == Spec => []TypeOK
<1>1. Init => TypeOK
  BY ReleaseTypes DEF Init, TypeOK, PCs, Installing, Loading, Checking
<1> QED
  BY <1>1, TypeStep, PTL DEF Spec

-----------------------------------------------------------------------------
(* Operations that do not overlap implement the slot. *)

\* At most one operation on the registration's directory is under way.
AloneInv == \A p, q \in Procs : Busy(p) /\ Busy(q) => p = q

\* What an operation has found or made of the directory, at the points where it
\* relies on it; and what it installs was asked for.
HeldInv ==
  \A p \in Procs :
    /\ pc[p] \in {"purge", "purged"} => exists(destination)
    /\ pc[p] \in {"retire", "retired"} => destination.release = release[p]
    /\ pc[p] \in Checking => exists(destination)
    /\ pc[p] \in Loading /\ loaded[p].check => exists(destination)
    /\ pc[p] \in Installing => release[p] \in wanted

\* The backup is only ever emptied while the destination is in place.
SerialInv == TypeOK /\ AloneInv /\ HeldInv

\* What a step of process p leaves alone.
LEMMA StepFrame ==
  ASSUME TypeOK, NEW p \in Procs, Step(p)
  PROVE  /\ \A q \in Procs \ {p} :
              pc'[q] = pc[q] /\ release'[q] = release[q] /\ loaded'[q] = loaded[q]
         /\ Busy(p)' /\ ~Busy(p) => Concurrent \/ \A q \in Procs : ~Busy(q)
<1>1. \A q \in Procs \ {p} :
        pc'[q] = pc[q] /\ release'[q] = release[q] /\ loaded'[q] = loaded[q]
  BY DEF Step, Install, Load, Crash, Begin, recover_registration, Restore,
     RemoveFiles, RemoveDirectory, Check, RenameAway, Activate, GiveBack, LoadRecord,
     LoadBytes, LoadKeys, LoadSessionTrust, EndSession, CreateDatastore, LoadMetadata,
     Continue, Err, Ok, Leave, Goto, call, TypeOK
<1>2. ASSUME Busy(p)', ~Busy(p) PROVE MayStart(p)
  <2>1. ASSUME Leave(p) PROVE FALSE
    BY <1>2, <2>1 DEF Leave, Goto, Busy, TypeOK, Installing, Checking, Loading
  <2>2. CASE Install(p)
    BY <1>2, <2>1, <2>2 DEF Install, Begin, recover_registration, Restore,
       RemoveFiles, RemoveDirectory, Check, RenameAway, Activate, GiveBack,
       Err, Ok, Busy, Installing
  <2>3. ASSUME NEW check \in BOOLEAN, LoadRecord(p, check) PROVE MayStart(p)
    BY <1>2, <2>3 DEF LoadRecord, Busy, Goto, TypeOK, Loaded, Installing, Checking, Loading
  <2>4. CASE LoadBytes(p) \/ LoadKeys(p) \/ LoadSessionTrust(p)
    BY <1>2, <2>1, <2>4 DEF LoadBytes, LoadKeys, LoadSessionTrust, Err, Continue, Goto,
       Busy, call, TypeOK, Loaded, Installing, Checking, Loading
  <2>5. CASE EndSession(p) \/ CreateDatastore(p) \/ LoadMetadata(p) \/ Crash(p)
    BY <1>2, <2>1, <2>5 DEF EndSession, CreateDatastore, LoadMetadata, Crash, Err,
       Busy, Checking
  <2> QED
    BY <2>2, <2>3, <2>4, <2>5 DEF Step, Load
<1> QED
  BY <1>1, <1>2 DEF MayStart

\* Operations that start one at a time stay one at a time.
LEMMA AloneStep == ~Concurrent /\ TypeOK /\ AloneInv /\ [Next]_vars => AloneInv'
<1> SUFFICES ASSUME ~Concurrent, TypeOK, AloneInv, [Next]_vars PROVE AloneInv'
  OBVIOUS
<1>1. ASSUME NEW p \in Procs, Step(p) PROVE AloneInv'
  <2>1. \A q \in Procs \ {p} : Busy(q)' = Busy(q)
    BY <1>1, StepFrame DEF Busy
  <2>2. CASE Busy(p) \/ ~Busy(p)'
    BY <2>1, <2>2 DEF AloneInv
  <2>3. CASE ~Busy(p) /\ Busy(p)'
    BY <1>1, <2>1, <2>3, StepFrame DEF AloneInv
  <2> QED
    BY <2>2, <2>3
<1>2. CASE UNCHANGED vars
  BY <1>2 DEF AloneInv, Busy, vars
<1> QED
  BY <1>1, <1>2 DEF Next, Step

\* A process that is not busy leaves the disk, and what was asked for, alone.
LEMMA IdleStep ==
  ASSUME TypeOK, NEW p \in Procs, Step(p), ~Busy(p)
  PROVE  /\ UNCHANGED <<disk, accepted>>
         /\ wanted \subseteq wanted' /\ \E r \in Releases : wanted' \subseteq wanted \cup {r}
<1>0. 1 \in Releases
  BY RegistryAssumption DEF Releases
<1>1. CASE Install(p)
  BY <1>0, <1>1 DEF Install, Begin, recover_registration, Restore,
     RemoveFiles, RemoveDirectory, Check, RenameAway, Activate, GiveBack, Busy,
     Installing, disk
<1>2. CASE Load(p) \/ Crash(p)
  BY <1>0, <1>2 DEF Load, Crash, LoadRecord, LoadBytes, LoadKeys, LoadSessionTrust,
     EndSession, CreateDatastore, LoadMetadata, Err, Continue, Busy, Checking, disk, history
<1> QED
  BY <1>1, <1>2 DEF Step

\* What a step of the busy process does to the registration in force.
LEMMA BusyStep ==
  ASSUME TypeOK, HeldInv, NEW p \in Procs, Step(p), Busy(p)
  PROVE  /\ \/ InForce' = InForce /\ UNCHANGED history
            \/ InForce' = release[p] /\ release[p] \in wanted /\ UNCHANGED history
            \/ /\ InForce' = release[p] /\ release[p] \in wanted
               /\ wanted' = {} /\ accepted' = release[p]
         /\ pc'[p] \in {"purge", "purged"} => exists(destination')
         /\ pc'[p] \in {"retire", "retired"} => destination'.release = release'[p]
         /\ pc'[p] \in Checking => exists(destination')
         /\ pc'[p] \in Loading /\ loaded'[p].check => exists(destination')
         /\ pc'[p] \in Installing =>
              pc[p] \in Installing /\ release'[p] = release[p] /\ UNCHANGED history
<1> DEFINE Safe ==
         /\ pc'[p] \in {"purge", "purged"} => exists(destination')
         /\ pc'[p] \in {"retire", "retired"} => destination'.release = release'[p]
         /\ pc'[p] \in Checking => exists(destination')
         /\ pc'[p] \in Loading /\ loaded'[p].check => exists(destination')
         /\ pc'[p] \in Installing =>
              pc[p] \in Installing /\ release'[p] = release[p] /\ UNCHANGED history
<1>0. /\ destination # Absent => destination.release \in Releases \cup {Torn}
      /\ backup # Absent => backup.release \in Releases \cup {Torn}
      /\ pc[p] \in Installing => release[p] \in wanted /\ release[p] \in Releases
  BY DEF TypeOK, Dir, HeldInv
<1>1. ASSUME Leave(p) PROVE Safe
  BY <1>1 DEF Leave, Goto, TypeOK, Installing, Checking, Loading
<1>2. ASSUME NEW l, Continue(p, l), pc[p] \in Installing, l \in Installing,
             l \in {"purge", "purged"} => exists(destination'),
             l \in {"retire", "retired"} => destination'.release = release[p]
      PROVE  Safe
  BY <1>2 DEF Continue, Goto, call, history, TypeOK, Installing, Checking, Loading
<1> USE DEF Whole, exists, InForce
<1>3. CASE recover_registration(p) \/ Check(p)
  <2>1. UNCHANGED <<disk, history>> /\ pc[p] \in Installing
    BY <1>3 DEF recover_registration, Check, Continue, Err, Installing
  <2>2. \/ Leave(p)
        \/ Continue(p, "purge") /\ exists(destination)
        \/ \E l \in {"check", "restore", "away", "activate"} : Continue(p, l)
    BY <1>3 DEF recover_registration, Check, Err
  <2>3. ASSUME NEW l \in {"check", "restore", "away", "activate"}, Continue(p, l)
        PROVE  Safe
    BY <1>2, <2>1, <2>3 DEF Installing
  <2>4. CASE Continue(p, "purge") /\ exists(destination)
    BY <1>2, <2>1, <2>4 DEF disk, Installing
  <2>5. Safe
    BY <1>1, <2>2, <2>3, <2>4
  <2> QED
    BY <2>1, <2>5 DEF disk
<1>4. CASE Restore(p) \/ RenameAway(p) \/ GiveBack(p)
  <2>1. pc[p] \in Installing /\ UNCHANGED history
    BY <1>4 DEF Restore, RenameAway, GiveBack, Continue, Err, Installing
  <2>2. Leave(p) \/ Continue(p, "check") \/ Continue(p, "activate")
    BY <1>4 DEF Restore, RenameAway, GiveBack, Err
  <2>3. Safe
    BY <1>1, <1>2, <2>1, <2>2 DEF Installing
  <2>4. InForce' = InForce
    BY <1>0, <1>4, ReleaseTypes DEF Restore, RenameAway, GiveBack, disk, Absent
  <2> QED
    BY <2>1, <2>3, <2>4
<1>5. CASE RemoveFiles(p)
  <2>1. /\ pc[p] \in {"purge", "retire"} /\ UNCHANGED <<destination, history>>
        /\ exists(destination) /\ (pc[p] = "retire" => destination.release = release[p])
    BY <1>0, <1>5, ReleaseTypes
    DEF RemoveFiles, Continue, Err, HeldInv, Absent, Installing
  <2>2. \/ Leave(p)
        \/ Continue(p, "purged")
        \/ Continue(p, "retired") /\ pc[p] = "retire"
    BY <1>5 DEF RemoveFiles, Err
  <2>3. CASE Continue(p, "purged")
    BY <1>2, <2>1, <2>3 DEF Installing
  <2>4. CASE Continue(p, "retired") /\ pc[p] = "retire"
    BY <1>2, <2>1, <2>4 DEF Installing
  <2>5. Safe
    BY <1>1, <2>2, <2>3, <2>4
  <2>6. InForce' = InForce
    BY <2>1
  <2> QED
    BY <2>1, <2>5, <2>6
<1>6. CASE RemoveDirectory(p)
  <2>1. /\ pc[p] \in {"purged", "retired"} /\ UNCHANGED destination
        /\ exists(destination) /\ (pc[p] = "retired" => destination.release = release[p])
    BY <1>0, <1>6, ReleaseTypes DEF RemoveDirectory, HeldInv, Absent, Installing
  <2>2. InForce' = InForce /\ (pc[p] = "retired" => InForce' = release[p])
    BY <1>0, <2>1, ReleaseTypes DEF Installing
  <2>3. \/ Leave(p) /\ UNCHANGED history
        \/ Continue(p, "check") /\ UNCHANGED history
        \/ Ok(p) /\ pc[p] = "retired"
    BY <1>6, <2>1 DEF RemoveDirectory, Err, Continue
  <2>4. Safe
    BY <1>1, <1>2, <2>1, <2>3 DEF Ok, Installing
  <2> QED
    BY <1>0, <2>1, <2>2, <2>3, <2>4 DEF Ok, Installing
<1>7. CASE Activate(p)
  <2>1. CASE UNCHANGED destination /\ (Err(p) \/ Continue(p, "giveback"))
    BY <1>1, <1>2, <1>7, <2>1 DEF Activate, Err, Continue, Installing
  <2>2. CASE destination' = [release |-> release[p], metadata |-> 0]
             /\ (Ok(p) \/ Continue(p, "retire"))
    <3>1. /\ destination' # Absent /\ destination'.release = release[p]
          /\ release[p] \in wanted /\ release[p] # Torn /\ pc[p] \in Installing
      BY <1>0, <1>7, <2>2, ReleaseTypes DEF Activate, Absent, Installing
    <3>2. InForce' = release[p]
      BY <3>1
    <3>3. Safe
      BY <1>1, <1>2, <2>2, <3>1 DEF Ok, Installing
    <3> QED
      BY <2>2, <3>1, <3>2, <3>3 DEF Ok, Continue
  <2> QED
    BY <1>7, <2>1, <2>2 DEF Activate
<1>8. CASE Load(p) \/ Crash(p)
  <2>1. UNCHANGED history
    BY <1>8 DEF Load, Crash, LoadRecord, LoadBytes, LoadKeys, LoadSessionTrust,
       EndSession, CreateDatastore, LoadMetadata, Err, Continue
  <2>2. CASE CreateDatastore(p) \/ LoadMetadata(p)
    <3>1. /\ exists(destination) /\ exists(destination')
          /\ destination'.release = destination.release /\ backup' = backup
      BY <1>0, <2>2, ReleaseTypes
      DEF CreateDatastore, LoadMetadata, HeldInv, Checking, Absent, TypeOK, Dir
    <3>2. ASSUME CreateDatastore(p) PROVE Safe
      <4>1. pc'[p] = "metadata"
        BY <3>2 DEF CreateDatastore, Continue, Goto, TypeOK
      <4> QED
        BY <3>1, <4>1 DEF Installing, Loading
    <3>3. Safe
      BY <1>1, <2>2, <3>2 DEF LoadMetadata
    <3> QED
      BY <2>1, <3>1, <3>3
  <2>3. CASE ~CreateDatastore(p) /\ ~LoadMetadata(p)
    <3>1. UNCHANGED disk /\ pc[p] # "idle"
      BY <1>8, <2>3 DEF Load, Crash, LoadRecord, LoadBytes, LoadKeys,
         LoadSessionTrust, EndSession, Busy, Installing, Checking, Loading
    <3>2. \/ Leave(p)
          \/ /\ pc[p] \in Loading /\ pc'[p] \in Loading \cup Checking
             /\ release' = release /\ loaded'[p].check = loaded[p].check
             /\ pc'[p] \in Checking => loaded[p].check
      BY <1>8, <2>3, <3>1 DEF Load, Crash, LoadRecord, LoadBytes, LoadKeys,
         LoadSessionTrust, EndSession, Err, Continue, Goto, call, MayStart, TypeOK,
         Loaded, Loading, Checking
    <3>3. Safe
      BY <1>1, <3>1, <3>2 DEF HeldInv, disk, Installing, Checking, Loading
    <3> QED
      BY <2>1, <3>1, <3>3 DEF disk
  <2> QED
    BY <2>2, <2>3
<1> QED
  <2>1. ASSUME NEW r \in Releases, NEW u \in BOOLEAN, Begin(p, r, u) PROVE FALSE
    BY <2>1 DEF Begin, MayStart, Busy, Installing, Checking, Loading
  <2> QED
    BY <1>3, <1>4, <1>5, <1>6, <1>7, <1>8, <2>1 DEF Step, Install

\* The operation under way finds what it relies on where it left it.
LEMMA HeldStep == ~Concurrent /\ SerialInv /\ [Next]_vars => HeldInv'
<1> SUFFICES ASSUME ~Concurrent, SerialInv, [Next]_vars PROVE HeldInv'
  OBVIOUS
<1> USE DEF SerialInv
<1>1. ASSUME NEW p \in Procs, Step(p), Busy(p) PROVE HeldInv'
  <2>1. \A q \in Procs \ {p} :
          pc'[q] = pc[q] /\ release'[q] = release[q] /\ loaded'[q] = loaded[q] /\ ~Busy(q)
    BY <1>1, StepFrame DEF AloneInv
  <2>2. \A q \in Procs \ {p} :
          /\ pc[q] \notin Installing \cup Checking
          /\ ~(pc[q] \in Loading /\ loaded[q].check)
    BY <2>1 DEF Busy
  <2>3. pc'[p] \in Installing => release'[p] \in wanted'
    BY <1>1, BusyStep DEF HeldInv, history
  <2> QED
    BY <1>1, <2>1, <2>2, <2>3, BusyStep DEF HeldInv, Installing
<1>2. ASSUME NEW p \in Procs, Step(p), ~Busy(p) PROVE HeldInv'
  <2>1. /\ UNCHANGED disk /\ wanted \subseteq wanted'
        /\ \A q \in Procs \ {p} :
             pc'[q] = pc[q] /\ release'[q] = release[q] /\ loaded'[q] = loaded[q]
    BY <1>2, IdleStep, StepFrame
  <2>2. /\ pc'[p] \notin Installing \cup Checking \/ pc'[p] = "recover"
        /\ pc'[p] \in Installing => release'[p] \in wanted'
        /\ pc'[p] \in Loading /\ loaded'[p].check => exists(destination)
    <3>1. ASSUME Leave(p) PROVE pc'[p] = "idle"
      BY <3>1 DEF Leave, Goto, TypeOK
    <3>2. CASE Install(p)
      <4>1. PICK r \in Releases, u \in BOOLEAN : Begin(p, r, u)
        BY <1>2, <3>2 DEF Install, recover_registration, Restore, RemoveFiles,
           RemoveDirectory, Check, RenameAway, Activate, GiveBack, Busy, Installing
      <4> QED
        BY <4>1 DEF Begin, Goto, TypeOK, Installing, Checking, Loading
    <3>3. CASE Load(p) \/ Crash(p)
      <4>1. \/ pc'[p] = "idle"
            \/ /\ pc'[p] \in Loading
               /\ loaded'[p].check => exists(destination)
        BY <1>2, <3>1, <3>3 DEF Load, Crash, LoadRecord, LoadBytes, LoadKeys,
           LoadSessionTrust, EndSession, CreateDatastore, LoadMetadata, Err, Continue,
           Whole, Busy, Goto, call, TypeOK, Loaded, Checking, Loading
      <4> QED
        BY <4>1 DEF Installing, Checking, Loading
    <3> QED
      BY <1>2, <3>2, <3>3 DEF Step
  <2>3. HeldInv'
    BY <2>1, <2>2 DEF HeldInv, exists, disk, Installing, Checking
  <2> QED
    BY <2>3
<1>3. CASE UNCHANGED vars
  BY <1>3 DEF vars, disk, call, history, HeldInv, exists
<1> QED
  BY <1>1, <1>2, <1>3 DEF Next, Step

\* The inductive invariant of operations that do not overlap.
LEMMA SerialHolds == ASSUME ~Concurrent PROVE Spec => []SerialInv
<1>1. Init => SerialInv
  BY ReleaseTypes
  DEF Init, SerialInv, TypeOK, AloneInv, HeldInv, Busy, PCs, Installing, Checking, Loading
<1>2. SerialInv /\ [Next]_vars => SerialInv'
  BY TypeStep, AloneStep, HeldStep DEF SerialInv
<1> QED
  BY <1>1, <1>2, PTL DEF Spec

\* Every step is a step of the slot or leaves it alone.
LEMMA SlotStep == SerialInv /\ [Next]_vars => [Slot!Next]_(Slot!vars)
<1> SUFFICES ASSUME SerialInv, [Next]_vars PROVE [Slot!Next]_(Slot!vars)
  OBVIOUS
<1> USE DEF SerialInv, Slot!vars, Slot!Next
<1>1. ASSUME NEW p \in Procs, Step(p), Busy(p) PROVE [Slot!Next]_(Slot!vars)
  BY <1>1, BusyStep DEF history, Slot!Replace, Slot!Confirm, Slot!Acknowledge
<1>2. ASSUME NEW p \in Procs, Step(p), ~Busy(p) PROVE [Slot!Next]_(Slot!vars)
  <2>1. UNCHANGED <<disk, accepted>> /\ wanted \subseteq wanted'
    BY <1>2, IdleStep
  <2>2. PICK r \in Releases : wanted' \subseteq wanted \cup {r}
    BY <1>2, IdleStep
  <2>3. InForce' = InForce
    BY <2>1 DEF InForce, Whole, exists, disk
  <2>4. wanted' = wanted \/ wanted' = wanted \cup {r}
    BY <2>1, <2>2
  <2> QED
    BY <2>1, <2>3, <2>4 DEF Slot!Ask
<1>3. CASE UNCHANGED vars
  BY <1>3 DEF vars, disk, history, InForce, Whole, exists
<1> QED
  BY <1>1, <1>2, <1>3 DEF Next, Step

\* Operations that do not overlap implement the slot: wherever one of them is
\* cut short, the registration in force is the old one or the new one.
THEOREM ReplacesAtomicallyHolds ==
  ASSUME ~Concurrent
  PROVE  Spec => ReplacesAtomically
<1>1. Init => Slot!Init
  BY DEF Init, Slot!Init, InForce, Whole, exists
<1> QED
  BY <1>1, SlotStep, SerialHolds, PTL DEF Spec, ReplacesAtomically, Slot!Spec

\* A registration that was installed survives every later replacement, and
\* every interruption of one.
THEOREM RegistrationSurvivesHolds ==
  ASSUME ~Concurrent
  PROVE  Spec => []RegistrationSurvives
<1>1. Init => RegistrationSurvives
  BY DEF Init, RegistrationSurvives
<1>2. SerialInv /\ SerialInv' /\ RegistrationSurvives /\ [Next]_vars => RegistrationSurvives'
  <2> SUFFICES ASSUME SerialInv, RegistrationSurvives, [Next]_vars
               PROVE  RegistrationSurvives'
    OBVIOUS
  <2>1. ASSUME NEW p \in Procs, Step(p), Busy(p) PROVE RegistrationSurvives'
    <3>1. wanted \subseteq Releases
      BY DEF SerialInv, TypeOK
    <3> QED
      BY <2>1, <3>1, BusyStep, ReleaseTypes DEF SerialInv, RegistrationSurvives, history
  <2>2. ASSUME NEW p \in Procs, Step(p), ~Busy(p) PROVE RegistrationSurvives'
    BY <2>2, IdleStep DEF SerialInv, RegistrationSurvives, InForce, Whole, exists, disk
  <2>3. CASE UNCHANGED vars
    BY <2>3 DEF vars, disk, history, RegistrationSurvives, InForce, Whole, exists
  <2> QED
    BY <2>1, <2>2, <2>3 DEF Next, Step
<1> QED
  BY <1>1, <1>2, SerialHolds, PTL DEF Spec

-----------------------------------------------------------------------------
(* The update metadata of the registration in force. *)

\* A step that lowers the metadata that an update check finds is the rename that
\* puts a new registration in place.
LEMMA MetadataStep ==
  ASSUME TypeOK, HeldInv, NEW p \in Procs, Step(p), MetadataInForce' < MetadataInForce
  PROVE  pc[p] = "activate" /\ InForce' = release[p]
<1> USE DEF MetadataInForce, Front
<1>0. /\ MetadataInForce \in Int
      /\ destination # Absent => destination \in Dir
      /\ pc[p] \in Installing => release[p] \in Releases
  BY RegistryAssumption DEF TypeOK, Dir, Absent, exists
<1>1. ASSUME NEW m \in Int PROVE ~(m < m)
  OBVIOUS
<1>2. MetadataInForce' # MetadataInForce
  <2> HIDE DEF MetadataInForce
  <2> QED
    BY <1>0, <1>1
<1>3. ~UNCHANGED disk
  BY <1>2 DEF disk, exists
<1>4. ASSUME UNCHANGED destination PROVE ~exists(destination)
  BY <1>2, <1>4 DEF exists
<1>5. ~Restore(p) /\ ~GiveBack(p) /\ ~RenameAway(p)
  BY <1>2, <1>3 DEF Restore, GiveBack, RenameAway, exists
<1>6. ~RemoveFiles(p) /\ ~RemoveDirectory(p)
  <2>1. pc[p] \in {"purge", "purged", "retire", "retired"} => exists(destination)
    BY <1>0, ReleaseTypes DEF HeldInv, exists, Absent, Installing
  <2> QED
    BY <1>4, <2>1 DEF RemoveFiles, RemoveDirectory
<1>7. ~CreateDatastore(p) /\ ~LoadMetadata(p)
  <2>1. ~CreateDatastore(p)
    BY <1>3 DEF CreateDatastore, HeldInv, Checking, disk
  <2>2. ASSUME LoadMetadata(p) PROVE FALSE
    <3>1. PICK v \in 1..MaxMetadata :
            v >= destination.metadata /\ destination' = [destination EXCEPT !.metadata = v]
      BY <2>2 DEF LoadMetadata
    <3>2. exists(destination) /\ destination \in Dir
      BY <1>0, <2>2 DEF LoadMetadata, exists
    <3>3. destination'.metadata = v /\ destination' \in Dir
      BY <3>1, <3>2, RegistryAssumption DEF Dir
    <3>4. MetadataInForce' = v /\ MetadataInForce = destination.metadata
      BY <3>2, <3>3, ReleaseTypes DEF exists
    <3>5. ~(v < destination.metadata)
      BY <3>1, <3>2, RegistryAssumption DEF Dir
    <3> QED
      BY <3>4, <3>5
  <2> QED
    BY <2>1, <2>2
<1>8. Activate(p)
  BY <1>3, <1>5, <1>6, <1>7
  DEF Step, Install, Load, Crash, Begin, recover_registration, Check, LoadRecord,
      LoadBytes, LoadKeys, LoadSessionTrust, EndSession
<1>9. ~UNCHANGED destination
  BY <1>3, <1>8 DEF Activate, disk
<1>10. destination' = [release |-> release[p], metadata |-> 0] /\ pc[p] = "activate"
  BY <1>8, <1>9 DEF Activate
<1>11. release[p] \in Releases
  BY <1>0, <1>10 DEF Installing
<1>12. destination'.release = release[p] /\ Whole(destination)'
  BY <1>10, <1>11, ReleaseTypes DEF Whole, exists, Absent
<1> QED
  BY <1>10, <1>12 DEF InForce, Whole

\* A replacement that is cut short anywhere, and the recovery from it, never
\* bring back older update metadata.
THEOREM MetadataKeptHolds ==
  ASSUME ~Concurrent
  PROVE  Spec => MetadataKept
<1> DEFINE Kept == MetadataInForce' < MetadataInForce =>
                     \E p \in Procs : pc[p] = "activate" /\ InForce' = release[p]
<1>1. SerialInv /\ [Next]_vars => [Kept]_disk
  <2> SUFFICES ASSUME SerialInv, [Next]_vars, ~UNCHANGED disk PROVE Kept
    OBVIOUS
  <2>1. \E p \in Procs : Step(p)
    BY DEF vars, Next, Step
  <2> QED
    BY <2>1, MetadataStep DEF SerialInv
<1> QED
  BY <1>1, SerialHolds, PTL DEF Spec, MetadataKept
=============================================================================

---------------------------- MODULE GameRegistry ----------------------------
(***************************************************************************)
(* One game registration on disk: crates/certael-agent/src/registry.rs as  *)
(* the command line and a protected launch use it, and the update metadata *)
(* that `update-registered-game` keeps inside the registration's directory *)
(* (crates/certael-agent/src/main.rs).                                     *)
(*                                                                         *)
(* A registration is a directory.  Replacing it takes two renames and the  *)
(* removal of a backup, without a lock, and can stop between any two of    *)
(* them.  A directory is filled before it gets its name, so its contents   *)
(* are identified by the release of the signed registration in it; each    *)
(* release binds its own trust store and update root.                      *)
(***************************************************************************)
EXTENDS Integers, FiniteSets

CONSTANTS
  MaxRelease,   \* bound: releases of the signed registration are 1..MaxRelease
  MaxMetadata,  \* bound: versions of the update metadata are 1..MaxMetadata
  Procs,        \* processes working on the registration
  Concurrent,   \* FALSE: installations and update checks do not overlap
  Checks        \* TRUE: update-registered-game is used

Releases == 1..MaxRelease
Torn == 0                          \* a directory without a whole registration
NoRelease == MaxRelease + 1

\* A directory: the release it holds and the newest update metadata in it.
Dir == [release : Releases \cup {Torn}, metadata : 0..MaxMetadata]
Absent == [release |-> NoRelease, metadata |-> 0]

ASSUME RegistryAssumption ==
  /\ MaxRelease \in Nat \ {0}
  /\ MaxMetadata \in Nat
  /\ Concurrent \in BOOLEAN
  /\ Checks \in BOOLEAN

VARIABLES
  destination,  \* the directory named after the registration ID
  backup,       \* the directory .backup-<ID>
  pc,           \* where each process is
  release,      \* the registration each process installs
  replace,      \* update (TRUE) or register (FALSE)
  loaded,       \* the claims each process read, and whether for an update check
  wanted,       \* history: registrations asked for since the last success
  accepted      \* history: the registration whose installation last succeeded

disk == <<destination, backup>>
call == <<release, replace>>
history == <<wanted, accepted>>
vars == <<disk, pc, call, loaded, history>>

Installing == {"recover", "restore", "purge", "purged", "check", "away",
               "activate", "giveback", "retire", "retired"}
Loading == {"bytes", "keys", "trust", "session"}
Checking == {"datastore", "metadata"}
PCs == {"idle"} \cup Installing \cup Loading \cup Checking

Nothing == [claims |-> NoRelease, check |-> FALSE]
Loaded == [claims : Releases \cup {NoRelease}, check : BOOLEAN]

-----------------------------------------------------------------------------
(* Helpers. *)

exists(d) == d # Absent
Whole(d) == exists(d) /\ d.release # Torn

\* The registration that loading, or recovering and then loading, yields.
InForce == IF exists(destination)
           THEN IF Whole(destination) THEN destination.release ELSE NoRelease
           ELSE IF Whole(backup) THEN backup.release ELSE NoRelease

Goto(p, l) == pc' = [pc EXCEPT ![p] = l]

\* An operation that changes the registration's directory is under way.
Busy(q) == pc[q] \in Installing \cup Checking \/ (pc[q] \in Loading /\ loaded[q].check)
MayStart(p) == pc[p] = "idle" /\ (Concurrent \/ \A q \in Procs : ~Busy(q))

\* Leaves with an outcome; the locals of the call are gone.
Leave(p) ==
  /\ Goto(p, "idle")
  /\ release' = [release EXCEPT ![p] = NoRelease]
  /\ replace' = [replace EXCEPT ![p] = FALSE]
  /\ loaded' = [loaded EXCEPT ![p] = Nothing]

Err(p) == Leave(p) /\ UNCHANGED history

\* The installation reports success.
Ok(p) == /\ Leave(p)
         /\ wanted' = {} /\ accepted' = release[p]

\* Continues at l within the same call.
Continue(p, l) == Goto(p, l) /\ UNCHANGED <<call, loaded, history>>

-----------------------------------------------------------------------------
(* install_registration: register and update. *)

\* The signed registration, its trust material and the game were verified.
Begin(p, r, update) ==
  /\ MayStart(p)
  /\ release' = [release EXCEPT ![p] = r]
  /\ replace' = [replace EXCEPT ![p] = update]
  /\ wanted' = wanted \cup {r}
  /\ Goto(p, "recover")
  /\ UNCHANGED <<disk, loaded, accepted>>

\* Mutant of recover_registration: the backup is taken back whenever it is there.
RecoverPrefersBackup(p) ==
  /\ pc[p] = "recover"
  /\ Continue(p, IF exists(backup) THEN "purge" ELSE "check")
  /\ destination' = IF exists(backup) THEN backup ELSE destination
  /\ UNCHANGED backup

\* recover_registration looks at both names once.
recover_registration(p) ==
  /\ pc[p] = "recover"
  /\ Continue(p, IF ~exists(backup) THEN "check"
                 ELSE IF exists(destination) THEN "purge" ELSE "restore")
  /\ UNCHANGED disk

\* rename(backup, destination); it fails on a directory that is not empty.
Restore(p) ==
  /\ pc[p] = "restore"
  /\ \/ /\ exists(backup) /\ ~exists(destination)
        /\ destination' = backup /\ backup' = Absent
        /\ Continue(p, "check")
     \/ /\ ~exists(backup) \/ exists(destination)
        /\ Err(p) /\ UNCHANGED disk

\* remove_dir_all(backup): first the files in it ...
RemoveFiles(p) ==
  /\ pc[p] \in {"purge", "retire"}
  /\ \/ /\ exists(backup)
        /\ backup' = [release |-> Torn, metadata |-> 0]
        /\ Continue(p, IF pc[p] = "purge" THEN "purged" ELSE "retired")
     \/ ~exists(backup) /\ Err(p) /\ UNCHANGED backup
  /\ UNCHANGED destination

\* ... then the directory, unless somebody put another one there.
RemoveDirectory(p) ==
  /\ pc[p] \in {"purged", "retired"}
  /\ \/ /\ backup.release = Torn
        /\ backup' = Absent
        /\ IF pc[p] = "purged" THEN Continue(p, "check") ELSE Ok(p)
     \/ /\ backup.release # Torn
        /\ Err(p) /\ UNCHANGED backup
  /\ UNCHANGED destination

\* The registration must exist for update and must not for register; its
\* contents are then written to a directory of the process's own.
Check(p) ==
  /\ pc[p] = "check"
  /\ \/ /\ exists(destination) = replace[p]
        /\ Continue(p, IF replace[p] THEN "away" ELSE "activate")
     \/ exists(destination) # replace[p] /\ Err(p)
  /\ UNCHANGED disk

\* Mutant of RenameAway: the old directory is removed instead of kept aside.
RenameAwayRemoves(p) ==
  /\ pc[p] = "away"
  /\ destination' = Absent /\ UNCHANGED backup
  /\ Continue(p, "activate")

\* rename(destination, backup).
RenameAway(p) ==
  /\ pc[p] = "away"
  /\ \/ /\ exists(destination) /\ ~exists(backup)
        /\ backup' = destination /\ destination' = Absent
        /\ Continue(p, "activate")
     \/ /\ ~exists(destination) \/ exists(backup)
        /\ Err(p) /\ UNCHANGED disk

\* rename(temporary, destination); any other error of it is a failure, too.
Activate(p) ==
  /\ pc[p] = "activate"
  /\ \/ /\ ~exists(destination)
        /\ destination' = [release |-> release[p], metadata |-> 0]
        /\ IF replace[p] THEN Continue(p, "retire") ELSE Ok(p)
     \/ /\ IF replace[p] THEN Continue(p, "giveback") ELSE Err(p)
        /\ UNCHANGED destination
  /\ UNCHANGED backup

\* The result of the rename that undoes RenameAway is ignored.
GiveBack(p) ==
  /\ pc[p] = "giveback"
  /\ \/ /\ exists(backup) /\ ~exists(destination)
        /\ destination' = backup /\ backup' = Absent
     \/ (~exists(backup) \/ exists(destination)) /\ UNCHANGED disk
  /\ Err(p)

\* The process dies, or an operation on its files fails, in between.
Crash(p) == pc[p] # "idle" /\ Err(p) /\ UNCHANGED disk

-----------------------------------------------------------------------------
(* load, and what its callers do with the paths it returns. *)

\* load: registration.json.
LoadRecord(p, check) ==
  /\ IF check THEN Checks /\ MayStart(p) ELSE pc[p] = "idle"
  /\ Whole(destination)
  /\ loaded' = [loaded EXCEPT ![p].claims = destination.release, ![p].check = check]
  /\ Goto(p, "bytes")
  /\ UNCHANGED <<disk, call, history>>

\* The trust store and update root must be the ones the claims bind.
LoadBytes(p) ==
  /\ pc[p] = "bytes"
  /\ \/ /\ Whole(destination) /\ destination.release = loaded[p].claims
        /\ Continue(p, "keys")
     \/ ~(Whole(destination) /\ destination.release = loaded[p].claims) /\ Err(p)
  /\ UNCHANGED disk

\* The signature is verified with a trust store that is read again; another
\* release's store may hold the same publisher key.
LoadKeys(p) ==
  /\ pc[p] = "keys"
  /\ \/ /\ Whole(destination)
        /\ Goto(p, IF loaded[p].check THEN "datastore" ELSE "trust")
        /\ UNCHANGED <<call, loaded, history>>
     \/ destination.release # loaded[p].claims /\ Err(p)
  /\ UNCHANGED disk

\* launch_with_root reads the trust store of the session by its path, without
\* comparing it again: it may be that of another release.
LoadSessionTrust(p) ==
  /\ pc[p] = "trust"
  /\ \/ /\ Whole(destination)
        /\ Goto(p, "session") /\ UNCHANGED <<call, loaded, history>>
     \/ ~Whole(destination) /\ Err(p)
  /\ UNCHANGED disk

\* Mutant of EndSession: what the session read is kept for the next one.
EndSessionKeeps(p) ==
  /\ pc[p] = "session"
  /\ Goto(p, "idle")
  /\ UNCHANGED <<disk, call, loaded, history>>

\* The session ends, and what it had read with it.
EndSession(p) ==
  /\ pc[p] = "session"
  /\ Err(p) /\ UNCHANGED disk

\* update-registered-game: create_dir_all(destination/update/metadata) makes
\* every directory on the way that is missing.
CreateDatastore(p) ==
  /\ pc[p] = "datastore"
  /\ destination' = IF exists(destination) THEN destination
                    ELSE [release |-> Torn, metadata |-> 0]
  /\ Continue(p, "metadata")
  /\ UNCHANGED backup

\* The repository's metadata is refused when it is older than the stored one,
\* and stored otherwise.
LoadMetadata(p) ==
  /\ pc[p] = "metadata" /\ exists(destination)
  /\ \E v \in 1..MaxMetadata :
       /\ v >= destination.metadata
       /\ destination' = [destination EXCEPT !.metadata = v]
  /\ Leave(p)
  /\ UNCHANGED <<backup, history>>

-----------------------------------------------------------------------------
(* The specification. *)

Init ==
  /\ destination = Absent /\ backup = Absent
  /\ pc = [p \in Procs |-> "idle"]
  /\ release = [p \in Procs |-> NoRelease]
  /\ replace = [p \in Procs |-> FALSE]
  /\ loaded = [p \in Procs |-> Nothing]
  /\ wanted = {} /\ accepted = NoRelease

Install(p) ==
  \/ \E r \in Releases, update \in BOOLEAN : Begin(p, r, update)
  \/ recover_registration(p) \/ Restore(p)
  \/ RemoveFiles(p) \/ RemoveDirectory(p)
  \/ Check(p) \/ RenameAway(p) \/ Activate(p) \/ GiveBack(p)

Load(p) ==
  \/ \E check \in BOOLEAN : LoadRecord(p, check)
  \/ LoadBytes(p) \/ LoadKeys(p) \/ LoadSessionTrust(p) \/ EndSession(p)
  \/ CreateDatastore(p) \/ LoadMetadata(p)

Next == \E p \in Procs : Install(p) \/ Load(p) \/ Crash(p)

Spec == Init /\ [][Next]_vars

-----------------------------------------------------------------------------
(* Properties. *)

TypeOK ==
  /\ destination \in Dir \cup {Absent} /\ backup \in Dir \cup {Absent}
  /\ pc \in [Procs -> PCs]
  /\ release \in [Procs -> Releases \cup {NoRelease}]
  /\ replace \in [Procs -> BOOLEAN]
  /\ loaded \in [Procs -> Loaded]
  /\ \A p \in Procs : pc[p] \in Installing <=> release[p] # NoRelease
  /\ \A p \in Procs : pc[p] \in Loading \cup Checking <=> loaded[p] # Nothing
  /\ wanted \subseteq Releases
  /\ accepted \in Releases \cup {NoRelease}

\* INSTALLING.md: "Interrupted replacement is recovered on the next
\* registration operation": once a registration was installed, a whole one is
\* in place at every moment, or waits in the backup for a destination that is
\* free; wherever a replacement, or the recovery of one, is cut short.
RegistrationSurvives == accepted # NoRelease => InForce # NoRelease

\* INSTALLING.md: "install the publisher's newly signed replacement
\* atomically": an installation that does not overlap another takes effect in
\* one step, one that fails or dies leaves the old or the new registration and
\* never an older one, and success is reported for the one in force.
Slot == INSTANCE RegistrationSlot
          WITH current <- InForce, wanted <- wanted, accepted <- accepted
ReplacesAtomically == Slot!Spec

\* The update metadata that an update check finds: rollback of the repository
\* is detected by it, and it is kept inside the registration's directory.
Front == IF exists(destination) THEN destination ELSE backup
MetadataInForce == Front.metadata

\* A replacement that fails or dies at any point, and the recovery from it, keep
\* the update metadata of the registration in force; only a new registration
\* that takes effect starts over.
MetadataKept ==
  [][MetadataInForce' < MetadataInForce =>
       \E p \in Procs : pc[p] = "activate" /\ InForce' = release[p]]_disk
=============================================================================

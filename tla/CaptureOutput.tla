---------------------------- MODULE CaptureOutput ----------------------------
(***************************************************************************)
(* The output transaction of a capture                                     *)
(* (publish_output_directory_with_operations in process_capture_output.rs) *)
(* for several captures that publish to the same directory name: the       *)
(* directory is created exclusively, filled, verified, and made durable    *)
(* from the files up to the parent; any failure unlinks what is there,     *)
(* removes the directory and makes the removal durable.                    *)
(*                                                                         *)
(* The file system keeps a volatile state and, for what has been fsynced,  *)
(* a durable one.  A crash of the machine keeps everything durable and     *)
(* any part of the rest.                                                   *)
(***************************************************************************)
EXTENDS Naturals, FiniteSets

CONSTANTS Publishers,   \* the capturing processes
          NFiles        \* number of output files (4 in the code)

ASSUME OutputAssumption == NFiles \in Nat \ {0} /\ IsFiniteSet(Publishers)

Files == 1 .. NFiles
Nobody == "nobody"
ASSUME NobodyIsNotAPublisher == Nobody \notin Publishers

VARIABLES
    dir,      \* whose directory the output name refers to
    onDisk,   \* whose directory it is known to refer to after a crash
    file,     \* file[p][f]: "absent", "partial" or "full" in p's directory
    synced,   \* synced[p]: files whose content is durable
    listed,   \* p's directory entries are durable
    pc,       \* control state of each publisher
    at,       \* the file a publisher is working on
    err,      \* the error that started a rollback
    clean,    \* cleanup_ok of the rollback
    result,
    crashed

vars == <<dir, onDisk, file, synced, listed, pc, at, err, clean, result, crashed>>
disk == <<dir, onDisk, file, synced, listed>>

Init ==
    /\ dir = Nobody /\ onDisk = Nobody /\ crashed = FALSE
    /\ file = [p \in Publishers |-> [f \in Files |-> "absent"]]
    /\ synced = [p \in Publishers |-> {}]
    /\ listed = [p \in Publishers |-> FALSE]
    /\ pc = [p \in Publishers |-> "mkdir"]
    /\ at = [p \in Publishers |-> 1]
    /\ err = [p \in Publishers |-> "none"]
    /\ clean = [p \in Publishers |-> TRUE]
    /\ result = [p \in Publishers |-> "none"]

At(p, here) == ~crashed /\ pc[p] = here
Goto(p, next) == pc' = [pc EXCEPT ![p] = next]
Move(p, here, next) == At(p, here) /\ Goto(p, next)
                       /\ UNCHANGED <<err, clean, result, crashed>>
Finish(p, outcome) ==
    /\ Goto(p, "done") /\ result' = [result EXCEPT ![p] = outcome]
    /\ UNCHANGED <<err, clean, crashed>>

(* The closure returned an error: the rollback begins with the first file. *)
Fail(p, here, code) ==
    /\ At(p, here) /\ Goto(p, "unlink")
    /\ err' = [err EXCEPT ![p] = code] /\ at' = [at EXCEPT ![p] = 1]
    /\ UNCHANGED <<clean, result, crashed>>

-----------------------------------------------------------------------------
(* mkdirat is exclusive: an existing name is an error and is left alone.   *)

Mkdir(p) ==
    /\ dir = Nobody /\ Move(p, "mkdir", "open") /\ dir' = p
    /\ UNCHANGED <<onDisk, file, synced, listed, at>>

MkdirRefused(p) ==
    /\ At(p, "mkdir")
    /\ Finish(p, IF dir = Nobody THEN "OutputPublish" ELSE "OutputExists")
    /\ UNCHANGED <<disk, at>>

OpenDirectory(p) == Move(p, "open", "create") /\ UNCHANGED <<disk, at>>

(* The new directory cannot be opened: no file can be in it. *)
OpenFails(p) ==
    /\ At(p, "open")
    /\ \/ /\ dir' = Nobody /\ onDisk' = Nobody /\ Finish(p, "OutputPublish")
       \/ /\ dir' \in {dir, Nobody} /\ UNCHANGED onDisk
          /\ Finish(p, "CaptureCleanup")
    /\ UNCHANGED <<file, synced, listed, at>>

CreateFile(p) ==
    /\ Move(p, "create", "write")
    /\ file' = [file EXCEPT ![p][at[p]] = "partial"]
    /\ UNCHANGED <<dir, onDisk, synced, listed, at>>

WriteFile(p) ==
    /\ Move(p, "write", "sync")
    /\ file' = [file EXCEPT ![p][at[p]] = "full"]
    /\ UNCHANGED <<dir, onDisk, synced, listed, at>>

(* Variant: the file is closed without fsync. *)
SyncFileSkipped(p) ==
    /\ Move(p, "sync", IF at[p] = NFiles THEN "revalidate" ELSE "create")
    /\ at' = [at EXCEPT ![p] = IF @ = NFiles THEN 1 ELSE @ + 1]
    /\ UNCHANGED disk

SyncFile(p) ==
    /\ Move(p, "sync", IF at[p] = NFiles THEN "revalidate" ELSE "create")
    /\ synced' = [synced EXCEPT ![p] = @ \cup {at[p]}]
    /\ at' = [at EXCEPT ![p] = IF @ = NFiles THEN 1 ELSE @ + 1]
    /\ UNCHANGED <<dir, onDisk, file, listed>>

(* The directory, its entries and every file are read again by name. *)
Revalidate(p) ==
    /\ dir = p /\ \A f \in Files : file[p][f] = "full"
    /\ Move(p, "revalidate", "sync_directory") /\ UNCHANGED <<disk, at>>

SyncDirectory(p) ==
    /\ Move(p, "sync_directory", "sync_parent")
    /\ listed' = [listed EXCEPT ![p] = TRUE]
    /\ UNCHANGED <<dir, onDisk, file, synced, at>>

SyncParent(p) ==
    /\ At(p, "sync_parent") /\ Finish(p, "Ok")
    /\ onDisk' = dir
    /\ UNCHANGED <<dir, file, synced, listed, at>>

StepFails(p) ==
    /\ \/ \E here \in {"create", "write", "sync", "revalidate"} :
            Fail(p, here, "OutputPublish")
       \/ Fail(p, "sync_directory", "DurabilityUncertain")
       \/ Fail(p, "sync_parent", "DurabilityUncertain")
    /\ UNCHANGED disk

-----------------------------------------------------------------------------
(* The rollback: every name is unlinked (a missing one is fine), then the  *)
(* directory is removed, then the parent is synced; failures are recorded  *)
(* and the rest is still attempted.                                        *)

Spoil(p) == clean' = [clean EXCEPT ![p] = FALSE]
Keep == UNCHANGED clean

Unlink(p) ==
    /\ At(p, "unlink")
    /\ \/ Keep /\ file' = [file EXCEPT ![p][at[p]] = "absent"]
       \/ Spoil(p) /\ UNCHANGED file
    /\ Goto(p, IF at[p] = NFiles THEN "rmdir" ELSE "unlink")
    /\ at' = [at EXCEPT ![p] = IF @ = NFiles THEN @ ELSE @ + 1]
    /\ UNCHANGED <<dir, onDisk, synced, listed, err, result, crashed>>

RemoveDirectory(p) ==
    /\ At(p, "rmdir") /\ Goto(p, "sync_rollback")
    /\ \/ Keep /\ dir' = Nobody /\ \A f \in Files : file[p][f] = "absent"
       \/ Spoil(p) /\ UNCHANGED dir
    /\ UNCHANGED <<onDisk, file, synced, listed, at, err, result, crashed>>

(* Variant: the removal is not made durable. *)
SyncRollbackSkipped(p) ==
    /\ At(p, "sync_rollback")
    /\ Finish(p, IF clean[p] THEN err[p] ELSE "CaptureCleanup")
    /\ UNCHANGED <<disk, at>>

SyncRollback(p) ==
    /\ At(p, "sync_rollback")
    /\ \/ /\ onDisk' = dir
          /\ Finish(p, IF clean[p] THEN err[p] ELSE "CaptureCleanup")
       \/ UNCHANGED onDisk /\ Finish(p, "CaptureCleanup")
    /\ UNCHANGED <<dir, file, synced, listed, at>>

-----------------------------------------------------------------------------
(* The file system may make the name durable of its own accord.            *)
Writeback ==
    /\ ~crashed /\ onDisk # dir /\ onDisk' = dir
    /\ UNCHANGED <<dir, file, synced, listed, pc, at, err, clean, result,
                   crashed>>

(* A crash of the machine.  Unsynced content may be torn or lost, unsynced *)
(* entries may be missing, and the name may be as it was last synced.      *)

Survives(p, f) ==
    (IF listed[p] THEN {} ELSE {"absent"}) \cup {file[p][f]}
      \cup (IF file[p][f] = "full" /\ f \notin synced[p] THEN {"partial"} ELSE {})

Crash ==
    /\ ~crashed /\ crashed' = TRUE
    /\ dir' \in {dir, onDisk} /\ onDisk' = dir'
    /\ \/ dir' = Nobody /\ UNCHANGED file
       \/ /\ dir' # Nobody
          /\ \E left \in [Files -> {"absent", "partial", "full"}] :
                /\ \A f \in Files : left[f] \in Survives(dir', f)
                /\ file' = [file EXCEPT ![dir'] = left]
    /\ UNCHANGED <<synced, listed, pc, at, err, clean, result>>

Step(p) ==
    \/ Mkdir(p) \/ MkdirRefused(p) \/ OpenDirectory(p) \/ OpenFails(p)
    \/ CreateFile(p) \/ WriteFile(p) \/ SyncFile(p) \/ Revalidate(p)
    \/ SyncDirectory(p) \/ SyncParent(p) \/ StepFails(p)
    \/ Unlink(p) \/ RemoveDirectory(p) \/ SyncRollback(p)

Done == UNCHANGED vars /\ (crashed \/ \A p \in Publishers : pc[p] = "done")

Next == (\E p \in Publishers : Step(p)) \/ Writeback \/ Crash \/ Done

Spec == Init /\ [][Next]_vars

-----------------------------------------------------------------------------
(* Properties. *)

(* A capture that was reported as published is there, whole, for good: no  *)
(* other capture's mkdir or rollback removes it and no crash tears it.     *)
AcceptedIsDurable ==
    \A p \in Publishers : result[p] = "Ok" =>
        dir = p /\ \A f \in Files : file[p][f] = "full"

(* A typed failure other than capture-cleanup leaves no output directory,  *)
(* and a crash does not bring it back.                                     *)
FailureLeavesNothing ==
    \A p \in Publishers :
        result[p] \in {"OutputPublish", "DurabilityUncertain", "OutputExists"}
            => dir # p
=============================================================================

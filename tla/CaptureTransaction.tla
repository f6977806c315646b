------------------------- MODULE CaptureTransaction -------------------------
(***************************************************************************)
(* The capture transaction (capture and HeldWorkspace in                   *)
(* process_capture_platform.rs): the input files are opened, snapshotted   *)
(* and hashed; the workspace is made read-only; the held executable runs;  *)
(* the workspace is checked and restored; every input is verified again;   *)
(* only then is the receipt published.                                     *)
(*                                                                         *)
(* The captured program runs under the same user, and so may anything      *)
(* else: input files and the workspace can change between any two steps.   *)
(* A file's metadata snapshot is its ctime, which no change leaves alone;  *)
(* its digest is its content.  The execution itself is the subject of      *)
(* CaptureSupervision and is represented by its verdict; the publication   *)
(* is CaptureOutput, and CaptureRun composes the two.                      *)
(***************************************************************************)
EXTENDS Integers

CONSTANTS Inputs,       \* the held input files
          Executable,   \* the one that is executed
          MaxChanges    \* bound on the changes others make to one input

VARIABLES
    content,   \* content[i]: "pinned" or "other", as stored now
    ctime,     \* ctime[i]: changes made to input i so far
    snapshot,  \* snapshot[i]: the ctime recorded at open, or Unread
    digest,    \* digest[i]: the content hashed at open, or "none"
    executed,  \* the content of the executable when it was executed
    mode,      \* permissions of the workspace: "0700" or "0500"
    empty,     \* the workspace has no entry
    named,     \* its path still leads to it
    guard,     \* HeldWorkspace exists: whatever returns now drops it
    found,     \* the mode that open read, or "none"
    step,      \* control state of the transaction
    todo,      \* inputs the present loop has still to visit
    verdict,   \* operation_result of execute_read_only
    postcheck, \* its postcheck
    broken,    \* the destructor's fchmod has failed
    result

vars == <<content, ctime, snapshot, digest, executed, mode, empty, named, guard,
          found, step, todo, verdict, postcheck, broken, result>>
world == <<content, ctime>>
directory == <<empty, named>>
opened == <<guard, found>>
held == <<snapshot, digest>>
local == <<verdict, postcheck, executed>>

Unread == -1
Verdicts == {"Ok", "CaptureCleanup", "CaptureTimeout"}
Answers == {"Ok", "UnsupportedInputProfile", "InputChanged"}

(* The inputs are the pinned ones and the workspace is as asked for; what  *)
(* capture finds otherwise has been changed before it looks.               *)
Init ==
    /\ content = [i \in Inputs |-> "pinned"]
    /\ ctime = [i \in Inputs |-> 0]
    /\ snapshot = [i \in Inputs |-> Unread]
    /\ digest = [i \in Inputs |-> "none"]
    /\ executed = "none" /\ empty = TRUE /\ named = TRUE
    /\ mode = "0700" /\ guard = FALSE /\ found = "none"
    /\ step = "open" /\ todo = Inputs
    /\ verdict = "none" /\ postcheck = "none" /\ broken = FALSE
    /\ result = "none"

Goto(next) == step' = next /\ UNCHANGED result

(* A return, early or not, drops the HeldWorkspace if there is one yet.    *)
Leave(outcome) ==
    /\ result' = outcome
    /\ step' = IF guard THEN "drop" ELSE "done"

(* HeldWorkspace::drop puts 0700 back, or its fchmod fails unheard.        *)
Drop ==
    /\ step = "drop" /\ Goto("done") /\ guard' = FALSE
    /\ \/ mode' = "0700" /\ UNCHANGED broken
       \/ broken' = TRUE /\ UNCHANGED mode
    /\ UNCHANGED <<world, held, directory, found, todo, local>>

-----------------------------------------------------------------------------
(* HeldFile::open: the snapshot first, then the digest, which must be the  *)
(* pinned one.                                                             *)

Snapshot(i) ==
    /\ step = "open" /\ i \in todo /\ snapshot[i] = Unread
    /\ snapshot' = [snapshot EXCEPT ![i] = ctime[i]]
    /\ UNCHANGED <<world, digest, mode, directory, opened, step, todo, local, broken, result>>

DigestMatches(i) ==
    /\ step = "open" /\ i \in todo /\ snapshot[i] # Unread
    /\ content[i] = "pinned"
    /\ digest' = [digest EXCEPT ![i] = content[i]]
    /\ todo' = todo \ {i}
    /\ Goto(IF todo' = {} THEN "workspace" ELSE "open")
    /\ UNCHANGED <<world, snapshot, mode, directory, opened, local, broken>>

DigestDiffers(i) ==
    /\ step = "open" /\ i \in todo /\ snapshot[i] # Unread
    /\ content[i] # "pinned"
    /\ Leave("ReceiptMismatch")
    /\ UNCHANGED <<world, held, mode, directory, opened, todo, local, broken>>

-----------------------------------------------------------------------------
(* HeldWorkspace::open and verify_empty_mode *)

(* verify_empty_mode answers e: the held directory has the mode and no     *)
(* entry, and the path walked again leads to the same inode.  (A path that *)
(* leads nowhere, or over a symbolic link, has a code of its own; here it  *)
(* is InputChanged too.)                                                   *)
VerifyEmptyMode(m, e) ==
    \/ e = "UnsupportedInputProfile" /\ (mode # m \/ ~empty)
    \/ e = "InputChanged" /\ mode = m /\ empty /\ ~named
    \/ e = "Ok" /\ mode = m /\ empty /\ named

(* Variant: the HeldWorkspace is built before its mode is looked at. *)
OpenWorkspaceEarly ==
    /\ step = "workspace" /\ found' = mode /\ guard' = TRUE
    /\ IF mode = "0700" THEN Goto("opened")
       ELSE step' = "drop" /\ result' = "UnsupportedInputProfile"
    /\ UNCHANGED <<world, held, mode, directory, todo, local, broken>>

(* The walk and the metadata of what it leads to: a workspace refused here *)
(* has no HeldWorkspace, and no destructor.                                *)
OpenWorkspace ==
    /\ step = "workspace"
    /\ \/ Leave("InputOpen") /\ UNCHANGED opened
       \/ /\ mode # "0700" /\ found' = mode
          /\ Leave("UnsupportedInputProfile") /\ UNCHANGED guard
       \/ /\ mode = "0700" /\ found' = mode
          /\ guard' = TRUE /\ Goto("opened")
    /\ UNCHANGED <<world, held, mode, directory, todo, local, broken>>

(* open's own verification, and capture's second descriptor.               *)
VerifyOpened ==
    /\ step = "opened"
    /\ \E e \in Answers : /\ VerifyEmptyMode("0700", e)
                           /\ \/ e # "Ok" /\ Leave(e)
                              \/ e = "Ok" /\ (Goto("protect") \/ Leave("InputOpen"))
    /\ UNCHANGED <<world, held, mode, directory, opened, todo, local, broken>>

-----------------------------------------------------------------------------
(* HeldWorkspace::execute_read_only *)

Protect ==
    /\ step = "protect"
    /\ \/ mode' = "0500" /\ Goto("precheck")
       \/ Leave("CaptureCleanup") /\ UNCHANGED mode
    /\ UNCHANGED <<world, held, directory, opened, todo, local, broken>>

Precheck ==
    /\ step = "precheck"
    /\ \/ VerifyEmptyMode("0500", "Ok") /\ Goto("execute") /\ UNCHANGED verdict
       \/ /\ ~VerifyEmptyMode("0500", "Ok")
          /\ Goto("postcheck") /\ verdict' = "CaptureCleanup"
    /\ UNCHANGED <<world, held, mode, directory, opened, todo, postcheck, executed, broken>>

(* execute_held: fexecve of the held descriptor, then its verdict. *)
Execute ==
    /\ step = "execute" /\ executed' = content[Executable]
    /\ verdict' \in Verdicts /\ Goto("postcheck")
    /\ UNCHANGED <<world, held, mode, directory, opened, todo, postcheck, broken>>

Postcheck ==
    /\ step = "postcheck" /\ Goto("restore")
    /\ \E e \in Answers : VerifyEmptyMode("0500", e) /\ postcheck' = e
    /\ UNCHANGED <<world, held, mode, directory, opened, todo, verdict, executed, broken>>

Restore ==
    /\ step = "restore"
    /\ \/ mode' = "0700" /\ Goto("recheck")
       \/ Leave("CaptureCleanup") /\ UNCHANGED mode
    /\ UNCHANGED <<world, held, directory, opened, todo, local, broken>>

(* finish_workspace_transaction, when the restoration succeeded. *)
FinishWorkspace == IF postcheck # "Ok" THEN postcheck ELSE verdict

Recheck ==
    /\ step = "recheck"
    /\ \/ ~VerifyEmptyMode("0700", "Ok") /\ Leave("CaptureCleanup")
       \/ /\ VerifyEmptyMode("0700", "Ok")
          /\ IF FinishWorkspace = "Ok" THEN Goto("verify") ELSE Leave(FinishWorkspace)
    /\ todo' = Inputs
    /\ UNCHANGED <<world, held, mode, directory, opened, local, broken>>

-----------------------------------------------------------------------------
(* HeldFile::verify for every input, then the workspace once more, then    *)
(* publication.                                                            *)

(* Variant: the content is compared, the metadata is not. *)
UnchangedDigestOnly(i) == content[i] = digest[i]

Unchanged(i) == ctime[i] = snapshot[i] /\ content[i] = digest[i]

Verify(i) ==
    /\ step = "verify" /\ i \in todo
    /\ \/ /\ Unchanged(i) /\ todo' = todo \ {i}
          /\ Goto(IF todo' = {} THEN "receipt" ELSE "verify")
       \/ ~Unchanged(i) /\ Leave("InputChanged") /\ UNCHANGED todo
    /\ UNCHANGED <<world, held, mode, directory, opened, local, broken>>

(* The workspace once more, then the receipt, which may be refused: by the *)
(* archive's member or by a termination that no receipt can carry.         *)
Receipt ==
    /\ step = "receipt"
    /\ \E e \in Answers :
          /\ VerifyEmptyMode("0700", e)
          /\ \/ e # "Ok" /\ Leave(e)
             \/ /\ e = "Ok"
                /\ Goto("output") \/ Leave("ReceiptMismatch")
    /\ UNCHANGED <<world, held, mode, directory, opened, todo, local, broken>>

(* publish_output_directory has returned. *)
Publish(outcome) ==
    /\ step = "output" /\ Leave(outcome)
    /\ UNCHANGED <<world, held, mode, directory, opened, todo, local, broken>>

-----------------------------------------------------------------------------
(* Whatever else runs as this user (external).  A change of an input bumps *)
(* its ctime whatever it does to the content.  Changes that no later step  *)
(* could read are left out: of the workspace while the inputs are opened   *)
(* (they can still come before it is), of inputs, entries and path once    *)
(* the receipt is made.                                                    *)

ChangeInput(i) ==
    /\ step \notin {"output", "drop", "done"} /\ ctime[i] < MaxChanges
    /\ content' = [content EXCEPT ![i] = IF @ = "pinned" THEN "other" ELSE "pinned"]
    /\ ctime' = [ctime EXCEPT ![i] = @ + 1]
    /\ UNCHANGED <<held, local, mode, directory, opened, step, todo, broken, result>>

(* Entries come and go, the mode is set, the path is moved away and back.  *)
ChangeWorkspace ==
    /\ step \notin {"open", "done"}
    /\ \/ /\ step \notin {"output", "drop"} /\ UNCHANGED mode
          /\ \/ empty' = ~empty /\ UNCHANGED named
             \/ named' = ~named /\ guard /\ UNCHANGED empty
       \/ mode' \in {"0500", "0700"} \ {mode} /\ UNCHANGED <<empty, named>>
    /\ UNCHANGED <<world, held, local, opened, step, todo, broken, result>>

Advance ==
    \/ \E i \in Inputs : \/ Snapshot(i) \/ DigestMatches(i)
                         \/ DigestDiffers(i) \/ Verify(i) \/ ChangeInput(i)
    \/ OpenWorkspace \/ VerifyOpened \/ Protect \/ Precheck \/ Execute \/ Postcheck
    \/ Restore \/ Recheck \/ Receipt \/ Drop \/ ChangeWorkspace
=============================================================================

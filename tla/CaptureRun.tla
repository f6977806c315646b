----------------------------- MODULE CaptureRun -----------------------------
(***************************************************************************)
(* A whole capture: CaptureTransaction up to the receipt, then the output  *)
(* transaction of CaptureOutput, while other captures publish to the same  *)
(* name, other processes change the inputs and the workspace, and the      *)
(* machine may crash.                                                      *)
(***************************************************************************)
EXTENDS CaptureOutput

CONSTANTS This,         \* the capture whose transaction is modelled in full
          Inputs, Executable, MaxChanges

ASSUME RunAssumption ==
    This \in Publishers /\ Executable \in Inputs /\ MaxChanges \in Nat

VARIABLES content, ctime, snapshot, digest, executed, mode, empty, named, guard,
          found, step, todo, verdict, postcheck, broken,
          outcome       \* what capture returned

Capture == INSTANCE CaptureTransaction WITH result <- outcome

captureVars == <<content, ctime, snapshot, digest, executed, mode, empty, named, guard,
                 found, step, todo, verdict, postcheck, broken, outcome>>
runVars == <<vars, captureVars>>

RunInit == Init /\ Capture!Init

(* capture calls publish_output_directory last, and returns what it does.  *)
RunStep(p) == Step(p) /\ (p = This => step = "output") /\ UNCHANGED captureVars
Return == /\ ~crashed /\ result[This] # "none"
          /\ Capture!Publish(result[This]) /\ UNCHANGED vars
Prepare == ~crashed /\ Capture!Advance /\ UNCHANGED vars
Environment == (Writeback \/ Crash) /\ UNCHANGED captureVars

RunDone ==
    /\ \/ crashed
       \/ step = "done" /\ \A p \in Publishers \ {This} : pc[p] = "done"
    /\ UNCHANGED runVars

RunNext ==
    \/ Prepare \/ Return \/ Environment \/ RunDone
    \/ \E p \in Publishers : RunStep(p)

RunSpec == RunInit /\ [][RunNext]_runVars

-----------------------------------------------------------------------------
(* Properties. *)

(* What is published was measured: although the inputs may be changed at   *)
(* any moment, even changed and changed back, a directory that a capture   *)
(* publishes names the content that was really executed, after an          *)
(* execution that succeeded in a workspace that stayed empty.              *)
PublishedIsAttested ==
    result[This] = "Ok" =>
        /\ executed = "pinned" /\ executed = digest[Executable]
        /\ postcheck = "Ok" /\ verdict = "Ok"

(* The workspace is handed back as it was found: one that                  *)
(* HeldWorkspace::open accepted is 0700 when capture has returned, from    *)
(* whichever of its early returns and whoever set the mode in between,     *)
(* unless the destructor's own fchmod failed; one that open refused keeps  *)
(* the mode it was refused for, because no HeldWorkspace existed yet whose *)
(* destructor would have set it.                                           *)
WorkspaceHandedBack ==
    step = "done" /\ ~broken /\ found # "none" => mode = found
=============================================================================

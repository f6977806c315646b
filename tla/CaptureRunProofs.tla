-------------------------- MODULE CaptureRunProofs --------------------------
(***************************************************************************)
(* Proofs about the output transaction of a capture and about a whole      *)
(* capture, for any number of rivals, output files and inputs.             *)
(***************************************************************************)
EXTENDS CaptureRun, Integers, TLAPS

-----------------------------------------------------------------------------
(* The output transaction.                                                 *)

Owners == Publishers \cup {Nobody}

OutputTypes ==
    /\ dir \in Owners /\ onDisk \in Owners /\ crashed \in BOOLEAN
    /\ file \in [Publishers -> [Files -> {"absent", "partial", "full"}]]
    /\ synced \in [Publishers -> SUBSET Files]
    /\ listed \in [Publishers -> BOOLEAN] /\ clean \in [Publishers -> BOOLEAN]
    /\ pc \in [Publishers -> {"mkdir", "open", "create", "write", "sync", "revalidate",
                              "sync_directory", "sync_parent", "unlink", "rmdir",
                              "sync_rollback", "done"}]
    /\ at \in [Publishers -> Files]
    /\ err \in [Publishers -> {"none", "OutputPublish", "DurabilityUncertain"}]
    /\ result \in [Publishers -> {"none", "Ok", "OutputPublish", "OutputExists",
                                  "DurabilityUncertain", "CaptureCleanup"}]

(* Between its mkdir and its rmdir a publisher has the name.               *)
HoldsName(p) == pc[p] \in {"open", "create", "write", "sync", "revalidate", "sync_directory",
                           "sync_parent", "unlink", "rmdir"}

(* A file that a publisher has left behind is whole and durable.           *)
Written(p, f) == file[p][f] = "full" /\ f \in synced[p]

Progress(p) ==
    /\ pc[p] \in {"mkdir", "open"} => at[p] = 1
    /\ pc[p] \in {"create", "write", "sync"} => \A f \in 1 .. at[p] - 1 : Written(p, f)
    /\ pc[p] = "sync" => file[p][at[p]] = "full"
    /\ pc[p] \in {"revalidate", "sync_directory", "sync_parent"} => \A f \in Files : Written(p, f)
    /\ pc[p] = "sync_parent" => listed[p]

(* Before its mkdir, and after a clean rollback, nothing of a publisher is *)
(* left, not even on the disk.                                             *)
Traceless(p) ==
    /\ pc[p] = "mkdir" => dir # p /\ onDisk # p
    /\ pc[p] = "sync_rollback" /\ clean[p] /\ ~crashed => dir # p
    /\ result[p] \in {"OutputPublish", "DurabilityUncertain", "OutputExists"}
          => dir # p /\ onDisk # p

Accepted(p) ==
    result[p] = "Ok" =>
        /\ dir = p /\ onDisk = p /\ (\A f \in Files : file[p][f] = "full")
        /\ ~crashed => listed[p] /\ \A f \in Files : f \in synced[p]

Sound(p) ==
    /\ pc[p] # "done" => result[p] = "none"
    /\ ~crashed => (HoldsName(p) => dir = p) /\ Progress(p)
    /\ Traceless(p) /\ Accepted(p)

OutputInv == OutputTypes /\ \A p \in Publishers : Sound(p)

(* Init establishes it.                                                    *)
LEMMA OutputInitInv == Init => OutputInv
<1> SUFFICES ASSUME Init PROVE OutputInv
  OBVIOUS
<1>1. OutputTypes
  <2>1. crashed \in BOOLEAN /\ listed \in [Publishers -> BOOLEAN] /\ clean \in [Publishers -> BOOLEAN]
    BY DEF Init
  <2>2. 1 \in Files
    BY OutputAssumption DEF Files
  <2>3. QED
    BY <2>1, <2>2 DEF Init, OutputTypes, Owners
<1>2. \A p \in Publishers : dir # p /\ onDisk # p
  BY NobodyIsNotAPublisher DEF Init
<1>3. QED
  BY <1>1, <1>2 DEF Init, OutputInv, Sound, HoldsName, Progress, Traceless, Accepted

(* A step of p changes what belongs to p, and moves the name from p or     *)
(* nobody to p or nobody, if at all.                                       *)
StepOf(p) ==
    /\ ~crashed /\ ~crashed'
    /\ \A q \in Publishers \ {p} :
         /\ pc'[q] = pc[q] /\ result'[q] = result[q] /\ clean'[q] = clean[q] /\ at'[q] = at[q]
         /\ file'[q] = file[q] /\ synced'[q] = synced[q] /\ listed'[q] = listed[q]
    /\ dir' = dir \/ (dir \in {p, Nobody} /\ dir' \in {p, Nobody})
    /\ \/ onDisk' \in {onDisk, dir}
       \/ onDisk' = Nobody /\ dir = p

(* Such a step leaves the others what they have.                           *)
LEMMA StepOfOne ==
    ASSUME OutputInv, NEW p \in Publishers, StepOf(p), OutputTypes', Sound(p)'
    PROVE  OutputInv'
<1> SUFFICES ASSUME NEW q \in Publishers, q # p PROVE Sound(q)'
  BY DEF OutputInv
<1>1. q # Nobody /\ p # Nobody /\ Sound(q)
  BY NobodyIsNotAPublisher DEF OutputInv
<1>2. (HoldsName(q) => dir = q)'
  BY <1>1 DEF Sound, HoldsName, StepOf
<1>3. Progress(q)'
  BY <1>1 DEF Sound, Progress, Written, StepOf
<1>4. Traceless(q)'
  BY <1>1 DEF Sound, Traceless, StepOf
<1>5. Accepted(q)'
  BY <1>1 DEF Sound, Accepted, StepOf
<1>6. QED
  BY <1>1, <1>2, <1>3, <1>4, <1>5 DEF Sound, StepOf

(* The steps up to publication.                                            *)
LEMMA PublishSteps ==
    ASSUME OutputInv, NEW p \in Publishers,
           \/ Mkdir(p) \/ MkdirRefused(p) \/ OpenDirectory(p) \/ OpenFails(p)
           \/ CreateFile(p) \/ WriteFile(p) \/ SyncFile(p) \/ Revalidate(p)
           \/ SyncDirectory(p) \/ SyncParent(p) \/ StepFails(p)
    PROVE  OutputInv'
<1> USE DEF At, Goto, Move, Finish, disk
<1>0. p # Nobody /\ Sound(p) /\ OutputTypes
  BY NobodyIsNotAPublisher DEF OutputInv
<1>1. CASE Mkdir(p)
  <2>1. StepOf(p) /\ OutputTypes'
    BY <1>0, <1>1 DEF Mkdir, StepOf, OutputTypes, Owners
  <2>2. Sound(p)'
    BY <1>0, <1>1 DEF Mkdir, Sound, OutputTypes, HoldsName, Progress, Traceless, Accepted
  <2>3. QED
    BY <2>1, <2>2, StepOfOne
<1>2. CASE MkdirRefused(p)
  <2>1. StepOf(p) /\ OutputTypes'
    BY <1>0, <1>2 DEF MkdirRefused, StepOf, OutputTypes
  <2>2. Sound(p)'
    BY <1>0, <1>2 DEF MkdirRefused, Sound, OutputTypes, HoldsName, Progress, Traceless, Accepted
  <2>3. QED
    BY <2>1, <2>2, StepOfOne
<1>3. CASE OpenDirectory(p)
  <2>1. StepOf(p) /\ OutputTypes'
    BY <1>0, <1>3 DEF OpenDirectory, StepOf, OutputTypes
  <2>2. Sound(p)'
    <3>1. Progress(p)'
      BY <1>0, <1>3 DEF OpenDirectory, Sound, OutputTypes, Progress
    <3>2. QED
      BY <1>0, <1>3, <3>1 DEF OpenDirectory, Sound, OutputTypes, HoldsName, Traceless, Accepted
  <2>3. QED
    BY <2>1, <2>2, StepOfOne
<1>4. CASE OpenFails(p)
  <2>0. dir = p
    BY <1>0, <1>4 DEF OpenFails, Sound, HoldsName
  <2>1. StepOf(p) /\ OutputTypes'
    <3>1. StepOf(p)
      BY <1>0, <1>4, <2>0 DEF OpenFails, StepOf, OutputTypes
    <3>2. crashed' \in BOOLEAN /\ clean' \in [Publishers -> BOOLEAN] /\ listed' \in [Publishers -> BOOLEAN]
      BY <1>0, <1>4 DEF OpenFails, OutputTypes
    <3>3. QED
      BY <1>0, <1>4, <3>1, <3>2 DEF OpenFails, OutputTypes, Owners
  <2>2. Sound(p)'
    BY <1>0, <1>4 DEF OpenFails, Sound, OutputTypes, HoldsName, Progress, Traceless, Accepted
  <2>3. QED
    BY <2>1, <2>2, StepOfOne
<1>5. CASE CreateFile(p)
  <2>1. StepOf(p) /\ OutputTypes'
    BY <1>0, <1>5 DEF CreateFile, StepOf, OutputTypes
  <2>2. Sound(p)'
    BY <1>0, <1>5 DEF CreateFile, Sound, OutputTypes, HoldsName, Progress, Traceless, Accepted, Written, Files
  <2>3. QED
    BY <2>1, <2>2, StepOfOne
<1>6. CASE WriteFile(p)
  <2>1. StepOf(p) /\ OutputTypes'
    BY <1>0, <1>6 DEF WriteFile, StepOf, OutputTypes
  <2>2. Sound(p)'
    <3>1. /\ pc' = [pc EXCEPT ![p] = "sync"] /\ pc[p] = "write" /\ at[p] \in Files
          /\ file'[p] = [file[p] EXCEPT ![at[p]] = "full"] /\ at' = at /\ synced' = synced
      BY <1>0, <1>6 DEF WriteFile, OutputTypes
    <3>2. \A f \in 1 .. at[p] - 1 : f # at[p] /\ f \in Files
      BY <3>1, OutputAssumption DEF Files
    <3>3. Progress(p)'
      BY <1>0, <1>6, <3>1, <3>2 DEF WriteFile, Sound, OutputTypes, Progress, Written
    <3>4. QED
      BY <1>0, <1>6, <3>3 DEF WriteFile, Sound, OutputTypes, HoldsName, Traceless, Accepted
  <2>3. QED
    BY <2>1, <2>2, StepOfOne
<1>7. CASE SyncFile(p)
  <2>1. StepOf(p) /\ OutputTypes'
    BY <1>0, <1>7, OutputAssumption DEF SyncFile, StepOf, OutputTypes, Files
  <2>2. Sound(p)'
    BY <1>0, <1>7, OutputAssumption
       DEF SyncFile, Sound, OutputTypes, HoldsName, Progress, Traceless, Accepted, Written, Files
  <2>3. QED
    BY <2>1, <2>2, StepOfOne
<1>8. CASE Revalidate(p)
  <2>1. StepOf(p) /\ OutputTypes'
    BY <1>0, <1>8 DEF Revalidate, StepOf, OutputTypes
  <2>2. Sound(p)'
    BY <1>0, <1>8 DEF Revalidate, Sound, OutputTypes, HoldsName, Progress, Traceless, Accepted, Written
  <2>3. QED
    BY <2>1, <2>2, StepOfOne
<1>9. CASE SyncDirectory(p)
  <2>1. StepOf(p) /\ OutputTypes'
    BY <1>0, <1>9 DEF SyncDirectory, StepOf, OutputTypes
  <2>2. Sound(p)'
    BY <1>0, <1>9 DEF SyncDirectory, Sound, OutputTypes, HoldsName, Progress, Traceless, Accepted, Written
  <2>3. QED
    BY <2>1, <2>2, StepOfOne
<1>10. CASE SyncParent(p)
  <2>1. StepOf(p) /\ OutputTypes'
    BY <1>0, <1>10 DEF SyncParent, StepOf, OutputTypes
  <2>2. Sound(p)'
    BY <1>0, <1>10 DEF SyncParent, Sound, OutputTypes, HoldsName, Progress, Traceless, Accepted, Written
  <2>3. QED
    BY <2>1, <2>2, StepOfOne
<1>11. CASE StepFails(p)
  <2>1. /\ pc[p] \in {"create", "write", "sync", "revalidate", "sync_directory", "sync_parent"}
        /\ pc' = [pc EXCEPT ![p] = "unlink"] /\ at' = [at EXCEPT ![p] = 1]
        /\ \E code \in {"OutputPublish", "DurabilityUncertain"} : err' = [err EXCEPT ![p] = code]
        /\ ~crashed /\ UNCHANGED <<clean, result, crashed, dir, onDisk, file, synced, listed>>
    BY <1>11 DEF StepFails, Fail
  <2>2. 1 \in Files
    BY OutputAssumption DEF Files
  <2>3. StepOf(p) /\ OutputTypes'
    BY <1>0, <2>1, <2>2 DEF StepOf, OutputTypes
  <2>4. Sound(p)'
    BY <1>0, <2>1 DEF Sound, OutputTypes, HoldsName, Progress, Traceless, Accepted
  <2>5. QED
    BY <2>3, <2>4, StepOfOne
<1>12. QED
  BY <1>1, <1>2, <1>3, <1>4, <1>5, <1>6, <1>7, <1>8, <1>9, <1>10, <1>11

(* The rollback.                                                           *)
LEMMA RollbackSteps ==
    ASSUME OutputInv, NEW p \in Publishers,
           Unlink(p) \/ RemoveDirectory(p) \/ SyncRollback(p)
    PROVE  OutputInv'
<1> USE DEF At, Goto, Finish
<1>0. p # Nobody /\ Sound(p) /\ OutputTypes
  BY NobodyIsNotAPublisher DEF OutputInv
<1>1. CASE Unlink(p)
  <2>1. StepOf(p)
    BY <1>0, <1>1 DEF Unlink, Spoil, Keep, StepOf, OutputTypes
  <2>2. OutputTypes'
    <3>1. at' \in [Publishers -> Files]
      BY <1>0, <1>1, OutputAssumption DEF Unlink, OutputTypes, Files
    <3>2. clean' \in [Publishers -> BOOLEAN] /\ crashed' \in BOOLEAN /\ listed' \in [Publishers -> BOOLEAN]
      BY <1>0, <1>1 DEF Unlink, Spoil, Keep, OutputTypes
    <3>3. file' \in [Publishers -> [Files -> {"absent", "partial", "full"}]]
      <4>1. at[p] \in Files /\ file[p] \in [Files -> {"absent", "partial", "full"}]
        BY <1>0 DEF OutputTypes
      <4>2. [file[p] EXCEPT ![at[p]] = "absent"] \in [Files -> {"absent", "partial", "full"}]
        BY <4>1
      <4>3. file' = file \/ file' = [file EXCEPT ![p] = [file[p] EXCEPT ![at[p]] = "absent"]]
        BY <1>1 DEF Unlink, Spoil, Keep
      <4>4. QED
        BY <1>0, <4>2, <4>3 DEF OutputTypes
    <3>4. QED
      BY <1>0, <1>1, <3>1, <3>2, <3>3 DEF Unlink, OutputTypes
  <2>3. Sound(p)'
    BY <1>0, <1>1 DEF Unlink, Sound, OutputTypes, HoldsName, Progress, Traceless, Accepted
  <2>4. QED
    BY <2>1, <2>2, <2>3, StepOfOne
<1>2. CASE RemoveDirectory(p)
  <2>1. StepOf(p)
    BY <1>0, <1>2 DEF RemoveDirectory, Spoil, Keep, StepOf, OutputTypes, Sound, HoldsName
  <2>2. OutputTypes'
    <3>1. clean' \in [Publishers -> BOOLEAN] /\ crashed' \in BOOLEAN /\ listed' \in [Publishers -> BOOLEAN]
      BY <1>0, <1>2 DEF RemoveDirectory, Spoil, Keep, OutputTypes
    <3>2. QED
      BY <1>0, <1>2, <3>1 DEF RemoveDirectory, OutputTypes, Owners
  <2>3. Sound(p)'
    BY <1>0, <1>2 DEF RemoveDirectory, Spoil, Keep, Sound, OutputTypes, HoldsName, Progress, Traceless, Accepted
  <2>4. QED
    BY <2>1, <2>2, <2>3, StepOfOne
<1>3. CASE SyncRollback(p)
  <2>1. StepOf(p)
    BY <1>0, <1>3 DEF SyncRollback, StepOf, OutputTypes
  <2>2. OutputTypes'
    BY <1>0, <1>3 DEF SyncRollback, OutputTypes, Owners
  <2>3. Sound(p)'
    BY <1>0, <1>3 DEF SyncRollback, Sound, OutputTypes, HoldsName, Progress, Traceless, Accepted
  <2>4. QED
    BY <2>1, <2>2, <2>3, StepOfOne
<1>4. QED
  BY <1>1, <1>2, <1>3

(* The environment: the name reaches the disk, or the machine crashes.  A  *)
(* crash spares what an accepted publisher has synced.                     *)
LEMMA EnvironmentSteps ==
    ASSUME OutputInv, Writeback \/ Crash
    PROVE  OutputInv'
<1>0. OutputTypes /\ \A p \in Publishers : p # Nobody /\ Sound(p)
  BY NobodyIsNotAPublisher DEF OutputInv
<1>1. CASE Writeback
  <2>1. OutputTypes'
    BY <1>0, <1>1 DEF Writeback, OutputTypes
  <2>2. ASSUME NEW p \in Publishers PROVE Sound(p)'
    BY <1>0, <1>1 DEF Writeback, Sound, HoldsName, Progress, Written, Traceless, Accepted
  <2>3. QED
    BY <2>1, <2>2 DEF OutputInv
<1>2. CASE Crash
  <2>1. dir' \in Owners /\ onDisk' \in Owners
    BY <1>0, <1>2 DEF Crash, OutputTypes
  <2>2. /\ file' \in [Publishers -> [Files -> {"absent", "partial", "full"}]]
        /\ \A p \in Publishers : p # dir' => file'[p] = file[p]
    <3>1. CASE dir' = Nobody
      BY <1>0, <1>2, <3>1 DEF Crash, OutputTypes
    <3>2. CASE dir' # Nobody
      <4>1. PICK left \in [Files -> {"absent", "partial", "full"}] : file' = [file EXCEPT ![dir'] = left]
        BY <1>2, <3>2 DEF Crash
      <4>2. QED
        BY <1>0, <4>1 DEF OutputTypes
    <3>3. QED
      BY <3>1, <3>2
  <2>3. crashed' \in BOOLEAN /\ listed' \in [Publishers -> BOOLEAN] /\ clean' \in [Publishers -> BOOLEAN]
    BY <1>0, <1>2 DEF Crash, OutputTypes
  <2>4. OutputTypes'
    BY <1>0, <1>2, <2>1, <2>2, <2>3 DEF Crash, OutputTypes
  <2>5. ASSUME NEW p \in Publishers PROVE Sound(p)'
    <3>1. Traceless(p)'
      BY <1>0, <1>2 DEF Crash, Sound, HoldsName, Traceless
    <3>2. ASSUME result[p] = "Ok" PROVE (dir = p /\ onDisk = p /\ \A f \in Files : file[p][f] = "full")'
      <4>1. /\ dir' = p /\ onDisk' = p /\ p # Nobody /\ listed[p]
            /\ \A f \in Files : file[p][f] = "full" /\ f \in synced[p]
        BY <1>0, <1>2, <3>2 DEF Crash, Sound, Accepted
      <4>2. PICK left \in [Files -> {"absent", "partial", "full"}] :
                /\ \A f \in Files : left[f] \in Survives(p, f)
                /\ file' = [file EXCEPT ![p] = left]
        BY <1>2, <4>1 DEF Crash
      <4>3. \A f \in Files : Survives(p, f) = {"full"}
        BY <4>1 DEF Survives
      <4>4. file'[p] = left
        BY <1>0, <4>2 DEF OutputTypes
      <4>5. QED
        BY <4>1, <4>2, <4>3, <4>4
    <3>3. QED
      BY <1>0, <1>2, <3>1, <3>2 DEF Crash, Sound, Accepted
  <2>6. QED
    BY <2>4, <2>5 DEF OutputInv
<1>3. QED
  BY <1>1, <1>2

LEMMA OutputStutters == ASSUME OutputInv, UNCHANGED vars PROVE OutputInv'
BY DEF OutputInv, vars, OutputTypes, Sound, HoldsName, Progress, Written, Traceless, Accepted

LEMMA OutputNextInv == ASSUME OutputInv, [Next]_vars PROVE OutputInv'
<1>1. CASE \E p \in Publishers : Step(p)
  BY <1>1, PublishSteps, RollbackSteps DEF Step
<1>2. CASE Writeback \/ Crash
  BY <1>2, EnvironmentSteps
<1>3. CASE UNCHANGED vars
  BY <1>3, OutputStutters
<1>4. QED
  BY <1>1, <1>2, <1>3 DEF Next, Done

(* The inductive invariant of the output transaction.                      *)
THEOREM OutputAlwaysInv == Spec => []OutputInv
<1>1. OutputInv /\ [Next]_vars => OutputInv'
  BY OutputNextInv
<1>2. QED
  BY OutputInitInv, <1>1, PTL DEF Spec

(* A directory that publish_output_directory reported as published stays   *)
(* there, whole: every file was fsynced before the directory, the          *)
(* directory before the parent, and no rival's mkdir, rollback or crash    *)
(* takes it away.                                                          *)
THEOREM AcceptedStaysDurable == Spec => []AcceptedIsDurable
<1>1. OutputInv => AcceptedIsDurable
  BY DEF OutputInv, Sound, Accepted, AcceptedIsDurable
<1>2. QED
  BY OutputAlwaysInv, <1>1, PTL

(* A failure with any other code than capture-cleanup means that the name  *)
(* is not the failed capture's, now or after a crash.                      *)
THEOREM FailuresLeaveNothing == Spec => []FailureLeavesNothing
<1>1. OutputInv => FailureLeavesNothing
  BY DEF OutputInv, Sound, Traceless, FailureLeavesNothing
<1>2. QED
  BY OutputAlwaysInv, <1>1, PTL

-----------------------------------------------------------------------------
(* A whole capture runs the same output transaction: it only holds back    *)
(* the publisher it belongs to until the receipt is written.               *)
THEOREM CaptureRefinesOutput == RunSpec => Spec
<1>1. RunInit => Init
  BY DEF RunInit
<1>2. [RunNext]_runVars => [Next]_vars
  BY DEF RunNext, RunStep, Return, Prepare, Environment, RunDone, Next, runVars, vars
<1>3. QED
  BY <1>1, <1>2, PTL DEF RunSpec, Spec

(* So a whole capture's publication is durable, and its failures leave     *)
(* nothing.                                                                *)
THEOREM CaptureOutputIsSafe == RunSpec => [](AcceptedIsDurable /\ FailureLeavesNothing)
BY CaptureRefinesOutput, AcceptedStaysDurable, FailuresLeaveNothing, PTL

-----------------------------------------------------------------------------
(* The transaction up to the receipt.                                      *)

CaptureTypes ==
    /\ content \in [Inputs -> {"pinned", "other"}]
    /\ ctime \in [Inputs -> Nat] /\ snapshot \in [Inputs -> Int]
    /\ digest \in [Inputs -> {"none", "pinned"}] /\ todo \subseteq Inputs

(* A digest is taken after the snapshot, so a file whose ctime still is    *)
(* the one in the snapshot still has the content that was hashed.          *)
Measured(i) ==
    /\ snapshot[i] <= ctime[i]
    /\ digest[i] # "none" => /\ snapshot[i] # Capture!Unread
                             /\ ctime[i] = snapshot[i] => content[i] = "pinned"

(* The loop of HeldFile::open visits every input before anything is run.   *)
Opened ==
    /\ step = "open" => /\ verdict = "none" /\ executed = "none" /\ outcome = "none"
                        /\ \A i \in Inputs \ todo : digest[i] # "none"
    /\ step \notin {"open", "drop", "done"} => \A i \in Inputs : digest[i] # "none"

(* What was executed is what was hashed, if the file has not changed since.*)
Executed ==
    /\ executed # "none" /\ ctime[Executable] = snapshot[Executable] => executed = "pinned"
    /\ verdict = "Ok" => executed # "none"

Attested ==
    executed = "pinned" /\ digest[Executable] = "pinned" /\ postcheck = "Ok" /\ verdict = "Ok"

(* The later steps are reached only with the evidence the earlier ones     *)
(* gathered.                                                               *)
Evidence ==
    /\ step = "verify" => /\ postcheck = "Ok" /\ verdict = "Ok"
                          /\ Executable \notin todo => executed = "pinned"
    /\ step \in {"receipt", "output"} => Attested
    /\ result[This] # "none" => step \in {"output", "drop", "done"} /\ Attested

(* From the accepted open to the destructor there is a HeldWorkspace, and  *)
(* only then: a return before it leaves the mode as open found it.         *)
Restored ==
    /\ step \in {"open", "workspace"} => ~guard /\ found = "none"
    /\ step \notin {"open", "workspace", "done"} => guard /\ found = "0700"
    /\ step = "done" /\ ~broken /\ found # "none" => mode = found

CaptureInv ==
    /\ CaptureTypes /\ (\A i \in Inputs : Measured(i))
    /\ Opened /\ Executed /\ Evidence /\ Restored

(* The opening of one input.                                               *)
LEMMA OpenSteps ==
    ASSUME CaptureInv, NEW i \in Inputs, UNCHANGED result,
           Capture!Snapshot(i) \/ Capture!DigestMatches(i) \/ Capture!DigestDiffers(i)
    PROVE  CaptureInv'
<1> USE RunAssumption DEF CaptureInv, Capture!Goto, Capture!world, Capture!held, Capture!local,
                          Capture!directory, Capture!opened, Capture!Leave, Capture!Unread
<1>1. CASE Capture!Snapshot(i)
  <2>1. CaptureTypes'
    BY <1>1 DEF Capture!Snapshot, CaptureTypes
  <2>2. \A j \in Inputs : Measured(j)'
    BY <1>1 DEF Capture!Snapshot, CaptureTypes, Measured
  <2>3. Opened' /\ Executed'
    BY <1>1 DEF Capture!Snapshot, Opened, Executed
  <2>4. Evidence' /\ Restored'
    BY <1>1 DEF Capture!Snapshot, Evidence, Attested, Restored
  <2>5. QED
    BY <2>1, <2>2, <2>3, <2>4
<1>2. CASE Capture!DigestMatches(i)
  <2>1. CaptureTypes'
    BY <1>2 DEF Capture!DigestMatches, CaptureTypes
  <2>2. \A j \in Inputs : Measured(j)'
    BY <1>2 DEF Capture!DigestMatches, CaptureTypes, Measured
  <2>3. Opened' /\ Executed'
    BY <1>2 DEF Capture!DigestMatches, CaptureTypes, Opened, Executed
  <2>4. Evidence' /\ Restored'
    BY <1>2 DEF Capture!DigestMatches, Opened, Evidence, Attested, Restored
  <2>5. QED
    BY <2>1, <2>2, <2>3, <2>4
<1>3. CASE Capture!DigestDiffers(i)
  <2>1. CaptureTypes' /\ \A j \in Inputs : Measured(j)'
    BY <1>3 DEF Capture!DigestDiffers, CaptureTypes, Measured
  <2>2. Opened' /\ Executed'
    BY <1>3 DEF Capture!DigestDiffers, Opened, Executed
  <2>3. Evidence' /\ Restored'
    BY <1>3 DEF Capture!DigestDiffers, Opened, Evidence, Attested, Restored
  <2>4. QED
    BY <2>1, <2>2, <2>3
<1>4. QED
  BY <1>1, <1>2, <1>3

(* What others may do to an input or to the workspace at any moment.       *)
LEMMA ForeignSteps ==
    ASSUME CaptureInv, UNCHANGED result,
           Capture!ChangeWorkspace \/ \E i \in Inputs : Capture!ChangeInput(i)
    PROVE  CaptureInv'
<1> USE RunAssumption DEF CaptureInv, Capture!world, Capture!held, Capture!local,
                          Capture!directory, Capture!opened, Capture!Unread
<1>1. CASE Capture!ChangeWorkspace
  BY <1>1 DEF Capture!ChangeWorkspace, CaptureTypes, Measured, Opened, Executed, Evidence, Attested, Restored
<1>2. ASSUME NEW i \in Inputs, Capture!ChangeInput(i) PROVE CaptureInv'
  <2>1. CaptureTypes'
    BY <1>2 DEF Capture!ChangeInput, CaptureTypes
  <2>2. \A j \in Inputs : Measured(j)' /\ (ctime'[j] = snapshot'[j] => ctime[j] = snapshot[j])
    BY <1>2 DEF Capture!ChangeInput, CaptureTypes, Measured
  <2>3. Opened' /\ Executed'
    BY <1>2, <2>2 DEF Capture!ChangeInput, Opened, Executed
  <2>4. Evidence' /\ Restored'
    BY <1>2 DEF Capture!ChangeInput, Evidence, Attested, Restored
  <2>5. QED
    BY <2>1, <2>2, <2>3, <2>4
<1>3. QED
  BY <1>1, <1>2

(* The execution in the workspace.                                         *)
LEMMA WorkspaceSteps ==
    ASSUME CaptureInv, UNCHANGED result,
           \/ Capture!OpenWorkspace \/ Capture!VerifyOpened \/ Capture!Protect \/ Capture!Precheck \/ Capture!Execute
           \/ Capture!Postcheck \/ Capture!Restore \/ Capture!Recheck
    PROVE  CaptureInv'
<1> USE RunAssumption DEF CaptureInv, Capture!world, Capture!held, Capture!local,
                          Capture!directory, Capture!opened, Capture!Leave, Capture!Goto
<1>1. CaptureTypes' /\ \A i \in Inputs : Measured(i)'
  BY DEF CaptureTypes, Measured, Capture!OpenWorkspace, Capture!VerifyOpened, Capture!Protect, Capture!Precheck,
         Capture!Execute, Capture!Postcheck, Capture!Restore, Capture!Recheck
<1>2. Opened'
  BY DEF Opened, Capture!OpenWorkspace, Capture!VerifyOpened, Capture!Protect, Capture!Precheck,
         Capture!Execute, Capture!Postcheck, Capture!Restore, Capture!Recheck
<1>3. Executed'
  <2>1. CASE Capture!Execute
    <3>1. digest[Executable] # "none" /\ content[Executable] \in {"pinned", "other"}
      BY <2>1 DEF Capture!Execute, Opened, CaptureTypes
    <3>2. QED
      BY <2>1, <3>1 DEF Capture!Execute, Executed, Measured
  <2>2. CASE Capture!Precheck
    BY <2>2 DEF Capture!Precheck, Executed
  <2>3. QED
    BY <2>1, <2>2 DEF Executed, Capture!OpenWorkspace, Capture!VerifyOpened, Capture!Protect,
                      Capture!Postcheck, Capture!Restore, Capture!Recheck
<1>4. Evidence'
  <2>1. result[This] = "none" /\ step \notin {"verify", "receipt", "output", "done"}
    BY DEF Evidence, Capture!OpenWorkspace, Capture!VerifyOpened, Capture!Protect, Capture!Precheck,
           Capture!Execute, Capture!Postcheck, Capture!Restore, Capture!Recheck
  <2>2. CASE Capture!Recheck
    BY <2>1, <2>2 DEF Capture!Recheck, Capture!FinishWorkspace, Evidence
  <2>3. CASE ~Capture!Recheck
    BY <2>1, <2>3 DEF Evidence, Capture!OpenWorkspace, Capture!VerifyOpened, Capture!Protect, Capture!Precheck,
                      Capture!Execute, Capture!Postcheck, Capture!Restore
  <2>4. QED
    BY <2>2, <2>3
<1>5. Restored'
  BY DEF Restored, Capture!OpenWorkspace, Capture!VerifyOpened, Capture!Protect, Capture!Precheck,
         Capture!Execute, Capture!Postcheck, Capture!Restore, Capture!Recheck
<1>6. QED
  BY <1>1, <1>2, <1>3, <1>4, <1>5

(* The second reading of the inputs, the receipt, the return and the drop. *)
LEMMA ReceiptSteps ==
    ASSUME CaptureInv, UNCHANGED result,
           \/ \E i \in Inputs : Capture!Verify(i)
           \/ Capture!Receipt \/ Capture!Drop
           \/ (result[This] # "none" /\ Capture!Publish(result[This]))
    PROVE  CaptureInv'
<1> USE RunAssumption DEF CaptureInv, Capture!world, Capture!held, Capture!local,
                          Capture!directory, Capture!opened, Capture!Leave, Capture!Goto
<1>1. ASSUME NEW i \in Inputs, Capture!Verify(i) PROVE CaptureInv'
  <2>1. CaptureTypes' /\ (\A j \in Inputs : Measured(j)') /\ Opened' /\ Executed'
    BY <1>1 DEF Capture!Verify, CaptureTypes, Measured, Opened, Executed
  <2>2. digest[Executable] = "pinned" /\ (Capture!Unchanged(i) /\ i = Executable => executed = "pinned")
    BY <1>1 DEF Capture!Verify, Capture!Unchanged, CaptureTypes, Opened, Executed, Evidence
  <2>3. Evidence' /\ Restored'
    BY <1>1, <2>2 DEF Capture!Verify, CaptureTypes, Evidence, Attested, Restored
  <2>4. QED
    BY <2>1, <2>3
<1>2. CASE Capture!Receipt
  BY <1>2 DEF Capture!Receipt, CaptureTypes, Measured, Opened, Executed, Evidence, Attested, Restored
<1>3. CASE result[This] # "none" /\ Capture!Publish(result[This])
  BY <1>3 DEF Capture!Publish, CaptureTypes, Measured, Opened, Executed, Evidence, Attested, Restored
<1>4. CASE Capture!Drop
  BY <1>4 DEF Capture!Drop, CaptureTypes, Measured, Opened, Executed, Evidence, Attested, Restored
<1>5. QED
  BY <1>1, <1>2, <1>3, <1>4

(* Publishers leave each other's results alone.                            *)
LEMMA StepKeepsResults ==
    ASSUME OutputTypes, NEW p \in Publishers, Step(p), NEW q \in Publishers, q # p
    PROVE  result'[q] = result[q]
<1>1. result' = result \/ \E r : result' = [result EXCEPT ![p] = r]
  <2>1. CASE MkdirRefused(p) \/ OpenFails(p) \/ SyncParent(p) \/ SyncRollback(p)
    BY <2>1 DEF MkdirRefused, OpenFails, SyncParent, SyncRollback, Finish
  <2>2. CASE Mkdir(p) \/ OpenDirectory(p) \/ CreateFile(p) \/ WriteFile(p) \/ SyncFile(p)
             \/ Revalidate(p) \/ SyncDirectory(p)
    BY <2>2 DEF Mkdir, OpenDirectory, CreateFile, WriteFile, SyncFile, Revalidate, SyncDirectory, Move
  <2>3. CASE StepFails(p) \/ Unlink(p) \/ RemoveDirectory(p)
    BY <2>3 DEF StepFails, Fail, Unlink, RemoveDirectory
  <2>4. QED
    BY <2>1, <2>2, <2>3 DEF Step
<1>2. QED
  BY <1>1 DEF OutputTypes

LEMMA CaptureNextInv ==
    ASSUME CaptureInv, OutputInv, [RunNext]_runVars
    PROVE  CaptureInv'
<1>1. CASE Prepare
  BY <1>1, OpenSteps, ForeignSteps, WorkspaceSteps, ReceiptSteps DEF Prepare, Capture!Advance, vars
<1>2. CASE Return
  BY <1>2, ReceiptSteps DEF Return, vars
<1>3. CASE UNCHANGED captureVars /\ result'[This] = result[This]
  BY <1>3 DEF captureVars, CaptureInv, CaptureTypes, Measured, Opened, Executed, Evidence, Attested, Restored
<1>4. CASE Environment \/ RunDone \/ UNCHANGED runVars
  BY <1>3, <1>4 DEF Environment, Writeback, Crash, RunDone, runVars, vars
<1>5. ASSUME NEW p \in Publishers, RunStep(p) PROVE CaptureInv'
  <2>1. CASE p = This
    BY <1>5, <2>1 DEF RunStep, captureVars, CaptureInv, CaptureTypes, Measured, Opened, Executed,
                      Evidence, Attested, Restored
  <2>2. CASE p # This
    BY <1>3, <1>5, <2>2, RunAssumption, StepKeepsResults DEF RunStep, OutputInv
  <2>3. QED
    BY <2>1, <2>2
<1>6. QED
  BY <1>1, <1>2, <1>4, <1>5 DEF RunNext

(* The inductive invariant of the capture transaction.                     *)
THEOREM CaptureAlwaysInv == RunSpec => []CaptureInv
<1>1. RunInit => CaptureInv
  BY RunAssumption DEF RunInit, Init, Capture!Init, Capture!Unread, CaptureInv, CaptureTypes, Measured, Opened,
                       Executed, Evidence, Restored
<1>2. CaptureInv /\ OutputInv /\ [RunNext]_runVars => CaptureInv'
  BY CaptureNextInv
<1>3. QED
  BY <1>1, <1>2, CaptureRefinesOutput, OutputAlwaysInv, PTL DEF RunSpec

(* A published directory names the content that was really executed,       *)
(* whatever was changed, or changed back, in the meantime.                 *)
THEOREM PublicationsAreAttested == RunSpec => []PublishedIsAttested
<1>1. CaptureInv => PublishedIsAttested
  BY DEF CaptureInv, Evidence, Attested, PublishedIsAttested
<1>2. QED
  BY CaptureAlwaysInv, <1>1, PTL

(* A workspace is handed back with the mode it was found with, whatever    *)
(* returned early and whoever changed it, unless the destructor failed.    *)
THEOREM WorkspacesAreHandedBack == RunSpec => []WorkspaceHandedBack
<1>1. CaptureInv => WorkspaceHandedBack
  BY DEF CaptureInv, Restored, WorkspaceHandedBack
<1>2. QED
  BY CaptureAlwaysInv, <1>1, PTL
=============================================================================

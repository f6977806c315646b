------------------------- MODULE CaptureSupervision -------------------------
(***************************************************************************)
(* The supervision of one captured process tree                            *)
(* (process_capture_supervision.rs, process_capture_cleanup.rs and         *)
(* OwnedChildren of process_capture_signal.rs).                            *)
(*                                                                         *)
(* Three kinds of actors interleave: the processes of the captured tree    *)
(* (they fork, exit, wait for their own children, write output, read       *)
(* input, close their pipe ends), the three pipe workers (one writer, two  *)
(* readers) and the supervising thread.  The supervisor is a child         *)
(* subreaper, so a process whose parent exits becomes its direct child.    *)
(*                                                                         *)
(* Bytes are counted, never valued.  Sleeping is left out: a loop that     *)
(* sleeps may simply be overtaken by the other actors.                     *)
(***************************************************************************)
EXTENDS Naturals, FiniteSets, Sequences

CONSTANTS
    Procs,        \* the processes the captured tree may ever consist of
    Main,         \* the one that is spawned; the others descend from it
    InputLen,     \* bytes of standard input to deliver
    Cap,          \* Cap[s]: bytes of output stream s that are retained
    MaxEmit,      \* MaxEmit[s]: bound on the bytes the tree writes to s
    PipeCap,      \* bytes a pipe buffers
    TermRounds,   \* polling rounds of the TERM phase (400 in the code)
    KillRounds,   \* polling rounds of the KILL phase (2000 in the code)
    MaxFaults     \* bound on failing system calls

Outputs == {"stdout", "stderr"}
Pipes == Outputs \cup {"stdin"}

ASSUME CaptureAssumption ==
    /\ IsFiniteSet(Procs) /\ Main \in Procs
    /\ InputLen \in Nat /\ PipeCap \in Nat \ {0} /\ MaxFaults \in Nat
    /\ Cap \in [Outputs -> Nat] /\ MaxEmit \in [Outputs -> Nat]
    /\ TermRounds \in Nat \ {0} /\ KillRounds \in Nat \ {0}

Supervisor == "supervisor"
ASSUME SupervisorIsNotSupervised == Supervisor \notin Procs

(* PrimaryCaptureFailure::PRECEDENCE, the strongest first. *)
PRECEDENCE == << "StdoutOverflow", "StderrOverflow", "Stdin",
                 "StreamState", "Timeout", "LiveDescendant" >>
Primaries == {PRECEDENCE[i] : i \in DOMAIN PRECEDENCE}

VARIABLES
    proc,      \* proc[p]: "unborn", "live", "zombie" or "gone" (reaped)
    parent,    \* parent[p]: a process or the supervisor
    holds,     \* holds[p]: the pipes whose far end p has open
    killed,    \* processes with a pending SIGKILL
    pipe,      \* pipe[e]: bytes buffered in pipe e
    emitted,   \* emitted[s]: bytes the tree has written to s
    worker,    \* worker[e]: the state of the thread that serves pipe e
    moved,     \* moved[e]: bytes retained from an output, or written to stdin
    flags,     \* WorkerFailureFacts: the atomics that have been set
    cancel,    \* WorkerHandles::cancel
    expired,   \* the deadline has passed
    sup,       \* the supervising thread's control state and locals
    faults,    \* system calls and threads that have failed so far
    errors,    \* a process-control operation has failed
    result     \* the value returned to the caller, "none" until then

kernelVars == <<proc, parent, holds, killed, emitted>>
workerVars == <<worker, moved, flags>>
vars == <<kernelVars, pipe, workerVars, cancel, expired, sup, faults, errors,
          result>>

Running == {"check", "io"}
Finished == {"complete", "cancelled", "failed", "panicked"}

-----------------------------------------------------------------------------
(* What the supervisor holds. *)

Children(p) == {q \in Procs : parent[q] = p /\ proc[q] \in {"live", "zombie"}}
DirectChildren == Children(Supervisor)

(* WorkerFailureFacts::snapshot. *)
Snapshot == {f \in Primaries :
                \/ f = "StdoutOverflow" /\ <<"stdout", "overflow">> \in flags
                \/ f = "StderrOverflow" /\ <<"stderr", "overflow">> \in flags
                \/ f = "Stdin" /\ <<"stdin", "failed">> \in flags
                \/ f = "StreamState" /\ \E s \in Outputs : <<s, "failed">> \in flags}

(* PrimaryCaptureFailures::selected, for a set that is not empty. *)
Selected(primary) ==
    LET first == CHOOSE i \in DOMAIN PRECEDENCE :
                    /\ PRECEDENCE[i] \in primary
                    /\ \A j \in 1 .. i - 1 : PRECEDENCE[j] \notin primary
    IN  PRECEDENCE[first]

(* close_worker_failure_observation, after the workers have been joined.   *)
CloseObservation(observed, expected) ==
    LET bad == IF expected THEN {"failed"} ELSE {"failed", "cancelled"}
    IN  observed \cup Snapshot
          \cup (IF worker["stdin"] \in bad THEN {"Stdin"} ELSE {})
          \cup (IF \E s \in Outputs : worker[s] \in bad
                THEN {"StreamState"} ELSE {})

JoinUncertain == \E e \in Pipes : worker[e] = "panicked"
Joinable == \A e \in Pipes : worker[e] \in Finished \cup {"unspawned"}
AllFinished == \A e \in Pipes : worker[e] \in Finished

-----------------------------------------------------------------------------
(* The control state of the supervising thread.  sup.after says why        *)
(* cleanup_process_tree was entered and so what follows it.                *)

SupInit(pc) ==
    [pc |-> pc, status |-> FALSE, owned |-> {Main}, primary |-> {},
     ready |-> FALSE, uncertain |-> FALSE, round |-> 0, proof |-> TRUE,
     clean |-> FALSE, after |-> "none", outcome |-> "none"]

(* A capture begins either with the pidfd accepted (supervise) or with a   *)
(* recovered descriptor of a child that died before it could execute       *)
(* (contain_pidfd_receipt_failure).                                        *)
Init ==
    /\ \/ /\ sup = SupInit("setup")
          /\ proc = [p \in Procs |-> IF p = Main THEN "live" ELSE "unborn"]
       \/ /\ sup = [SupInit("c_observe") EXCEPT !.after = "contain",
                                                !.round = 1]
          /\ proc = [p \in Procs |-> IF p = Main THEN "zombie" ELSE "unborn"]
    /\ parent = [p \in Procs |-> Supervisor]
    /\ holds = [p \in Procs |-> IF proc[p] = "live" THEN Pipes ELSE {}]
    /\ killed = {} /\ pipe = [e \in Pipes |-> 0]
    /\ emitted = [s \in Outputs |-> 0]
    /\ worker = [e \in Pipes |-> "unspawned"] /\ moved = [e \in Pipes |-> 0]
    /\ flags = {} /\ cancel = FALSE /\ expired = FALSE
    /\ faults = 0 /\ errors = FALSE /\ result = "none"

-----------------------------------------------------------------------------
(* The captured processes and the clock (external). *)

Able(p) == proc[p] = "live" /\ p \notin killed

Fork(p, q) ==
    /\ Able(p) /\ proc[q] = "unborn"
    /\ proc' = [proc EXCEPT ![q] = "live"]
    /\ parent' = [parent EXCEPT ![q] = p]
    /\ holds' = [holds EXCEPT ![q] = holds[p]]
    /\ UNCHANGED <<killed, emitted, pipe, workerVars, cancel, expired, sup,
                   faults, errors, result>>

(* Exit closes the process's pipe ends and hands its children, dead or     *)
(* alive, to the subreaper.                                                *)
Exit(p) ==
    /\ proc[p] = "live"
    /\ proc' = [proc EXCEPT ![p] = "zombie"]
    /\ parent' = [q \in Procs |-> IF parent[q] = p THEN Supervisor
                                                   ELSE parent[q]]
    /\ holds' = [holds EXCEPT ![p] = {}]
    /\ UNCHANGED <<killed, emitted, pipe, workerVars, cancel, expired, sup,
                   faults, errors, result>>

WaitForChild(p, q) ==
    /\ Able(p) /\ q \in Children(p) /\ proc[q] = "zombie"
    /\ proc' = [proc EXCEPT ![q] = "gone"]
    /\ UNCHANGED <<parent, holds, killed, emitted, pipe, workerVars, cancel,
                   expired, sup, faults, errors, result>>

CloseEnd(p, e) ==
    /\ Able(p) /\ e \in holds[p]
    /\ holds' = [holds EXCEPT ![p] = @ \ {e}]
    /\ UNCHANGED <<proc, parent, killed, emitted, pipe, workerVars, cancel,
                   expired, sup, faults, errors, result>>

Emit(p, s) ==
    /\ Able(p) /\ s \in holds[p]
    /\ emitted[s] < MaxEmit[s] /\ pipe[s] < PipeCap
    /\ emitted' = [emitted EXCEPT ![s] = @ + 1]
    /\ pipe' = [pipe EXCEPT ![s] = @ + 1]
    /\ UNCHANGED <<proc, parent, holds, killed, workerVars, cancel, expired,
                   sup, faults, errors, result>>

Consume(p) ==
    /\ Able(p) /\ "stdin" \in holds[p] /\ pipe["stdin"] > 0
    /\ pipe' = [pipe EXCEPT !["stdin"] = @ - 1]
    /\ UNCHANGED <<kernelVars, workerVars, cancel, expired, sup, faults,
                   errors, result>>

Deadline ==
    /\ ~expired /\ expired' = TRUE
    /\ sup.pc \in {"observe", "wait", "snapshot", "reap", "absent", "select"}
    /\ UNCHANGED <<kernelVars, pipe, workerVars, cancel, sup, faults, errors,
                   result>>

Environment ==
    \/ \E p, q \in Procs : Fork(p, q) \/ WaitForChild(p, q)
    \/ \E p \in Procs : Exit(p) \/ Consume(p)
    \/ \E p \in Procs, e \in Pipes : CloseEnd(p, e)
    \/ \E p \in Procs, s \in Outputs : Emit(p, s)

-----------------------------------------------------------------------------
(* The pipe workers.  Each loop first tests its exit conditions, then does *)
(* one non-blocking read or write: cancel may be raised between the two.   *)

HeldOpen(e) == \E p \in Procs : e \in holds[p]
WorkerFails(e) ==
    /\ worker' = [worker EXCEPT ![e] = "failed"]
    /\ flags' = flags \cup {<<e, "failed">>}

(* Variant: the cancel flag is never looked at. *)
WorkerCheckDeaf(e) ==
    /\ worker[e] = "check"
    /\ worker' = [worker EXCEPT ![e] =
          IF e = "stdin" /\ moved[e] = InputLen THEN "complete" ELSE "io"]
    /\ UNCHANGED <<kernelVars, pipe, moved, flags, cancel, expired, sup,
                   faults, errors, result>>

WorkerCheck(e) ==
    /\ worker[e] = "check"
    /\ worker' = [worker EXCEPT ![e] =
          IF e = "stdin" /\ moved[e] = InputLen THEN "complete"
          ELSE IF cancel THEN "cancelled" ELSE "io"]
    /\ UNCHANGED <<kernelVars, pipe, moved, flags, cancel, expired, sup,
                   faults, errors, result>>

(* write_stream: one write.  A pipe nobody can read fails with EPIPE.      *)
WriteStream ==
    /\ worker["stdin"] = "io"
    /\ \/ /\ HeldOpen("stdin") /\ pipe["stdin"] < PipeCap
          /\ pipe' = [pipe EXCEPT !["stdin"] = @ + 1]
          /\ moved' = [moved EXCEPT !["stdin"] = @ + 1]
          /\ worker' = [worker EXCEPT !["stdin"] = "check"]
          /\ UNCHANGED flags
       \/ /\ HeldOpen("stdin") /\ pipe["stdin"] = PipeCap
          /\ worker' = [worker EXCEPT !["stdin"] = "check"]
          /\ UNCHANGED <<pipe, moved, flags>>
       \/ /\ ~HeldOpen("stdin") /\ WorkerFails("stdin")
          /\ UNCHANGED <<pipe, moved>>
    /\ UNCHANGED <<kernelVars, cancel, expired, sup, faults, errors,
                   result>>

(* read_stream: one read.  Bytes past the cap are drained, not retained,   *)
(* and raise the overflow flag; end of file needs every writer gone.       *)
ReadStream(s) ==
    /\ worker[s] = "io"
    /\ \/ /\ pipe[s] > 0
          /\ pipe' = [pipe EXCEPT ![s] = @ - 1]
          /\ IF moved[s] < Cap[s]
             THEN moved' = [moved EXCEPT ![s] = @ + 1] /\ UNCHANGED flags
             ELSE flags' = flags \cup {<<s, "overflow">>} /\ UNCHANGED moved
          /\ worker' = [worker EXCEPT ![s] = "check"]
       \/ /\ pipe[s] = 0 /\ HeldOpen(s)
          /\ worker' = [worker EXCEPT ![s] = "check"]
          /\ UNCHANGED <<pipe, moved, flags>>
       \/ /\ pipe[s] = 0 /\ ~HeldOpen(s)
          /\ worker' = [worker EXCEPT ![s] = "complete"]
          /\ UNCHANGED <<pipe, moved, flags>>
    /\ UNCHANGED <<kernelVars, cancel, expired, sup, faults, errors,
                   result>>

(* An I/O error of the stream, or a panic of the thread. *)
WorkerFault(e) ==
    /\ worker[e] = "io" /\ faults < MaxFaults
    /\ \/ WorkerFails(e)
       \/ worker' = [worker EXCEPT ![e] = "panicked"] /\ UNCHANGED flags
    /\ faults' = faults + 1
    /\ UNCHANGED <<kernelVars, pipe, moved, cancel, expired, sup, errors,
                   result>>

WorkerStep(e) == \/ WorkerCheck(e)
                 \/ e = "stdin" /\ WriteStream
                 \/ e \in Outputs /\ ReadStream(e)

-----------------------------------------------------------------------------
(* The supervising thread, up to the first failure or to success. *)

Fails == faults < MaxFaults /\ faults' = faults + 1
OperationFails == Fails /\ errors' = TRUE
NoFailure == UNCHANGED <<faults, errors>>

SupervisorOnly == UNCHANGED <<parent, holds, emitted, pipe, workerVars, cancel,
                              expired, result>>

EnterCleanup(s, after) ==
    [s EXCEPT !.pc = "c_observe", !.after = after, !.round = 1,
              !.uncertain = FALSE]

(* The pipes are made non-blocking and the writer and the two readers are  *)
(* started, in that order; any failure contains the child.                 *)
StartWorker(e) ==
    /\ sup.pc = "setup" /\ worker[e] = "unspawned"
    /\ e = "stdout" => worker["stdin"] # "unspawned"
    /\ e = "stderr" => worker["stdout"] # "unspawned"
    /\ worker' = [worker EXCEPT ![e] = "check"]
    /\ sup' = IF e = "stderr" THEN [sup EXCEPT !.pc = "observe"] ELSE sup
    /\ NoFailure
    /\ UNCHANGED <<kernelVars, pipe, moved, flags, cancel, expired, result>>

SetupFails ==
    /\ sup.pc = "setup" /\ Fails /\ UNCHANGED errors
    /\ sup' = EnterCleanup(sup, "spawn")
    /\ UNCHANGED <<proc, killed>> /\ SupervisorOnly

(* OwnedChildren::observe_direct. *)
Observe ==
    /\ sup.pc = "observe"
    /\ \/ /\ NoFailure
          /\ sup' = [sup EXCEPT !.owned = @ \cup DirectChildren,
                               !.ready = FALSE,
                               !.pc = IF sup.status THEN "snapshot" ELSE "wait"]
       \/ /\ OperationFails
          /\ \E seen \in SUBSET DirectChildren :
                sup' = [sup EXCEPT !.owned = @ \cup seen, !.uncertain = TRUE,
                                   !.ready = FALSE, !.pc = "snapshot"]
    /\ UNCHANGED <<proc, killed>> /\ SupervisorOnly

(* Child::try_wait followed by OwnedChildren::main_reaped. *)
TryWait(here, next) ==
    /\ sup.pc = here
    /\ \/ /\ NoFailure /\ proc[Main] = "zombie"
          /\ proc' = [proc EXCEPT ![Main] = "gone"]
          /\ sup' = [sup EXCEPT !.status = TRUE, !.owned = @ \ {Main},
                               !.pc = next]
       \/ /\ NoFailure /\ proc[Main] # "zombie" /\ UNCHANGED proc
          /\ sup' = [sup EXCEPT !.pc = next]
       \/ /\ OperationFails /\ UNCHANGED proc
          /\ sup' = [sup EXCEPT !.uncertain = TRUE, !.pc = next]
    /\ UNCHANGED killed /\ SupervisorOnly

TakeSnapshot ==
    /\ sup.pc = "snapshot" /\ NoFailure
    /\ sup' = [sup EXCEPT
          !.primary = @ \cup Snapshot \cup (IF expired THEN {"Timeout"} ELSE {}),
          !.pc = IF sup.status /\ ~sup.uncertain THEN "reap" ELSE "select"]
    /\ UNCHANGED <<proc, killed>> /\ SupervisorOnly

(* OwnedChildren::reap_adopted: waitid on every owned pidfd but main's.    *)
(* When it fails for one child the others are still reaped.                *)
Dead == {p \in sup.owned \ {Main} : proc[p] = "zombie"}
Reaps(dead) == proc' = [p \in Procs |-> IF p \in dead THEN "gone" ELSE proc[p]]

ReapAdopted ==
    /\ sup.pc = "reap"
    /\ \/ /\ NoFailure /\ Reaps(Dead)
          /\ sup' = [sup EXCEPT !.owned = @ \ Dead, !.pc = "absent"]
       \/ /\ OperationFails
          /\ \E p \in sup.owned \ {Main} :
                /\ Reaps(Dead \ {p})
                /\ sup' = [sup EXCEPT !.owned = @ \ (Dead \ {p}),
                                     !.uncertain = TRUE, !.pc = "select"]
    /\ UNCHANGED killed /\ SupervisorOnly

(* OwnedChildren::fresh_absence, with is_finished of the three workers.    *)
FreshAbsence ==
    /\ sup.pc = "absent"
    /\ LET owned == sup.owned \cup DirectChildren
       IN  \/ /\ NoFailure
              /\ sup' = [sup EXCEPT !.owned = owned, !.pc = "select",
                    !.ready = owned = {} /\ AllFinished,
                    !.primary = @ \cup (IF owned = {} THEN {}
                                       ELSE {"LiveDescendant"})]
           \/ /\ OperationFails
              /\ \E seen \in SUBSET DirectChildren :
                    sup' = [sup EXCEPT !.owned = @ \cup seen,
                                       !.uncertain = TRUE, !.pc = "select"]
    /\ UNCHANGED <<proc, killed>> /\ SupervisorOnly

(* select_supervision_decision. *)
Select ==
    /\ sup.pc = "select" /\ NoFailure
    /\ sup' = IF sup.uncertain THEN EnterCleanup(sup, "uncertain")
              ELSE IF sup.primary # {} THEN EnterCleanup(sup, "primary")
              ELSE [sup EXCEPT !.pc = IF sup.ready THEN "join" ELSE "observe"]
    /\ UNCHANGED <<proc, killed>> /\ SupervisorOnly

-----------------------------------------------------------------------------
(* cleanup_process_tree: rounds of observe, signal, wait, reap and absence *)
(* proof, first with TERM, then with KILL, and one last round with KILL.   *)
(* sup.proof: the tree was observed and reaped without error this round.   *)

LastRound == TermRounds + KillRounds + 1

CleanupObserve ==
    /\ sup.pc = "c_observe"
    /\ \/ /\ NoFailure
          /\ sup' = [sup EXCEPT !.owned = @ \cup DirectChildren,
                               !.proof = TRUE, !.pc = "c_signal"]
       \/ /\ OperationFails
          /\ \E seen \in SUBSET DirectChildren :
                sup' = [sup EXCEPT !.owned = @ \cup seen, !.proof = FALSE,
                                   !.uncertain = TRUE, !.pc = "c_signal"]
    /\ UNCHANGED <<proc, killed>> /\ SupervisorOnly

(* OwnedChildren::signal.  TERM may be ignored by its receiver. *)
CleanupSignal ==
    /\ sup.pc = "c_signal"
    /\ LET next == IF sup.status THEN "c_reap" ELSE "c_wait"
           hit(set) == IF sup.round <= TermRounds THEN killed
                       ELSE killed \cup {p \in set : proc[p] = "live"}
       IN  \/ /\ NoFailure /\ killed' = hit(sup.owned)
              /\ sup' = [sup EXCEPT !.pc = next]
           \/ /\ OperationFails
              /\ \E p \in sup.owned : killed' = hit(sup.owned \ {p})
              /\ sup' = [sup EXCEPT !.uncertain = TRUE, !.pc = next]
    /\ UNCHANGED proc /\ SupervisorOnly

CleanupReap ==
    /\ sup.pc = "c_reap"
    /\ \/ /\ NoFailure /\ Reaps(Dead)
          /\ sup' = [sup EXCEPT !.owned = @ \ Dead, !.pc = "c_absent"]
       \/ /\ OperationFails
          /\ \E p \in sup.owned \ {Main} :
                /\ Reaps(Dead \ {p})
                /\ sup' = [sup EXCEPT !.owned = @ \ (Dead \ {p}),
                              !.proof = FALSE, !.uncertain = TRUE,
                              !.pc = "c_absent"]
    /\ UNCHANGED killed /\ SupervisorOnly

(* Variant: an uncertainty of an earlier round is forgotten. *)
RoundEndsForgetful(s, absent) ==
    LET proved == absent /\ s.status /\ s.proof
    IN  IF ~proved /\ s.round < LastRound
        THEN [s EXCEPT !.round = @ + 1, !.pc = "c_observe"]
        ELSE IF s.after = "contain"
        THEN [s EXCEPT !.pc = "restore", !.outcome =
                 IF proved THEN "CaptureSpawn" ELSE "CaptureCleanup"]
        ELSE [s EXCEPT !.clean = proved, !.pc = "cancel"]

(* What follows a round: the next one, or the end of the clean-up.         *)
(* contain_pidfd_receipt_failure has no workers to join.                   *)
RoundEnds(s, absent) ==
    LET proved == absent /\ s.status /\ s.proof
        clean == proved /\ ~s.uncertain
    IN  IF ~proved /\ s.round < LastRound
        THEN [s EXCEPT !.round = @ + 1, !.pc = "c_observe"]
        ELSE IF s.after = "contain"
        THEN [s EXCEPT !.pc = "restore", !.outcome =
                 IF clean THEN "CaptureSpawn" ELSE "CaptureCleanup"]
        ELSE [s EXCEPT !.clean = clean, !.pc = "cancel"]

(* Variant: the children already owned stand in for a fresh look. *)
CleanupAbsentStale ==
    /\ sup.pc = "c_absent"
    /\ \/ NoFailure /\ sup' = RoundEnds(sup, sup.owned = {})
       \/ OperationFails
            /\ sup' = RoundEnds([sup EXCEPT !.uncertain = TRUE], FALSE)
    /\ UNCHANGED <<proc, killed>> /\ SupervisorOnly

CleanupAbsent ==
    /\ sup.pc = "c_absent"
    /\ LET owned == sup.owned \cup DirectChildren
       IN  \/ /\ NoFailure
              /\ sup' = RoundEnds([sup EXCEPT !.owned = owned], owned = {})
           \/ /\ OperationFails
              /\ \E seen \in SUBSET DirectChildren :
                    sup' = RoundEnds([sup EXCEPT !.owned = @ \cup seen,
                                                 !.uncertain = TRUE], FALSE)
    /\ UNCHANGED <<proc, killed>> /\ SupervisorOnly

(* WorkerHandles::cancel_and_join, then cleanup_and_fail,                  *)
(* cleanup_uncertain_and_fail or cleanup_spawn_and_fail.                   *)
Cancel ==
    /\ sup.pc = "cancel" /\ NoFailure
    /\ cancel' = TRUE /\ sup' = [sup EXCEPT !.pc = "cancelled"]
    /\ UNCHANGED <<kernelVars, pipe, workerVars, expired, result>>

(* Variant: the verdict is what the loop had seen. *)
JoinCancelledEarlyVerdict ==
    /\ sup.pc = "cancelled" /\ Joinable /\ NoFailure
    /\ sup' = [sup EXCEPT !.pc = "restore", !.outcome =
          IF ~sup.clean \/ JoinUncertain \/ sup.after = "uncertain"
          THEN "CaptureCleanup"
          ELSE IF sup.after = "spawn" THEN "CaptureSpawn"
          ELSE Selected(sup.primary)]
    /\ UNCHANGED <<proc, killed>> /\ SupervisorOnly

JoinCancelled ==
    /\ sup.pc = "cancelled" /\ Joinable /\ NoFailure
    /\ sup' = [sup EXCEPT !.pc = "restore", !.outcome =
          IF ~sup.clean \/ JoinUncertain \/ sup.after = "uncertain"
          THEN "CaptureCleanup"
          ELSE IF sup.after = "spawn" THEN "CaptureSpawn"
          ELSE Selected(CloseObservation(sup.primary, TRUE))]
    /\ UNCHANGED <<proc, killed>> /\ SupervisorOnly

-----------------------------------------------------------------------------
(* The success path: join, close the observation of the workers' failures, *)
(* reap and prove absence once more.                                       *)

Returns(s, outcome) == [s EXCEPT !.pc = "restore", !.outcome = outcome]

(* Variant: the workers' last flags are not looked at. *)
JoinFinishedUnobserved ==
    /\ sup.pc = "join" /\ Joinable /\ NoFailure
    /\ sup' = IF JoinUncertain THEN Returns(sup, "CaptureCleanup")
              ELSE [sup EXCEPT !.pc = "f_reap", !.primary = {}]
    /\ UNCHANGED <<proc, killed>> /\ SupervisorOnly

JoinFinished ==
    /\ sup.pc = "join" /\ Joinable /\ NoFailure
    /\ sup' = IF JoinUncertain THEN Returns(sup, "CaptureCleanup")
              ELSE [sup EXCEPT !.pc = "f_reap",
                               !.primary = CloseObservation({}, FALSE)]
    /\ UNCHANGED <<proc, killed>> /\ SupervisorOnly

FinalReap ==    \* nothing is owned any more, so no waitid can fail
    /\ sup.pc = "f_reap"
    /\ NoFailure /\ Reaps(Dead)
    /\ sup' = [sup EXCEPT !.owned = @ \ Dead, !.pc = "f_absent"]
    /\ UNCHANGED killed /\ SupervisorOnly

FinalAbsence ==
    /\ sup.pc = "f_absent"
    /\ LET owned == sup.owned \cup DirectChildren
       IN  \/ /\ NoFailure
              /\ sup' = Returns([sup EXCEPT !.owned = owned],
                    IF owned # {} THEN "CaptureCleanup"
                    ELSE IF sup.primary # {} THEN Selected(sup.primary)
                    ELSE "Ok")
           \/ /\ OperationFails /\ sup' = Returns(sup, "CaptureCleanup")
    /\ UNCHANGED <<proc, killed>> /\ SupervisorOnly

(* execute_held_with_boundary_control: the subreaper and signal state are  *)
(* put back; when that fails its error replaces the outcome.               *)
Restore ==
    /\ sup.pc = "restore" /\ sup' = [sup EXCEPT !.pc = "done"]
    /\ \/ NoFailure /\ result' = sup.outcome
       \/ OperationFails /\ result' = "CaptureCleanup"
    /\ UNCHANGED <<kernelVars, pipe, workerVars, cancel, expired>>

Supervise ==
    \/ \E e \in Pipes : StartWorker(e)
    \/ SetupFails \/ Observe \/ TryWait("wait", "snapshot") \/ TakeSnapshot
    \/ ReapAdopted \/ FreshAbsence \/ Select
    \/ CleanupObserve \/ CleanupSignal \/ TryWait("c_wait", "c_reap")
    \/ CleanupReap \/ CleanupAbsent \/ Cancel \/ JoinCancelled
    \/ JoinFinished \/ FinalReap \/ FinalAbsence \/ Restore

Returned == result # "none" /\ UNCHANGED vars

Next ==
    \/ /\ result = "none"
       /\ \/ Supervise \/ Environment \/ Deadline
          \/ \E e \in Pipes : WorkerStep(e) \/ WorkerFault(e)
    \/ Returned

Spec == Init /\ [][Next]_vars

(* The threads of the supervising process are scheduled and its clock      *)
(* advances; nothing is assumed of the captured processes.                 *)
Fairness ==
    /\ WF_vars(result = "none" /\ Supervise)
    /\ WF_vars(result = "none" /\ Deadline)
    /\ \A e \in Pipes : WF_vars(result = "none" /\ WorkerStep(e))
FairSpec == Spec /\ Fairness

-----------------------------------------------------------------------------
(* Properties. *)

Gone == \A p \in Procs : proc[p] \in {"unborn", "gone"}

(* Type correctness of the capture's state: the process table, the pipes,  *)
(* the worker threads and the locals of supervise_spawned_child.           *)
TypeOK ==
    /\ proc \in [Procs -> {"unborn", "live", "zombie", "gone"}]
    /\ parent \in [Procs -> Procs \cup {Supervisor}]
    /\ holds \in [Procs -> SUBSET Pipes] /\ killed \subseteq Procs
    /\ pipe \in [Pipes -> 0 .. PipeCap]
    /\ emitted \in [Outputs -> Nat]
    /\ worker \in [Pipes -> {"unspawned"} \cup Running \cup Finished]
    /\ moved \in [Pipes -> Nat]
    /\ flags \subseteq (Pipes \X {"failed"}) \cup (Outputs \X {"overflow"})
    /\ cancel \in BOOLEAN /\ expired \in BOOLEAN
    /\ faults \in Nat /\ errors \in BOOLEAN
    /\ sup.owned \subseteq Procs /\ sup.primary \subseteq Primaries
    /\ sup.round \in 0 .. LastRound
    /\ result \in Primaries \cup {"none", "Ok", "CaptureSpawn",
                                   "CaptureCleanup"}

(* A capture that returns Ok is complete: no process of the tree is left,  *)
(* not even a zombie; all input was delivered; every byte the tree ever    *)
(* wrote was retained, within the caps; and no worker flagged a failure.   *)
SuccessIsComplete ==
    result = "Ok" =>
        /\ Gone
        /\ \A e \in Pipes : worker[e] = "complete"
        /\ moved["stdin"] = InputLen
        /\ \A s \in Outputs : moved[s] = emitted[s] /\ moved[s] <= Cap[s]
        /\ flags = {}

(* Every typed failure other than capture-cleanup is reported only after   *)
(* the whole process tree has been reaped ("after complete cleanup").      *)
FailureIsContained ==
    result \notin {"none", "CaptureCleanup"} => Gone

(* No pipe worker outlives the call, whatever it returns: the subreaper    *)
(* and signal state are never put back under a running thread.             *)
WorkersJoined ==
    result # "none" => \A e \in Pipes : worker[e] \notin Running

(* capture-cleanup dominates: once an observe, signal, wait, reap or       *)
(* restore operation has failed, no other verdict is returned, even when a *)
(* later round proves the tree absent.                                     *)
UncertaintyDominates ==
    errors /\ result # "none" => result = "CaptureCleanup"

(* A failure a worker has published is never masked by a weaker verdict:   *)
(* the answer is at least as strong as every flag set by the time the      *)
(* workers are joined, those set after the loop's last snapshot included.  *)
StrongestFailureWins ==
    result \in Primaries \cup {"Ok"} =>
        \A f \in Snapshot : result # "Ok"
            /\ \E i, j \in DOMAIN PRECEDENCE :
                  /\ PRECEDENCE[i] = result /\ PRECEDENCE[j] = f /\ i <= j

(* The call returns: supervision and clean-up take boundedly many rounds   *)
(* and the cancelled workers stop, even if no process ever exits.          *)
CaptureReturns == <>(result # "none")

(* "capture-live-descendant means known-main-status-with-fresh-live-owned- *)
(* descendant": the failure is recorded only when an owned process is      *)
(* alive at that observation.                                              *)
LiveDescendantIsLive ==
    [][("LiveDescendant" \in sup'.primary \ sup.primary)
          => \E p \in sup'.owned : proc[p] = "live"]_vars

(* The answer of a clean-up can be relied on, however its system calls     *)
(* failed: an operation that failed is never covered up by another         *)
(* verdict, and no worker thread outlives the call (cleanup_and_fail,      *)
(* cancel_and_join).                                                       *)
CleanUpTellsTheTruth == TypeOK /\ UncertaintyDominates /\ WorkersJoined
=============================================================================

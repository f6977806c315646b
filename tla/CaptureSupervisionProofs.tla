---------------------- MODULE CaptureSupervisionProofs ----------------------
(***************************************************************************)
(* Proofs about the supervision of a captured process tree, for every set  *)
(* of processes, every input, cap and number of rounds, and any number of  *)
(* failing system calls; and, in the last part, about the spawn handshake  *)
(* that comes before it.                                                   *)
(***************************************************************************)
EXTENDS CaptureSupervision, CaptureSpawn, TLAPS

-----------------------------------------------------------------------------
(* The process tree.                                                       *)

Alive(q) == proc[q] \in {"live", "zombie"}

ProcessTypes ==
    /\ proc \in [Procs -> {"unborn", "live", "zombie", "gone"}]
    /\ parent \in [Procs -> Procs \cup {Supervisor}]
    /\ holds \in [Procs -> SUBSET Pipes] /\ killed \subseteq Procs

(* The kernel hands the children of a process that exits to the            *)
(* subreaper: only a live process has children.                            *)
ParentsLive == \A q \in Procs : Alive(q) => parent[q] = Supervisor \/ proc[parent[q]] = "live"

(* Descent is well founded: whatever set of processes is alive, one of     *)
(* them has its parent outside the set.                                    *)
Rooted ==
    \A S \in SUBSET Procs :
        S # {} /\ (\A q \in S : Alive(q)) => \E q \in S : parent[q] \notin S

TreeInv == ProcessTypes /\ ParentsLive /\ Rooted

-----------------------------------------------------------------------------
(* The pipes and their workers.                                            *)

StreamTypes ==
    /\ pipe \in [Pipes -> 0 .. PipeCap] /\ emitted \in [Outputs -> Nat]
    /\ worker \in [Pipes -> {"unspawned"} \cup Running \cup Finished]
    /\ moved \in [Pipes -> Nat]
    /\ flags \subseteq (Pipes \X {"failed"}) \cup (Outputs \X {"overflow"})

(* Every byte the tree wrote is in the pipe or retained, unless the        *)
(* overflow flag says otherwise; a reader completes at end of file.        *)
OutputInv(s) ==
    /\ moved[s] <= Cap[s]
    /\ <<s, "overflow">> \notin flags => emitted[s] = moved[s] + pipe[s]
    /\ worker[s] = "complete" => pipe[s] = 0 /\ ~HeldOpen(s)

StreamInv ==
    /\ StreamTypes /\ (\A s \in Outputs : OutputInv(s))
    /\ worker["stdin"] = "complete" => moved["stdin"] = InputLen

-----------------------------------------------------------------------------
(* The supervising thread.                                                 *)

LoopSteps == {"observe", "wait", "snapshot", "reap", "absent", "select"}
CleanupSteps == {"c_observe", "c_signal", "c_wait", "c_reap", "c_absent"}
Outcomes == Primaries \cup {"Ok", "CaptureSpawn", "CaptureCleanup"}

SupFields == {"pc", "status", "owned", "primary", "ready", "uncertain", "round", "proof", "clean",
              "after", "outcome"}

SupRecord ==
    /\ sup = [x \in SupFields |-> sup[x]]
    /\ sup.pc \in {"setup", "cancel", "cancelled", "join", "f_reap", "f_absent", "restore", "done"}
                  \cup LoopSteps \cup CleanupSteps
    /\ sup.owned \subseteq Procs /\ sup.primary \subseteq Primaries /\ sup.round \in 0 .. LastRound
    /\ sup.after \in {"none", "contain", "spawn", "primary", "uncertain"}
    /\ sup.outcome \in Outcomes \cup {"none"}

SupervisorTypes ==
    /\ SupRecord
    /\ cancel \in BOOLEAN /\ expired \in BOOLEAN /\ faults \in Nat /\ errors \in BOOLEAN
    /\ result \in Outcomes \cup {"none"}

(* Why the clean-up was entered.                                           *)
ReasonInv ==
    /\ sup.pc \in LoopSteps \cup {"setup", "join", "f_reap", "f_absent"} => sup.after = "none"
    /\ sup.pc \in CleanupSteps => sup.after # "none"
    /\ sup.pc \in {"cancel", "cancelled"} => sup.after \in {"spawn", "primary", "uncertain"}
    /\ sup.after = "contain" => sup.pc \in CleanupSteps \cup {"restore", "done"}
    /\ sup.after = "primary" => sup.primary # {}

(* The workers are started in order, none for a child that never ran, and  *)
(* joined before the call ends.                                            *)
WorkersInv ==
    /\ worker["stdout"] # "unspawned" => worker["stdin"] # "unspawned"
    /\ sup.pc # "setup" /\ sup.after \notin {"contain", "spawn"} => \A e \in Pipes : worker[e] # "unspawned"
    /\ sup.after = "contain" => \A e \in Pipes : worker[e] = "unspawned"
    /\ sup.pc \in {"f_reap", "f_absent", "restore", "done"} => Joinable

(* A failed operation is remembered until it has become the outcome.       *)
ErrorsInv ==
    errors =>
        /\ sup.pc \notin {"setup", "join", "f_reap", "f_absent"}
        /\ sup.pc \in LoopSteps => sup.uncertain
        /\ sup.pc \in CleanupSteps => sup.uncertain \/ sup.after = "uncertain"
        /\ sup.pc \in {"cancel", "cancelled"} => ~sup.clean \/ sup.after = "uncertain"
        /\ sup.pc = "restore" => sup.outcome = "CaptureCleanup"
        /\ result # "none" => result = "CaptureCleanup"

(* An absence that was proved lasts.                                       *)
AbsenceInv ==
    /\ sup.pc \in {"cancel", "cancelled"} /\ sup.clean => Gone
    /\ sup.pc \in {"restore", "done"} /\ sup.outcome # "CaptureCleanup" => Gone

(* The answer is the strongest failure there is.                           *)
Dominates(answer) ==
    \A f \in Snapshot :
        \E i, j \in DOMAIN PRECEDENCE : PRECEDENCE[i] = answer /\ PRECEDENCE[j] = f /\ i <= j

AnswerInv ==
    /\ sup.pc \in {"f_reap", "f_absent"} =>
          ~JoinUncertain /\ sup.primary = CloseObservation({}, FALSE)
    /\ sup.pc \in {"restore", "done"} =>
          /\ sup.outcome # "none"
          /\ sup.outcome = "Ok" => flags = {} /\ \A e \in Pipes : worker[e] = "complete"
          /\ sup.outcome \in Primaries => Dominates(sup.outcome)
    /\ result # "none" => sup.pc = "done" /\ result \in {sup.outcome, "CaptureCleanup"}

ControlInv == SupervisorTypes /\ ReasonInv /\ WorkersInv /\ ErrorsInv /\ AbsenceInv /\ AnswerInv

CaptureInv == TreeInv /\ StreamInv /\ ControlInv

-----------------------------------------------------------------------------
(* The order of the failures.                                              *)

LEMMA PrecedenceIs ==
    /\ DOMAIN PRECEDENCE = 1 .. 6
    /\ Primaries = {"StdoutOverflow", "StderrOverflow", "Stdin", "StreamState", "Timeout",
                    "LiveDescendant"}
<1>1. DOMAIN PRECEDENCE = 1 .. 6
  BY DEF PRECEDENCE
<1>2. 1 .. 6 = {1, 2, 3, 4, 5, 6}
  OBVIOUS
<1>3. QED
  BY <1>1, <1>2 DEF PRECEDENCE, Primaries

(* PrimaryCaptureFailures::selected answers the first one that is there.   *)
LEMMA SelectedIsFirst ==
    ASSUME NEW P \in SUBSET Primaries, P # {}
    PROVE  \E i \in DOMAIN PRECEDENCE :
              /\ PRECEDENCE[i] = Selected(P) /\ PRECEDENCE[i] \in P
              /\ \A j \in 1 .. i - 1 : PRECEDENCE[j] \notin P
<1> DEFINE First(i) == PRECEDENCE[i] \in P /\ \A j \in 1 .. i - 1 : PRECEDENCE[j] \notin P
<1>1. \E i \in 1 .. 6 : PRECEDENCE[i] \in P
  BY PrecedenceIs DEF Primaries
<1>2. \E i \in 1 .. 6 : First(i)
  <2>1. CASE PRECEDENCE[1] \in P
    BY <2>1
  <2>2. CASE PRECEDENCE[1] \notin P /\ PRECEDENCE[2] \in P
    BY <2>2
  <2>3. CASE PRECEDENCE[1] \notin P /\ PRECEDENCE[2] \notin P /\ PRECEDENCE[3] \in P
    BY <2>3
  <2>4. CASE PRECEDENCE[1] \notin P /\ PRECEDENCE[2] \notin P /\ PRECEDENCE[3] \notin P /\ PRECEDENCE[4] \in P
    BY <2>4
  <2>5. CASE /\ PRECEDENCE[1] \notin P /\ PRECEDENCE[2] \notin P /\ PRECEDENCE[3] \notin P
             /\ PRECEDENCE[4] \notin P /\ PRECEDENCE[5] \in P
    BY <2>5
  <2>6. CASE /\ PRECEDENCE[1] \notin P /\ PRECEDENCE[2] \notin P /\ PRECEDENCE[3] \notin P
             /\ PRECEDENCE[4] \notin P /\ PRECEDENCE[5] \notin P
    BY <1>1, <2>6
  <2>7. QED
    BY <2>1, <2>2, <2>3, <2>4, <2>5, <2>6
<1>3. First(CHOOSE i \in DOMAIN PRECEDENCE : First(i))
  BY <1>2, PrecedenceIs
<1>4. (CHOOSE i \in DOMAIN PRECEDENCE : First(i)) \in DOMAIN PRECEDENCE
  BY <1>2, PrecedenceIs
<1>5. QED
  BY <1>3, <1>4 DEF Selected

-----------------------------------------------------------------------------
(* The process tree.                                                       *)

(* Reaping leaves a tree a tree.                                           *)
LEMMA TreeShrinks ==
    ASSUME TreeInv, ProcessTypes', UNCHANGED parent,
           \A q \in Procs : proc'[q] = proc[q] \/ (proc[q] = "zombie" /\ proc'[q] = "gone")
    PROVE  TreeInv'
<1>1. \A q \in Procs : Alive(q)' => Alive(q)
  BY DEF Alive
<1>2. ParentsLive'
  BY <1>1 DEF TreeInv, ProcessTypes, ParentsLive, Alive
<1>3. Rooted'
  BY <1>1 DEF TreeInv, Rooted
<1>4. QED
  BY <1>2, <1>3 DEF TreeInv

LEMMA ForkKeepsTree ==
    ASSUME TreeInv, NEW p \in Procs, NEW q \in Procs, Fork(p, q)
    PROVE  TreeInv'
<1>1. /\ p # q /\ proc[p] = "live" /\ proc'[q] = "live" /\ parent'[q] = p
      /\ \A x \in Procs \ {q} : proc'[x] = proc[x] /\ parent'[x] = parent[x]
      /\ ~Alive(q)
  BY DEF Fork, Able, TreeInv, ProcessTypes, Alive
<1>2. ProcessTypes'
  BY DEF Fork, TreeInv, ProcessTypes
<1>3. \A x \in Procs : Alive(x) => parent[x] # q
  BY <1>1, SupervisorIsNotSupervised DEF TreeInv, ParentsLive, Alive
<1>4. ParentsLive'
  BY <1>1, <1>3 DEF TreeInv, ProcessTypes, ParentsLive, Alive
<1>5. ASSUME NEW S \in SUBSET Procs, S # {}, \A x \in S : Alive(x)'
      PROVE  \E x \in S : parent'[x] \notin S
  <2>1. CASE S \subseteq {q}
    BY <1>1, <1>5, <2>1
  <2>2. CASE ~(S \subseteq {q})
    <3>1. (S \ {q}) \in SUBSET Procs /\ S \ {q} # {} /\ \A x \in S \ {q} : Alive(x)
      BY <1>1, <1>5, <2>2 DEF Alive
    <3>2. PICK x \in S \ {q} : parent[x] \notin S \ {q}
      BY <3>1 DEF TreeInv, Rooted
    <3>3. parent[x] # q /\ parent'[x] = parent[x]
      BY <1>1, <1>3, <3>1, <3>2
    <3>4. QED
      BY <3>2, <3>3
  <2>3. QED
    BY <2>1, <2>2
<1>6. QED
  BY <1>2, <1>4, <1>5 DEF TreeInv, Rooted

LEMMA ExitKeepsTree ==
    ASSUME TreeInv, NEW p \in Procs, Exit(p)
    PROVE  TreeInv'
<1>1. /\ \A x \in Procs : Alive(x)' <=> Alive(x)
      /\ \A x \in Procs : parent'[x] = IF parent[x] = p THEN Supervisor ELSE parent[x]
      /\ \A x \in Procs \ {p} : proc'[x] = proc[x]
  BY DEF Exit, TreeInv, ProcessTypes, Alive
<1>2. ProcessTypes'
  BY DEF Exit, TreeInv, ProcessTypes
<1>3. ParentsLive'
  BY <1>1 DEF TreeInv, ProcessTypes, ParentsLive
<1>4. ASSUME NEW S \in SUBSET Procs, S # {}, \A x \in S : Alive(x)'
      PROVE  \E x \in S : parent'[x] \notin S
  <2>1. PICK x \in S : parent[x] \notin S
    BY <1>1, <1>4 DEF TreeInv, Rooted
  <2>2. QED
    BY <1>1, <2>1, SupervisorIsNotSupervised
<1>5. QED
  BY <1>2, <1>3, <1>4 DEF TreeInv, Rooted

(* An empty list of children is proof of absence: a process that is alive  *)
(* has an ancestor that is a child of the supervisor.                      *)
LEMMA AbsenceIsProof ==
    ASSUME TreeInv, DirectChildren = {}
    PROVE  Gone
<1> DEFINE S == {q \in Procs : Alive(q)}
<1>1. SUFFICES S = {}
  BY DEF Gone, Alive, TreeInv, ProcessTypes
<1>2. SUFFICES ASSUME S # {} PROVE FALSE
  OBVIOUS
<1>3. PICK q \in S : parent[q] \notin S
  BY <1>2 DEF TreeInv, Rooted
<1>4. parent[q] = Supervisor
  BY <1>3 DEF TreeInv, ProcessTypes, ParentsLive, Alive
<1>5. QED
  BY <1>3, <1>4 DEF DirectChildren, Children, Alive

(* Whatever happens, what is proved absent stays absent and a pipe whose   *)
(* far end nobody holds stays closed.                                      *)
Settles == TreeInv' /\ (Gone => Gone') /\ \A e \in Pipes : HeldOpen(e)' => HeldOpen(e)

LEMMA ReapingSettles ==
    ASSUME TreeInv, UNCHANGED <<parent, holds>>, killed' \subseteq Procs,
           proc' = proc \/ \E dead \in SUBSET Procs :
                             /\ \A q \in dead : proc[q] = "zombie"
                             /\ proc' = [q \in Procs |-> IF q \in dead THEN "gone" ELSE proc[q]]
    PROVE  Settles
<1>1. /\ proc' \in [Procs -> {"unborn", "live", "zombie", "gone"}]
      /\ \A q \in Procs : proc'[q] = proc[q] \/ (proc[q] = "zombie" /\ proc'[q] = "gone")
  BY DEF TreeInv, ProcessTypes
<1>2. TreeInv'
  BY <1>1, TreeShrinks DEF TreeInv, ProcessTypes
<1>3. QED
  BY <1>1, <1>2 DEF Settles, Gone, HeldOpen

LEMMA EnvironmentSettles == ASSUME TreeInv, Environment PROVE Settles
<1>1. ASSUME NEW p \in Procs, NEW q \in Procs, Fork(p, q) PROVE Settles
  <2>1. Gone => Gone'
    BY <1>1 DEF Fork, Able, Gone
  <2>2. \A e \in Pipes : HeldOpen(e)' => HeldOpen(e)
    BY <1>1 DEF Fork, HeldOpen, TreeInv, ProcessTypes
  <2>3. QED
    BY <1>1, <2>1, <2>2, ForkKeepsTree DEF Settles
<1>2. ASSUME NEW p \in Procs, NEW q \in Procs, WaitForChild(p, q) PROVE Settles
  <2>1. proc' = [x \in Procs |-> IF x \in {q} THEN "gone" ELSE proc[x]] /\ proc[q] = "zombie"
    BY <1>2 DEF WaitForChild, TreeInv, ProcessTypes
  <2>2. QED
    BY <1>2, <2>1, ReapingSettles DEF WaitForChild, TreeInv, ProcessTypes
<1>3. ASSUME NEW p \in Procs, Exit(p) PROVE Settles
  <2>1. Gone => Gone'
    BY <1>3 DEF Exit, Gone
  <2>2. \A e \in Pipes : HeldOpen(e)' => HeldOpen(e)
    BY <1>3 DEF Exit, HeldOpen, TreeInv, ProcessTypes
  <2>3. QED
    BY <1>3, <2>1, <2>2, ExitKeepsTree DEF Settles
<1>4. ASSUME NEW p \in Procs, Consume(p) PROVE Settles
  BY <1>4, ReapingSettles DEF Consume, kernelVars, TreeInv, ProcessTypes
<1>5. ASSUME NEW p \in Procs, NEW e \in Pipes, CloseEnd(p, e) PROVE Settles
  <2>1. ProcessTypes' /\ UNCHANGED <<proc, parent>>
    BY <1>5 DEF CloseEnd, TreeInv, ProcessTypes
  <2>2. TreeInv'
    BY <2>1, TreeShrinks
  <2>3. \A f \in Pipes : HeldOpen(f)' => HeldOpen(f)
    BY <1>5 DEF CloseEnd, HeldOpen, TreeInv, ProcessTypes
  <2>4. QED
    BY <2>1, <2>2, <2>3 DEF Settles, Gone
<1>6. ASSUME NEW p \in Procs, NEW e \in Outputs, Emit(p, e) PROVE Settles
  BY <1>6, ReapingSettles DEF Emit, TreeInv, ProcessTypes
<1>7. QED
  BY <1>1, <1>2, <1>3, <1>4, <1>5, <1>6 DEF Environment

LEMMA SuperviseSettles == ASSUME TreeInv, SupervisorTypes, Supervise PROVE Settles
<1> USE DEF SupervisorOnly, kernelVars
<1>0. killed \subseteq Procs /\ sup.owned \subseteq Procs
  BY DEF TreeInv, ProcessTypes, SupervisorTypes, SupRecord
<1>1. CASE UNCHANGED <<proc, parent, holds, killed>>
  BY <1>0, <1>1, ReapingSettles
<1>2. CASE \/ \E e \in Pipes : StartWorker(e)
           \/ SetupFails \/ Observe \/ TakeSnapshot \/ FreshAbsence \/ Select
           \/ CleanupObserve \/ CleanupAbsent \/ Cancel \/ JoinCancelled
           \/ JoinFinished \/ FinalAbsence \/ Restore
  BY <1>1, <1>2 DEF StartWorker, SetupFails, Observe, TakeSnapshot, FreshAbsence, Select, CleanupObserve,
                    CleanupAbsent, Cancel, JoinCancelled, JoinFinished, FinalAbsence, Restore
<1>3. ASSUME NEW here, NEW next, TryWait(here, next) PROVE Settles
  <2>1. CASE proc' = proc
    BY <1>1, <1>3, <2>1 DEF TryWait
  <2>2. CASE proc[Main] = "zombie" /\ proc' = [proc EXCEPT ![Main] = "gone"]
    <3>1. proc' = [q \in Procs |-> IF q \in {Main} THEN "gone" ELSE proc[q]] /\ {Main} \in SUBSET Procs
      BY <2>2, CaptureAssumption DEF TreeInv, ProcessTypes
    <3>2. UNCHANGED <<parent, holds, killed>>
      BY <1>3 DEF TryWait
    <3>3. QED
      BY <1>0, <2>2, <3>1, <3>2, ReapingSettles
  <2>3. QED
    BY <1>3, <2>1, <2>2 DEF TryWait
<1>4. CASE ReapAdopted \/ CleanupReap \/ FinalReap
  <2>1. UNCHANGED <<parent, holds, killed>> /\ \E dead \in SUBSET Dead : Reaps(dead)
    BY <1>4 DEF ReapAdopted, CleanupReap, FinalReap
  <2>2. QED
    BY <1>0, <2>1, ReapingSettles DEF Dead, Reaps
<1>5. CASE CleanupSignal
  <2>1. UNCHANGED <<proc, parent, holds>>
    BY <1>5 DEF CleanupSignal
  <2>2. killed' \subseteq Procs
    BY <1>0, <1>5 DEF CleanupSignal
  <2>3. QED
    BY <2>1, <2>2, ReapingSettles
<1>6. QED
  BY <1>2, <1>3, <1>4, <1>5 DEF Supervise

LEMMA StepSettles == ASSUME TreeInv, SupervisorTypes, [Next]_vars PROVE Settles
<1>1. CASE UNCHANGED kernelVars
  BY <1>1, ReapingSettles DEF kernelVars, TreeInv, ProcessTypes
<1>2. CASE Deadline \/ Returned \/ UNCHANGED vars
  BY <1>1, <1>2 DEF Deadline, Returned, vars
<1>3. ASSUME NEW e \in Pipes, WorkerStep(e) \/ WorkerFault(e) PROVE Settles
  BY <1>1, <1>3 DEF WorkerStep, WorkerFault, WorkerCheck, WriteStream, ReadStream
<1>4. QED
  BY <1>2, <1>3, EnvironmentSettles, SuperviseSettles DEF Next

-----------------------------------------------------------------------------
(* The pipes.                                                              *)

LEMMA StreamsUnchanged ==
    ASSUME StreamInv, Settles, UNCHANGED <<emitted, pipe, worker, moved, flags>>
    PROVE  StreamInv'
BY DEF StreamInv, StreamTypes, OutputInv, Settles, Pipes, Outputs

LEMMA EnvironmentStreams == ASSUME TreeInv, StreamInv, Settles, Environment PROVE StreamInv'
<1>1. ASSUME NEW p \in Procs, Consume(p) PROVE StreamInv'
  <2>1. StreamTypes'
    BY <1>1, CaptureAssumption DEF Consume, kernelVars, workerVars, StreamInv, StreamTypes, Pipes
  <2>2. \A s \in Outputs : pipe'[s] = pipe[s]
    BY <1>1 DEF Consume, StreamInv, StreamTypes, Pipes, Outputs
  <2>3. QED
    BY <1>1, <2>1, <2>2 DEF Consume, kernelVars, workerVars, StreamInv, OutputInv, Settles, Pipes, HeldOpen
<1>2. ASSUME NEW p \in Procs, NEW s \in Outputs, Emit(p, s) PROVE StreamInv'
  <2>1. StreamTypes'
    BY <1>2, CaptureAssumption DEF Emit, workerVars, StreamInv, StreamTypes, Pipes
  <2>2. \A x \in Outputs : x # s => pipe'[x] = pipe[x] /\ emitted'[x] = emitted[x]
    BY <1>2 DEF Emit, StreamInv, StreamTypes, Pipes
  <2>3. pipe'[s] = pipe[s] + 1 /\ emitted'[s] = emitted[s] + 1 /\ s \in Pipes
    BY <1>2 DEF Emit, StreamInv, StreamTypes, Pipes
  <2>4. HeldOpen(s)
    BY <1>2 DEF Emit, HeldOpen
  <2>5. pipe[s] \in Nat /\ emitted[s] \in Nat /\ moved[s] \in Nat
    BY <2>3, CaptureAssumption DEF StreamInv, StreamTypes
  <2>6. OutputInv(s)'
    BY <1>2, <2>3, <2>4, <2>5 DEF Emit, workerVars, StreamInv, OutputInv
  <2>7. \A x \in Outputs : x # s => OutputInv(x)'
    BY <1>2, <2>2 DEF Emit, workerVars, StreamInv, OutputInv, Settles, Pipes
  <2>8. QED
    BY <1>2, <2>1, <2>6, <2>7 DEF Emit, workerVars, StreamInv
<1>3. CASE \/ \E p, q \in Procs : Fork(p, q) \/ WaitForChild(p, q)
           \/ \E p \in Procs : Exit(p)
           \/ \E p \in Procs, e \in Pipes : CloseEnd(p, e)
  BY <1>3, StreamsUnchanged DEF Fork, WaitForChild, Exit, CloseEnd, workerVars
<1>4. QED
  BY <1>1, <1>2, <1>3 DEF Environment

LEMMA WorkerStreams ==
    ASSUME StreamInv, Settles, NEW e \in Pipes, WorkerStep(e) \/ WorkerFault(e)
    PROVE  StreamInv'
<1> USE DEF StreamInv, StreamTypes, kernelVars
<1>1. CASE WorkerCheck(e)
  <2>1. StreamTypes'
    BY <1>1 DEF WorkerCheck, Running, Finished
  <2>2. \A x \in Pipes : worker'[x] = "complete" => worker[x] = "complete" \/ (x = "stdin" /\ moved[x] = InputLen)
    BY <1>1 DEF WorkerCheck
  <2>3. \A s \in Outputs : OutputInv(s)'
    BY <1>1, <2>2 DEF WorkerCheck, OutputInv, Settles, Pipes, Outputs
  <2>4. QED
    BY <1>1, <2>1, <2>2, <2>3 DEF WorkerCheck, Pipes
<1>2. CASE e = "stdin" /\ WriteStream
  <2>1. StreamTypes'
    BY <1>2, CaptureAssumption DEF WriteStream, WorkerFails, Running, Finished
  <2>2. \A s \in Outputs : OutputInv(s)'
    BY <1>2 DEF WriteStream, WorkerFails, OutputInv, Settles, Pipes, Outputs
  <2>3. QED
    BY <1>2, <2>1, <2>2 DEF WriteStream, WorkerFails
<1>3. CASE e \in Outputs /\ ReadStream(e)
  <2>1. StreamTypes'
    BY <1>3, CaptureAssumption DEF ReadStream, Running, Finished
  <2>2. OutputInv(e)'
    BY <1>3, CaptureAssumption DEF ReadStream, OutputInv, Settles
  <2>3. \A s \in Outputs : s # e => OutputInv(s)'
    BY <1>3 DEF ReadStream, OutputInv, Settles, Pipes, Outputs
  <2>4. QED
    BY <1>3, <2>1, <2>2, <2>3 DEF ReadStream, Pipes, Outputs
<1>4. CASE WorkerFault(e)
  <2>1. StreamTypes'
    BY <1>4 DEF WorkerFault, WorkerFails, Running, Finished
  <2>2. \A s \in Outputs : OutputInv(s)'
    BY <1>4 DEF WorkerFault, WorkerFails, OutputInv, Settles, Pipes, Outputs
  <2>3. QED
    BY <1>4, <2>1, <2>2 DEF WorkerFault, WorkerFails, Pipes
<1>5. QED
  BY <1>1, <1>2, <1>3, <1>4 DEF WorkerStep

LEMMA SuperviseStreams == ASSUME StreamInv, Settles, Supervise PROVE StreamInv'
<1>1. ASSUME NEW e \in Pipes, StartWorker(e) PROVE StreamInv'
  <2>1. StreamTypes' /\ \A x \in Pipes : worker'[x] = "complete" => worker[x] = "complete"
    BY <1>1 DEF StartWorker, kernelVars, StreamInv, StreamTypes, Running
  <2>2. QED
    BY <1>1, <2>1 DEF StartWorker, kernelVars, StreamInv, OutputInv, Settles, Pipes
<1>2. CASE \A e \in Pipes : ~StartWorker(e)
  <2>1. UNCHANGED <<emitted, pipe, worker, moved, flags>>
    BY <1>2 DEF Supervise, SetupFails, Observe, TryWait, TakeSnapshot, ReapAdopted, FreshAbsence, Select,
                CleanupObserve, CleanupSignal, CleanupReap, CleanupAbsent, Cancel, JoinCancelled,
                JoinFinished, FinalReap, FinalAbsence, Restore, SupervisorOnly, kernelVars, workerVars
  <2>2. QED
    BY <2>1, StreamsUnchanged
<1>3. QED
  BY <1>1, <1>2

LEMMA StepStreams == ASSUME TreeInv, StreamInv, Settles, [Next]_vars PROVE StreamInv'
<1>1. CASE Deadline \/ Returned \/ UNCHANGED vars
  BY <1>1, StreamsUnchanged DEF Deadline, Returned, vars, kernelVars, workerVars
<1>2. QED
  BY <1>1, EnvironmentStreams, WorkerStreams, SuperviseStreams DEF Next

-----------------------------------------------------------------------------
(* The supervising thread, while others take a step.                       *)

LEMMA OthersKeepControl ==
    ASSUME ControlInv, Settles, result = "none", UNCHANGED <<cancel, sup, errors, result>>,
           expired' \in BOOLEAN, faults' \in Nat,
           \/ UNCHANGED <<worker, flags>>
           \/ ~Joinable /\ \A e \in Pipes : worker[e] = "unspawned" <=> worker'[e] = "unspawned"
    PROVE  ControlInv'
<1> USE DEF ControlInv
<1>1. SupervisorTypes'
  BY DEF SupervisorTypes, SupRecord
<1>2. ReasonInv' /\ ErrorsInv'
  BY DEF ReasonInv, ErrorsInv
<1>3. WorkersInv'
  BY DEF WorkersInv, Joinable, Pipes, Outputs
<1>4. AbsenceInv'
  BY DEF AbsenceInv, Settles
<1>5. AnswerInv'
  BY DEF AnswerInv, WorkersInv, JoinUncertain, CloseObservation, Dominates, Snapshot
<1>6. QED
  BY <1>1, <1>2, <1>3, <1>4, <1>5

LEMMA EnvironmentControl ==
    ASSUME ControlInv, StreamInv, Settles, result = "none", Environment \/ Deadline
    PROVE  ControlInv'
<1>1. /\ UNCHANGED <<cancel, sup, errors, result, faults, worker, flags>>
      /\ expired' = expired \/ expired' = TRUE
  BY DEF Environment, Deadline, Fork, WaitForChild, Exit, Consume, CloseEnd, Emit, kernelVars, workerVars
<1>2. faults' \in Nat
  BY <1>1 DEF ControlInv, SupervisorTypes
<1>3. expired' \in BOOLEAN
  BY <1>1 DEF ControlInv, SupervisorTypes
<1>4. QED
  BY <1>1, <1>2, <1>3, OthersKeepControl

LEMMA WorkerControl ==
    ASSUME ControlInv, StreamInv, Settles, result = "none", NEW e \in Pipes,
           WorkerStep(e) \/ WorkerFault(e)
    PROVE  ControlInv'
<1>1. UNCHANGED <<cancel, sup, errors, result, expired>> /\ worker[e] \in Running
  BY DEF WorkerStep, WorkerFault, WorkerCheck, WriteStream, ReadStream, Running
<1>2. faults' = faults \/ faults' = faults + 1
  BY DEF WorkerStep, WorkerFault, WorkerCheck, WriteStream, ReadStream
<1>3. faults' \in Nat
  BY <1>2 DEF ControlInv, SupervisorTypes
<1>4. expired' \in BOOLEAN
  BY <1>1 DEF ControlInv, SupervisorTypes
<1>5. ~Joinable
  BY <1>1 DEF Joinable, Running, Finished
<1>6. \E w \in {"check", "io"} \cup Finished : worker' = [worker EXCEPT ![e] = w]
  BY DEF WorkerStep, WorkerFault, WorkerCheck, WriteStream, ReadStream, WorkerFails, Finished
<1>7. \A x \in Pipes : worker[x] = "unspawned" <=> worker'[x] = "unspawned"
  BY <1>1, <1>6 DEF StreamInv, StreamTypes, Running, Finished
<1>8. QED
  BY <1>1, <1>3, <1>4, <1>5, <1>7, OthersKeepControl

-----------------------------------------------------------------------------
(* The supervising thread's own steps.                                     *)

LEMMA SnapshotTypes ==
    ASSUME NEW P \in SUBSET Primaries, NEW b \in BOOLEAN
    PROVE  Snapshot \subseteq Primaries /\ Snapshot \subseteq CloseObservation(P, b)
           /\ P \subseteq CloseObservation(P, b) /\ CloseObservation(P, b) \subseteq Primaries
BY PrecedenceIs DEF Snapshot, CloseObservation

LEMMA StartWorkerControl ==
    ASSUME ControlInv, StreamInv, Settles, result = "none", NEW e \in Pipes, StartWorker(e)
    PROVE  ControlInv'
<1> USE DEF ControlInv
<1>1. SupervisorTypes'
  BY DEF StartWorker, NoFailure, SupervisorTypes, SupRecord, SupFields, LoopSteps
<1>2. ReasonInv' /\ ErrorsInv' /\ AbsenceInv' /\ AnswerInv'
  BY DEF StartWorker, NoFailure, SupervisorTypes, SupRecord, SupFields, ReasonInv, ErrorsInv, AbsenceInv, AnswerInv, LoopSteps, CleanupSteps
<1>3. WorkersInv'
  BY DEF StartWorker, StreamInv, StreamTypes, SupervisorTypes, SupRecord, SupFields, WorkersInv, ReasonInv, Pipes, Outputs, CleanupSteps
<1>4. QED
  BY <1>1, <1>2, <1>3

(* A step within a loop: it goes on to one of the steps in next, may own   *)
(* more children or record more failures, and remembers a failed operation.*)
Moves(next) ==
    /\ sup' = [x \in SupFields |-> sup'[x]]
    /\ sup'.pc \in next /\ sup'.owned \subseteq sup.owned \cup DirectChildren
    /\ sup.primary \subseteq sup'.primary /\ sup'.primary \subseteq Primaries
    /\ sup'.round = sup.round /\ sup'.after = sup.after /\ sup'.outcome = sup.outcome
    /\ sup.uncertain => sup'.uncertain
    /\ errors' => errors \/ sup'.uncertain

LEMMA MovesTypes ==
    ASSUME SupRecord, NEW next, Moves(next), next \subseteq LoopSteps \/ next \subseteq CleanupSteps
    PROVE  SupRecord'
<1>1. DirectChildren \subseteq Procs
  BY DEF DirectChildren, Children
<1>2. sup'.pc \in LoopSteps \cup CleanupSteps
  BY DEF Moves
<1>3. QED
  BY <1>1, <1>2 DEF Moves, SupRecord

LEMMA TryWaitMoves ==
    ASSUME SupRecord, NEW here, NEW next, TryWait(here, next)
    PROVE  Moves({next})
<1>1. \/ sup' = [sup EXCEPT !.status = TRUE, !.owned = @ \ {Main}, !.pc = next] /\ errors' = errors
      \/ sup' = [sup EXCEPT !.pc = next] /\ errors' = errors
      \/ sup' = [sup EXCEPT !.uncertain = TRUE, !.pc = next]
  BY DEF TryWait, NoFailure
<1>2. sup = [x \in SupFields |-> sup[x]] /\ sup.primary \subseteq Primaries
  BY DEF SupRecord
<1>3. CASE sup' = [sup EXCEPT !.status = TRUE, !.owned = @ \ {Main}, !.pc = next] /\ errors' = errors
  BY <1>2, <1>3 DEF SupFields, Moves
<1>4. CASE sup' = [sup EXCEPT !.pc = next] /\ errors' = errors
  BY <1>2, <1>4 DEF SupFields, Moves
<1>5. CASE sup' = [sup EXCEPT !.uncertain = TRUE, !.pc = next]
  BY <1>2, <1>5 DEF SupFields, Moves
<1>6. QED
  BY <1>1, <1>3, <1>4, <1>5

LEMMA LoopMoves ==
    ASSUME SupRecord, Observe \/ TakeSnapshot \/ ReapAdopted \/ FreshAbsence
    PROVE  Moves(LoopSteps)
<1> USE DEF SupFields, LoopSteps, Moves
<1>0. sup = [x \in SupFields |-> sup[x]] /\ sup.primary \subseteq Primaries
  BY DEF SupRecord
<1>1. CASE Observe
  <2>1. CASE NoFailure /\ sup' = [sup EXCEPT !.owned = @ \cup DirectChildren, !.ready = FALSE,
                                      !.pc = IF sup.status THEN "snapshot" ELSE "wait"]
    BY <1>0, <2>1 DEF NoFailure
  <2>2. CASE \E seen \in SUBSET DirectChildren :
                sup' = [sup EXCEPT !.owned = @ \cup seen, !.uncertain = TRUE,
                                   !.ready = FALSE, !.pc = "snapshot"]
    BY <1>0, <2>2
  <2>3. QED
    BY <1>1, <2>1, <2>2 DEF Observe
<1>2. CASE TakeSnapshot
  <2>1. Snapshot \cup (IF expired THEN {"Timeout"} ELSE {}) \subseteq Primaries
    BY PrecedenceIs DEF Snapshot
  <2>2. QED
    BY <1>0, <1>2, <2>1 DEF TakeSnapshot, NoFailure
<1>3. CASE ReapAdopted
  <2>1. CASE NoFailure /\ sup' = [sup EXCEPT !.owned = @ \ Dead, !.pc = "absent"]
    BY <1>0, <2>1 DEF NoFailure
  <2>2. CASE \E p \in sup.owned \ {Main} :
                sup' = [sup EXCEPT !.owned = @ \ (Dead \ {p}), !.uncertain = TRUE, !.pc = "select"]
    BY <1>0, <2>2
  <2>3. QED
    BY <1>3, <2>1, <2>2 DEF ReapAdopted
<1>4. CASE FreshAbsence
  <2> DEFINE owned == sup.owned \cup DirectChildren
             more == IF owned = {} THEN {} ELSE {"LiveDescendant"}
  <2>0. more \subseteq Primaries
    BY PrecedenceIs
  <2>1. CASE NoFailure /\ sup' = [sup EXCEPT !.owned = owned, !.pc = "select",
                    !.ready = owned = {} /\ AllFinished, !.primary = @ \cup more]
    BY <1>0, <2>0, <2>1 DEF NoFailure
  <2>2. CASE \E seen \in SUBSET DirectChildren :
                sup' = [sup EXCEPT !.owned = @ \cup seen, !.uncertain = TRUE, !.pc = "select"]
    BY <1>0, <2>2
  <2>3. QED
    BY <1>4, <2>1, <2>2 DEF FreshAbsence
<1>5. QED
  BY <1>1, <1>2, <1>3, <1>4

LEMMA CleanupMoves ==
    ASSUME SupRecord, CleanupObserve \/ CleanupSignal \/ CleanupReap
    PROVE  Moves(CleanupSteps)
<1> USE DEF SupFields, CleanupSteps, Moves
<1>0. sup = [x \in SupFields |-> sup[x]] /\ sup.primary \subseteq Primaries
  BY DEF SupRecord
<1>1. CASE CleanupObserve
  <2>1. CASE NoFailure /\ sup' = [sup EXCEPT !.owned = @ \cup DirectChildren, !.proof = TRUE, !.pc = "c_signal"]
    BY <1>0, <2>1 DEF NoFailure
  <2>2. CASE \E seen \in SUBSET DirectChildren :
                sup' = [sup EXCEPT !.owned = @ \cup seen, !.proof = FALSE,
                                   !.uncertain = TRUE, !.pc = "c_signal"]
    BY <1>0, <2>2
  <2>3. QED
    BY <1>1, <2>1, <2>2 DEF CleanupObserve
<1>2. CASE CleanupSignal
  <2>1. PICK next \in {"c_reap", "c_wait"} :
           \/ sup' = [sup EXCEPT !.pc = next] /\ errors' = errors
           \/ sup' = [sup EXCEPT !.uncertain = TRUE, !.pc = next]
    BY <1>2 DEF CleanupSignal, NoFailure
  <2>2. CASE sup' = [sup EXCEPT !.pc = next] /\ errors' = errors
    BY <1>0, <2>2
  <2>3. CASE sup' = [sup EXCEPT !.uncertain = TRUE, !.pc = next]
    BY <1>0, <2>3
  <2>4. QED
    BY <2>1, <2>2, <2>3
<1>3. CASE CleanupReap
  <2>1. CASE NoFailure /\ sup' = [sup EXCEPT !.owned = @ \ Dead, !.pc = "c_absent"]
    BY <1>0, <2>1 DEF NoFailure
  <2>2. CASE \E p \in sup.owned \ {Main} :
                sup' = [sup EXCEPT !.owned = @ \ (Dead \ {p}), !.proof = FALSE, !.uncertain = TRUE,
                                   !.pc = "c_absent"]
    BY <1>0, <2>2
  <2>3. QED
    BY <1>3, <2>1, <2>2 DEF CleanupReap
<1>4. QED
  BY <1>1, <1>2, <1>3

(* The supervision loop.                                                   *)
LEMMA LoopControl ==
    ASSUME ControlInv, Settles, result = "none",
           \/ SetupFails \/ Observe \/ TryWait("wait", "snapshot") \/ TakeSnapshot
           \/ ReapAdopted \/ FreshAbsence \/ Select
    PROVE  ControlInv'
<1> USE DEF ControlInv, SupervisorOnly, workerVars
<1>1. /\ UNCHANGED <<worker, flags, cancel, expired, result>>
      /\ sup.pc \in {"setup"} \cup LoopSteps
      /\ faults' = faults \/ faults' = faults + 1
      /\ errors' = errors \/ errors' = TRUE
  BY DEF SetupFails, Observe, TryWait, TakeSnapshot, ReapAdopted, FreshAbsence, Select, LoopSteps, NoFailure,
         OperationFails, Fails
<1>2. /\ SupRecord /\ sup = [x \in SupFields |-> sup[x]] /\ sup.after = "none"
      /\ errors => sup.uncertain /\ sup.pc # "setup"
  BY <1>1 DEF SupervisorTypes, SupRecord, ReasonInv, ErrorsInv
<1>3. SupRecord'
      /\ \/ /\ sup'.pc \in LoopSteps /\ sup'.after = "none" /\ sup.pc # "setup"
            /\ errors' => sup'.uncertain
         \/ /\ sup'.pc = "join" /\ sup'.after = "none" /\ sup.pc # "setup"
            /\ ~errors'
         \/ /\ sup'.pc = "c_observe" /\ sup'.after \in {"primary", "uncertain"} /\ sup.pc # "setup"
            /\ sup'.after = "primary" => sup'.primary # {}
            /\ errors' => sup'.after = "uncertain"
         \/ sup'.pc = "c_observe" /\ sup'.after = "spawn" /\ ~errors'
  <2>0. 1 \in 0 .. LastRound
    BY CaptureAssumption DEF LastRound
  <2>1. ASSUME NEW why \in {"spawn", "primary", "uncertain"}, sup' = EnterCleanup(sup, why)
        PROVE  /\ SupRecord' /\ sup'.pc = "c_observe" /\ sup'.after = why
               /\ sup'.primary = sup.primary
    <3>1. /\ sup' = [x \in SupFields |-> sup'[x]] /\ sup'.pc = "c_observe" /\ sup'.after = why
          /\ sup'.primary = sup.primary /\ sup'.owned = sup.owned /\ sup'.outcome = sup.outcome
          /\ sup'.round = 1
      BY <1>2, <2>1 DEF EnterCleanup, SupFields
    <3>2. QED
      BY <1>2, <2>0, <3>1 DEF SupRecord, CleanupSteps
  <2>2. CASE SetupFails
    BY <1>2, <2>1, <2>2 DEF SetupFails
  <2>3. CASE Observe \/ TakeSnapshot \/ ReapAdopted \/ FreshAbsence
    <3>1. Moves(LoopSteps) /\ sup.pc # "setup"
      BY <1>2, <2>3, LoopMoves DEF Observe, TakeSnapshot, ReapAdopted, FreshAbsence
    <3>2. QED
      BY <1>2, <3>1, MovesTypes DEF Moves
  <2>4. CASE TryWait("wait", "snapshot")
    <3>1. Moves({"snapshot"}) /\ sup.pc # "setup" /\ {"snapshot"} \subseteq LoopSteps
      BY <1>2, <2>4, TryWaitMoves DEF TryWait, LoopSteps
    <3>2. QED
      BY <1>2, <3>1, MovesTypes DEF Moves
  <2>5. CASE Select
    <3>1. CASE sup.uncertain
      BY <1>2, <2>1, <2>5, <3>1 DEF Select
    <3>2. CASE ~sup.uncertain /\ sup.primary # {}
      BY <1>2, <2>1, <2>5, <3>2 DEF Select, NoFailure
    <3>3. CASE ~sup.uncertain /\ sup.primary = {}
      <4>1. PICK next \in {"join", "observe"} : sup' = [sup EXCEPT !.pc = next]
        BY <2>5, <3>3 DEF Select
      <4>2. /\ sup' = [x \in SupFields |-> sup'[x]] /\ sup'.pc = next
            /\ sup'.primary = sup.primary /\ sup'.owned = sup.owned /\ sup'.outcome = sup.outcome
            /\ sup'.round = sup.round /\ sup'.after = sup.after
        BY <1>2, <4>1 DEF SupFields
      <4>3. SupRecord' /\ sup'.pc \in {"join", "observe"} /\ sup'.after = "none"
        BY <1>2, <4>2 DEF SupRecord, LoopSteps
      <4>4. ~errors' /\ sup.pc # "setup"
        BY <1>2, <2>5, <3>3 DEF Select, NoFailure
      <4>5. QED
        BY <4>3, <4>4 DEF LoopSteps
    <3>4. QED
      BY <3>1, <3>2, <3>3
  <2>6. QED
    BY <2>2, <2>3, <2>4, <2>5
<1>4. SupervisorTypes'
  <2>1. faults' \in Nat /\ result' \in Outcomes \cup {"none"}
    BY <1>1 DEF SupervisorTypes
  <2>2. cancel' \in BOOLEAN /\ expired' \in BOOLEAN /\ errors' \in BOOLEAN
    BY <1>1 DEF SupervisorTypes
  <2>3. QED
    BY <1>3, <2>1, <2>2 DEF SupervisorTypes
<1>5. ReasonInv' /\ ErrorsInv' /\ AbsenceInv' /\ AnswerInv'
  BY <1>1, <1>3 DEF ReasonInv, ErrorsInv, AbsenceInv, AnswerInv, LoopSteps, CleanupSteps
<1>6. WorkersInv'
  BY <1>1, <1>2, <1>3 DEF WorkersInv, LoopSteps
<1>7. QED
  BY <1>4, <1>5, <1>6

(* The end of a round of the clean-up.                                     *)
LEMMA RoundEndsFacts ==
    ASSUME SupRecord, NEW o \in SUBSET Procs, NEW u, NEW absent \in BOOLEAN,
           sup' = RoundEnds([sup EXCEPT !.owned = o, !.uncertain = u], absent)
    PROVE  /\ SupRecord' /\ sup'.after = sup.after /\ sup'.primary = sup.primary
           /\ \/ sup'.pc = "c_observe" /\ (u => sup'.uncertain)
              \/ sup'.pc = "cancel" /\ sup.after # "contain" /\ (sup'.clean => absent /\ ~u)
              \/ /\ sup'.pc = "restore" /\ sup.after = "contain"
                 /\ sup'.outcome \in {"CaptureSpawn", "CaptureCleanup"}
                 /\ sup'.outcome # "CaptureCleanup" => absent /\ ~u
<1> DEFINE s == [sup EXCEPT !.owned = o, !.uncertain = u]
           proved == absent /\ s.status /\ s.proof
           clean == proved /\ ~s.uncertain
<1>1. /\ s = [x \in SupFields |-> s[x]] /\ s.owned = o /\ s.uncertain = u /\ s.pc = sup.pc
      /\ s.primary = sup.primary /\ s.round = sup.round /\ s.after = sup.after /\ s.outcome = sup.outcome
  BY DEF SupRecord, SupFields
<1>2. LastRound \in Nat /\ sup.round \in 0 .. LastRound
  BY CaptureAssumption DEF LastRound, SupRecord
<1> HIDE DEF s
<1>3. CASE ~proved /\ s.round < LastRound
  <2>1. sup' = [s EXCEPT !.round = @ + 1, !.pc = "c_observe"]
    BY <1>3 DEF RoundEnds, s
  <2>2. /\ sup' = [x \in SupFields |-> sup'[x]] /\ sup'.owned = o /\ sup'.uncertain = u
        /\ sup'.primary = sup.primary /\ sup'.after = sup.after /\ sup'.outcome = sup.outcome
        /\ sup'.round = sup.round + 1 /\ sup'.pc = "c_observe"
    BY <1>1, <2>1 DEF SupFields
  <2>3. sup'.round \in 0 .. LastRound
    BY <1>1, <1>2, <1>3, <2>2
  <2>4. QED
    BY <2>2, <2>3 DEF SupRecord, CleanupSteps
<1>4. CASE ~(~proved /\ s.round < LastRound) /\ s.after = "contain"
  <2>1. sup' = [s EXCEPT !.pc = "restore", !.outcome = IF clean THEN "CaptureSpawn" ELSE "CaptureCleanup"]
    BY <1>4 DEF RoundEnds, s
  <2>2. /\ sup' = [x \in SupFields |-> sup'[x]] /\ sup'.owned = o
        /\ sup'.primary = sup.primary /\ sup'.after = sup.after /\ sup'.round = sup.round
        /\ sup'.outcome = (IF clean THEN "CaptureSpawn" ELSE "CaptureCleanup")
        /\ sup'.pc = "restore"
    BY <1>1, <2>1 DEF SupFields
  <2>3. clean => absent /\ ~u
    BY <1>1
  <2>4. sup'.outcome \in {"CaptureSpawn", "CaptureCleanup"} /\ (sup'.outcome # "CaptureCleanup" => absent /\ ~u)
    BY <2>2, <2>3
  <2>5. QED
    BY <1>1, <1>4, <2>2, <2>4 DEF SupRecord, Outcomes
<1>5. CASE ~(~proved /\ s.round < LastRound) /\ s.after # "contain"
  <2>1. sup' = [s EXCEPT !.clean = clean, !.pc = "cancel"]
    BY <1>5 DEF RoundEnds, s
  <2>2. /\ sup' = [x \in SupFields |-> sup'[x]] /\ sup'.owned = o
        /\ sup'.primary = sup.primary /\ sup'.after = sup.after /\ sup'.outcome = sup.outcome
        /\ sup'.round = sup.round /\ sup'.pc = "cancel"
    BY <1>1, <2>1 DEF SupFields
  <2>3. sup'.clean => absent /\ ~u
    BY <1>1, <2>1 DEF SupFields
  <2>4. QED
    BY <1>1, <1>5, <2>2, <2>3 DEF SupRecord
<1>6. QED
  BY <1>3, <1>4, <1>5

(* The clean-up.                                                           *)
LEMMA CleanupControl ==
    ASSUME ControlInv, TreeInv, Settles, result = "none",
           \/ CleanupObserve \/ CleanupSignal \/ TryWait("c_wait", "c_reap")
           \/ CleanupReap \/ CleanupAbsent
    PROVE  ControlInv'
<1> USE DEF ControlInv, SupervisorOnly, workerVars
<1>1. /\ UNCHANGED <<worker, flags, cancel, expired, result>>
      /\ sup.pc \in CleanupSteps
      /\ faults' = faults \/ faults' = faults + 1
      /\ errors' = errors \/ errors' = TRUE
  BY DEF CleanupObserve, CleanupSignal, TryWait, CleanupReap, CleanupAbsent, CleanupSteps, NoFailure,
         OperationFails, Fails
<1>2. SupRecord /\ (errors => sup.uncertain \/ sup.after = "uncertain")
  BY <1>1 DEF SupervisorTypes, ErrorsInv
<1>3. /\ SupRecord' /\ sup'.after = sup.after /\ (sup.primary # {} => sup'.primary # {})
      /\ \/ /\ sup'.pc \in CleanupSteps
            /\ errors' => sup'.uncertain \/ sup'.after = "uncertain"
         \/ /\ sup'.pc = "cancel" /\ sup.after # "contain"
            /\ errors' => ~sup'.clean \/ sup'.after = "uncertain"
            /\ sup'.clean => Gone
         \/ /\ sup'.pc = "restore" /\ sup.after = "contain"
            /\ sup'.outcome \in {"CaptureSpawn", "CaptureCleanup"}
            /\ sup'.outcome # "CaptureCleanup" => Gone /\ ~errors'
  <2>1. CASE CleanupObserve \/ CleanupSignal \/ CleanupReap
    <3>1. Moves(CleanupSteps)
      BY <1>2, <2>1, CleanupMoves
    <3>2. QED
      BY <1>2, <3>1, MovesTypes DEF Moves
  <2>2. CASE TryWait("c_wait", "c_reap")
    <3>1. Moves({"c_reap"}) /\ {"c_reap"} \subseteq CleanupSteps
      BY <1>2, <2>2, TryWaitMoves DEF CleanupSteps
    <3>2. QED
      BY <1>2, <3>1, MovesTypes DEF Moves
  <2>3. CASE CleanupAbsent
    <3>0. DirectChildren \subseteq Procs
      BY DEF DirectChildren, Children
    <3>1. \E u : \E o \in SUBSET Procs, absent \in BOOLEAN :
              /\ sup' = RoundEnds([sup EXCEPT !.owned = o, !.uncertain = u], absent)
              /\ absent => DirectChildren = {}
              /\ errors' => u \/ sup.after = "uncertain"
      <4>1. CASE NoFailure /\ sup' = RoundEnds([sup EXCEPT !.owned = sup.owned \cup DirectChildren],
                                               sup.owned \cup DirectChildren = {})
        <5>1. [sup EXCEPT !.owned = sup.owned \cup DirectChildren]
                = [sup EXCEPT !.owned = sup.owned \cup DirectChildren, !.uncertain = sup.uncertain]
          BY <1>2 DEF SupRecord, SupFields
        <5>2. sup.owned \cup DirectChildren \in SUBSET Procs
          BY <1>2, <3>0 DEF SupRecord
        <5>3. (sup.owned \cup DirectChildren = {}) \in BOOLEAN
          OBVIOUS
        <5>4. errors' = errors
          BY <4>1 DEF NoFailure
        <5>5. QED
          BY <1>2, <4>1, <5>1, <5>2, <5>3, <5>4
      <4>2. CASE \E seen \in SUBSET DirectChildren :
                    sup' = RoundEnds([sup EXCEPT !.owned = @ \cup seen, !.uncertain = TRUE], FALSE)
        <5>1. PICK seen \in SUBSET DirectChildren :
                    sup' = RoundEnds([sup EXCEPT !.owned = sup.owned \cup seen, !.uncertain = TRUE], FALSE)
          BY <4>2
        <5>2. sup.owned \cup seen \in SUBSET Procs
          BY <1>2, <3>0 DEF SupRecord
        <5>3. QED
          BY <5>1, <5>2
      <4>3. QED
        BY <2>3, <4>1, <4>2 DEF CleanupAbsent
    <3>2. PICK u : \E o \in SUBSET Procs, absent \in BOOLEAN :
              /\ sup' = RoundEnds([sup EXCEPT !.owned = o, !.uncertain = u], absent)
              /\ absent => DirectChildren = {}
              /\ errors' => u \/ sup.after = "uncertain"
      BY <3>1
    <3>3. PICK o \in SUBSET Procs, absent \in BOOLEAN :
              /\ sup' = RoundEnds([sup EXCEPT !.owned = o, !.uncertain = u], absent)
              /\ absent => DirectChildren = {}
              /\ errors' => u \/ sup.after = "uncertain"
      BY <3>2
    <3>4. absent => Gone
      BY <3>3, AbsenceIsProof
    <3>5. QED
      BY <1>2, <3>3, <3>4, RoundEndsFacts DEF CleanupSteps
  <2>4. QED
    BY <2>1, <2>2, <2>3
<1>4. SupervisorTypes'
  <2>1. faults' \in Nat /\ result' \in Outcomes \cup {"none"}
    BY <1>1 DEF SupervisorTypes
  <2>2. cancel' \in BOOLEAN /\ expired' \in BOOLEAN /\ errors' \in BOOLEAN
    BY <1>1 DEF SupervisorTypes
  <2>3. QED
    BY <1>3, <2>1, <2>2 DEF SupervisorTypes
<1>5. ReasonInv' /\ ErrorsInv' /\ AbsenceInv'
  BY <1>1, <1>3 DEF ReasonInv, ErrorsInv, AbsenceInv, SupervisorTypes, SupRecord, CleanupSteps, LoopSteps, Settles
<1>6. WorkersInv'
  BY <1>1, <1>3 DEF WorkersInv, ReasonInv, CleanupSteps, Joinable
<1>7. AnswerInv'
  BY <1>1, <1>3, PrecedenceIs DEF AnswerInv, CleanupSteps
<1>8. QED
  BY <1>4, <1>5, <1>6, <1>7

(* The strongest of a set of failures dominates what the workers flagged.  *)
LEMMA SelectedDominates ==
    ASSUME NEW seen \in SUBSET Primaries, seen # {}, Snapshot \subseteq seen
    PROVE  Selected(seen) \in Primaries /\ Dominates(Selected(seen))
<1>1. PICK i \in DOMAIN PRECEDENCE : /\ PRECEDENCE[i] = Selected(seen)
                                     /\ \A j \in 1 .. i - 1 : PRECEDENCE[j] \notin seen
  BY SelectedIsFirst
<1>2. ASSUME NEW f \in Snapshot
      PROVE  \E j \in DOMAIN PRECEDENCE : PRECEDENCE[j] = f /\ i <= j
  <2>1. f \in Primaries /\ f \in seen
    OBVIOUS
  <2>2. PICK j \in DOMAIN PRECEDENCE : PRECEDENCE[j] = f
    BY <2>1 DEF Primaries
  <2>3. QED
    BY <1>1, <2>1, <2>2, PrecedenceIs
<1>3. QED
  BY <1>1, <1>2 DEF Dominates, Primaries

(* The joins, the last proof of absence and the return.                    *)
LEMMA CancelControl ==
    ASSUME ControlInv, StreamInv, Settles, result = "none", Cancel \/ JoinCancelled
    PROVE  ControlInv'
<1> USE DEF ControlInv, SupervisorOnly, workerVars, kernelVars
<1>1. /\ UNCHANGED <<worker, flags, expired, result, faults, errors>>
      /\ cancel' = cancel \/ cancel' = TRUE
      /\ sup.pc \in {"cancel", "cancelled"} /\ SupRecord /\ sup = [x \in SupFields |-> sup[x]]
  BY DEF Cancel, JoinCancelled, NoFailure, SupervisorTypes, SupRecord
<1>2. /\ sup.after \in {"spawn", "primary", "uncertain"} /\ (sup.after = "primary" => sup.primary # {})
      /\ errors => ~sup.clean \/ sup.after = "uncertain"
      /\ sup.clean => Gone
  BY <1>1 DEF ReasonInv, ErrorsInv, AbsenceInv
<1>3. cancel' \in BOOLEAN /\ expired' \in BOOLEAN /\ errors' \in BOOLEAN
  BY <1>1 DEF SupervisorTypes
<1>4. CASE Cancel
  <2>1. sup' = [sup EXCEPT !.pc = "cancelled"]
    BY <1>4 DEF Cancel
  <2>2. /\ sup' = [x \in SupFields |-> sup'[x]] /\ sup'.pc = "cancelled" /\ sup'.owned = sup.owned
        /\ sup'.primary = sup.primary /\ sup'.round = sup.round /\ sup'.after = sup.after
        /\ sup'.outcome = sup.outcome /\ sup'.clean = sup.clean
    BY <1>1, <2>1 DEF SupFields
  <2>3. SupervisorTypes'
    BY <1>1, <1>3, <2>2 DEF SupervisorTypes, SupRecord
  <2>4. ReasonInv' /\ ErrorsInv' /\ AbsenceInv' /\ AnswerInv'
    BY <1>1, <1>2, <2>2 DEF ReasonInv, ErrorsInv, AbsenceInv, AnswerInv, LoopSteps, CleanupSteps, Settles
  <2>5. WorkersInv'
    BY <1>1, <1>2, <2>2 DEF WorkersInv
  <2>6. QED
    BY <2>3, <2>4, <2>5
<1>5. CASE JoinCancelled
  <2> DEFINE seen == CloseObservation(sup.primary, TRUE)
             answer == IF ~sup.clean \/ JoinUncertain \/ sup.after = "uncertain" THEN "CaptureCleanup"
                       ELSE IF sup.after = "spawn" THEN "CaptureSpawn" ELSE Selected(seen)
  <2>1. sup' = [sup EXCEPT !.pc = "restore", !.outcome = answer] /\ Joinable
    BY <1>5 DEF JoinCancelled
  <2>2. /\ sup' = [x \in SupFields |-> sup'[x]] /\ sup'.pc = "restore" /\ sup'.owned = sup.owned
        /\ sup'.primary = sup.primary /\ sup'.round = sup.round /\ sup'.after = sup.after
        /\ sup'.outcome = answer
    BY <1>1, <2>1 DEF SupFields
  <2>3. seen \subseteq Primaries /\ Snapshot \subseteq seen /\ (sup.after = "primary" => seen # {})
    BY <1>1, <1>2, SnapshotTypes DEF SupRecord
  <2>4. ASSUME seen # {} PROVE Selected(seen) \in Primaries /\ Dominates(Selected(seen))
    BY <2>3, <2>4, SelectedDominates
  <2>5. \/ answer = "CaptureCleanup"
        \/ answer = "CaptureSpawn" /\ Gone /\ ~errors
        \/ answer \in Primaries /\ Dominates(answer) /\ Gone /\ ~errors
    BY <1>2, <2>3, <2>4
  <2> HIDE DEF answer, seen
  <2>6. SupRecord'
    <3>1. answer \in Outcomes
      BY <2>5 DEF Outcomes
    <3>2. QED
      BY <1>1, <2>2, <3>1 DEF SupRecord
  <2>7. SupervisorTypes'
    BY <1>1, <1>3, <2>6 DEF SupervisorTypes
  <2>8. ReasonInv' /\ ErrorsInv' /\ AbsenceInv'
    BY <1>1, <1>2, <2>2, <2>5 DEF ReasonInv, ErrorsInv, AbsenceInv, LoopSteps, CleanupSteps, Settles
  <2>9. WorkersInv'
    BY <1>1, <1>2, <2>1, <2>2 DEF WorkersInv, Joinable
  <2>10. AnswerInv'
    <3>1. (answer \in Primaries => Dominates(answer)) /\ answer # "Ok" /\ answer # "none"
      BY <2>5, PrecedenceIs
    <3>2. Snapshot' = Snapshot
      BY <1>1 DEF Snapshot
    <3>3. sup'.outcome \in Primaries => Dominates(sup.outcome)'
      BY <2>2, <3>1, <3>2 DEF Dominates
    <3>4. QED
      BY <1>1, <2>2, <3>1, <3>3 DEF AnswerInv
  <2>11. QED
    BY <2>7, <2>8, <2>9, <2>10
<1>6. QED
  BY <1>4, <1>5

LEMMA FinishControl ==
    ASSUME ControlInv, TreeInv, StreamInv, Settles, result = "none",
           JoinFinished \/ FinalReap \/ FinalAbsence \/ Restore
    PROVE  ControlInv'
<1> USE DEF ControlInv, SupervisorOnly, workerVars, kernelVars
<1>1. /\ UNCHANGED <<worker, flags, expired, cancel>>
      /\ faults' = faults \/ faults' = faults + 1
      /\ errors' = errors \/ errors' = TRUE
      /\ sup.pc \in {"join", "f_reap", "f_absent", "restore"} /\ SupRecord /\ sup = [x \in SupFields |-> sup[x]]
  BY DEF JoinFinished, FinalReap, FinalAbsence, Restore, NoFailure, OperationFails, Fails, SupervisorTypes, SupRecord
<1>2. faults' \in Nat
  BY <1>1 DEF SupervisorTypes
<1>3. cancel' \in BOOLEAN /\ expired' \in BOOLEAN /\ errors' \in BOOLEAN
  BY <1>1 DEF SupervisorTypes
<1>4. Snapshot' = Snapshot /\ CloseObservation({}, FALSE)' = CloseObservation({}, FALSE)
      /\ (JoinUncertain' <=> JoinUncertain) /\ (Joinable' <=> Joinable)
  BY <1>1 DEF Snapshot, CloseObservation, JoinUncertain, Joinable
<1>5. CASE Restore
  <2>1. sup' = [sup EXCEPT !.pc = "done"]
    BY <1>5 DEF Restore
  <2>2. /\ sup' = [x \in SupFields |-> sup'[x]] /\ sup'.pc = "done" /\ sup'.owned = sup.owned
        /\ sup'.primary = sup.primary /\ sup'.round = sup.round /\ sup'.after = sup.after
        /\ sup'.outcome = sup.outcome
    BY <1>1, <2>1 DEF SupFields
  <2>3. /\ sup.pc = "restore" /\ result' \in {sup.outcome, "CaptureCleanup"}
        /\ errors' => result' = "CaptureCleanup"
    BY <1>5 DEF Restore, NoFailure, OperationFails, ErrorsInv
  <2>4. SupervisorTypes'
    BY <1>1, <1>2, <1>3, <2>2, <2>3 DEF SupervisorTypes, SupRecord, Outcomes
  <2>5. ReasonInv' /\ ErrorsInv' /\ AbsenceInv'
    BY <1>1, <2>2, <2>3 DEF ReasonInv, ErrorsInv, AbsenceInv, LoopSteps, CleanupSteps, Settles
  <2>6. WorkersInv'
    BY <1>1, <1>4, <2>2, <2>3 DEF WorkersInv
  <2>7. AnswerInv'
    BY <1>1, <1>4, <2>2, <2>3 DEF AnswerInv, Dominates
  <2>8. QED
    BY <2>4, <2>5, <2>6, <2>7
<1>6. CASE ~Restore
  <2>1. sup.pc \in {"join", "f_reap", "f_absent"} /\ sup.after = "none" /\ ~errors /\ result' = "none"
        /\ \A e \in Pipes : worker[e] # "unspawned"
    BY <1>6 DEF JoinFinished, FinalReap, FinalAbsence, ReasonInv, ErrorsInv, WorkersInv
  <2>2. CASE JoinFinished
    <3>1. Joinable /\ ~errors' /\ sup.pc = "join"
      BY <2>1, <2>2 DEF JoinFinished, NoFailure
    <3>2. CASE JoinUncertain
      <4>1. sup' = [sup EXCEPT !.pc = "restore", !.outcome = "CaptureCleanup"]
        BY <2>2, <3>2 DEF JoinFinished, Returns
      <4>2. /\ sup' = [x \in SupFields |-> sup'[x]] /\ sup'.pc = "restore" /\ sup'.owned = sup.owned
            /\ sup'.primary = sup.primary /\ sup'.round = sup.round /\ sup'.after = sup.after
            /\ sup'.outcome = "CaptureCleanup"
        BY <1>1, <4>1 DEF SupFields
      <4>3. SupervisorTypes'
        BY <1>1, <1>2, <1>3, <2>1, <4>2 DEF SupervisorTypes, SupRecord, Outcomes
      <4>4. ReasonInv' /\ ErrorsInv' /\ AbsenceInv' /\ WorkersInv'
        BY <1>1, <1>4, <2>1, <3>1, <4>2 DEF ReasonInv, ErrorsInv, AbsenceInv, WorkersInv, LoopSteps, CleanupSteps
      <4>5. AnswerInv'
        BY <2>1, <4>2, PrecedenceIs DEF AnswerInv
      <4>6. QED
        BY <4>3, <4>4, <4>5
    <3>3. CASE ~JoinUncertain
      <4>1. sup' = [sup EXCEPT !.pc = "f_reap", !.primary = CloseObservation({}, FALSE)]
        BY <2>2, <3>3 DEF JoinFinished
      <4>2. /\ sup' = [x \in SupFields |-> sup'[x]] /\ sup'.pc = "f_reap" /\ sup'.owned = sup.owned
            /\ sup'.primary = CloseObservation({}, FALSE) /\ sup'.round = sup.round /\ sup'.after = sup.after
            /\ sup'.outcome = sup.outcome
        BY <1>1, <4>1 DEF SupFields
      <4>3. CloseObservation({}, FALSE) \subseteq Primaries
        BY SnapshotTypes
      <4>4. SupervisorTypes'
        BY <1>1, <1>2, <1>3, <2>1, <4>2, <4>3 DEF SupervisorTypes, SupRecord
      <4>5. ReasonInv' /\ ErrorsInv' /\ AbsenceInv' /\ WorkersInv'
        BY <1>1, <1>4, <2>1, <3>1, <4>2 DEF ReasonInv, ErrorsInv, AbsenceInv, WorkersInv, LoopSteps, CleanupSteps
      <4>6. AnswerInv'
        BY <1>4, <2>1, <3>3, <4>2 DEF AnswerInv
      <4>7. QED
        BY <4>4, <4>5, <4>6
    <3>4. QED
      BY <3>2, <3>3
  <2>3. CASE FinalReap
    <3>1. sup' = [sup EXCEPT !.owned = @ \ Dead, !.pc = "f_absent"] /\ sup.pc = "f_reap" /\ ~errors'
      BY <2>1, <2>3 DEF FinalReap, NoFailure
    <3>2. /\ sup' = [x \in SupFields |-> sup'[x]] /\ sup'.pc = "f_absent" /\ sup'.owned \subseteq sup.owned
          /\ sup'.primary = sup.primary /\ sup'.round = sup.round /\ sup'.after = sup.after
          /\ sup'.outcome = sup.outcome
      BY <1>1, <3>1 DEF SupFields
    <3>3. SupervisorTypes'
      BY <1>1, <1>2, <1>3, <2>1, <3>2 DEF SupervisorTypes, SupRecord
    <3>4. ReasonInv' /\ ErrorsInv' /\ AbsenceInv' /\ WorkersInv'
      BY <1>1, <1>4, <2>1, <3>1, <3>2 DEF ReasonInv, ErrorsInv, AbsenceInv, WorkersInv, LoopSteps, CleanupSteps
    <3>5. AnswerInv'
      BY <1>4, <2>1, <3>1, <3>2 DEF AnswerInv
    <3>6. QED
      BY <3>3, <3>4, <3>5
  <2>4. CASE FinalAbsence
    <3>1. /\ sup.pc = "f_absent" /\ Joinable /\ ~JoinUncertain
          /\ sup.primary = CloseObservation({}, FALSE) /\ sup.primary \subseteq Primaries
      BY <1>1, <2>4 DEF FinalAbsence, AnswerInv, WorkersInv, SupRecord
    <3>2. DirectChildren \subseteq Procs /\ (DirectChildren = {} => Gone)
      BY AbsenceIsProof DEF DirectChildren, Children
    <3>3. ASSUME sup.primary = {} PROVE flags = {} /\ \A e \in Pipes : worker[e] = "complete"
      <4>1. \A e \in Pipes : worker[e] = "complete"
        BY <2>1, <3>1, <3>3 DEF CloseObservation, JoinUncertain, Joinable, Finished, Pipes, Outputs
      <4>2. Snapshot = {}
        BY <3>1, <3>3 DEF CloseObservation
      <4>3. flags = {}
        BY <4>2, PrecedenceIs DEF Snapshot, StreamInv, StreamTypes, Pipes, Outputs
      <4>4. QED
        BY <4>1, <4>3
    <3>4. ASSUME sup.primary # {} PROVE Selected(sup.primary) \in Primaries /\ Dominates(Selected(sup.primary))
      BY <3>1, <3>4, SnapshotTypes, SelectedDominates
    <3>5. PICK o \in SUBSET Procs, answer \in Outcomes :
              /\ sup' = [sup EXCEPT !.owned = o, !.pc = "restore", !.outcome = answer]
              /\ answer # "CaptureCleanup" => Gone /\ ~errors'
              /\ answer = "Ok" => flags = {} /\ \A e \in Pipes : worker[e] = "complete"
              /\ answer \in Primaries => Dominates(answer)
      <4> DEFINE owned == sup.owned \cup DirectChildren
                 found == IF owned # {} THEN "CaptureCleanup"
                          ELSE IF sup.primary # {} THEN Selected(sup.primary) ELSE "Ok"
      <4>1. CASE NoFailure /\ sup' = Returns([sup EXCEPT !.owned = owned], found)
        <5>1. sup' = [sup EXCEPT !.owned = owned, !.pc = "restore", !.outcome = found]
          BY <1>1, <4>1 DEF Returns, SupFields
        <5>2. /\ found \in Outcomes /\ owned \in SUBSET Procs
              /\ found # "CaptureCleanup" => Gone /\ ~errors'
              /\ found = "Ok" => flags = {} /\ \A e \in Pipes : worker[e] = "complete"
              /\ found \in Primaries => Dominates(found)
          BY <1>1, <2>1, <3>2, <3>3, <3>4, <4>1, PrecedenceIs DEF NoFailure, Outcomes, SupRecord
        <5> HIDE DEF owned, found
        <5>3. QED
          BY <5>1, <5>2
      <4>2. CASE sup' = Returns(sup, "CaptureCleanup")
        <5>1. sup' = [sup EXCEPT !.owned = sup.owned, !.pc = "restore", !.outcome = "CaptureCleanup"]
          BY <1>1, <4>2 DEF Returns, SupFields
        <5>2. "CaptureCleanup" \in Outcomes /\ "CaptureCleanup" \notin Primaries /\ sup.owned \in SUBSET Procs
          BY <1>1, PrecedenceIs DEF Outcomes, SupRecord
        <5>3. QED
          BY <5>1, <5>2
      <4>3. QED
        BY <2>4, <4>1, <4>2 DEF FinalAbsence
    <3>6. /\ sup' = [x \in SupFields |-> sup'[x]] /\ sup'.pc = "restore" /\ sup'.owned = o
          /\ sup'.primary = sup.primary /\ sup'.round = sup.round /\ sup'.after = sup.after
          /\ sup'.outcome = answer
      BY <1>1, <3>5 DEF SupFields
    <3>7. SupervisorTypes'
      BY <1>1, <1>2, <1>3, <2>1, <3>6 DEF SupervisorTypes, SupRecord
    <3>8. ReasonInv' /\ ErrorsInv' /\ AbsenceInv' /\ WorkersInv'
      BY <1>1, <1>4, <2>1, <3>1, <3>5, <3>6 DEF ReasonInv, ErrorsInv, AbsenceInv, WorkersInv, LoopSteps,
                                                CleanupSteps, Settles
    <3>9. AnswerInv'
      <4>1. answer # "none"
        BY PrecedenceIs DEF Outcomes
      <4>2. sup'.outcome \in Primaries => Dominates(sup.outcome)'
        BY <1>4, <3>5, <3>6 DEF Dominates
      <4>3. QED
        BY <1>1, <2>1, <3>5, <3>6, <4>1, <4>2 DEF AnswerInv
    <3>10. QED
      BY <3>7, <3>8, <3>9
  <2>5. QED
    BY <1>6, <2>2, <2>3, <2>4
<1>7. QED
  BY <1>5, <1>6

-----------------------------------------------------------------------------
(* The invariant, and what it says of the answer.                          *)

LEMMA CaptureInitInv == Init => CaptureInv
<1> SUFFICES ASSUME Init PROVE CaptureInv
  OBVIOUS
<1>1. TreeInv
  <2>1. ProcessTypes
    BY DEF Init, ProcessTypes
  <2>2. \A q \in Procs : parent[q] = Supervisor
    BY DEF Init
  <2>3. QED
    BY <2>1, <2>2, SupervisorIsNotSupervised DEF TreeInv, ParentsLive, Rooted
<1>2. StreamInv
  BY CaptureAssumption DEF Init, StreamInv, StreamTypes, OutputInv, Pipes, Outputs
<1>3. /\ sup.pc \in {"setup", "c_observe"} /\ sup.owned = {Main} /\ sup.primary = {} /\ sup.outcome = "none"
      /\ sup.round \in {0, 1} /\ sup.after = (IF sup.pc = "setup" THEN "none" ELSE "contain")
      /\ sup = [x \in SupFields |-> sup[x]]
  <2>1. ASSUME NEW pc
        PROVE  SupInit(pc) = [x \in SupFields |-> SupInit(pc)[x]]
    BY DEF SupInit, SupFields
  <2>2. CASE sup = SupInit("setup")
    BY <2>1, <2>2 DEF SupInit
  <2>3. CASE sup = [SupInit("c_observe") EXCEPT !.after = "contain", !.round = 1]
    <3>1. /\ SupInit("c_observe").pc = "c_observe" /\ SupInit("c_observe").owned = {Main}
          /\ SupInit("c_observe").primary = {} /\ SupInit("c_observe").outcome = "none"
      BY DEF SupInit
    <3>2. QED
      BY <2>1, <2>3, <3>1 DEF SupFields
  <2>4. QED
    BY <2>2, <2>3 DEF Init
<1>4. SupRecord
  <2>1. sup.round \in 0 .. LastRound
    BY <1>3, CaptureAssumption DEF LastRound
  <2>2. QED
    BY <1>3, <2>1, CaptureAssumption DEF SupRecord, CleanupSteps
<1>5. SupervisorTypes
  <2>1. cancel \in BOOLEAN /\ expired \in BOOLEAN /\ errors \in BOOLEAN
    BY DEF Init
  <2>2. faults \in Nat /\ result \in Outcomes \cup {"none"}
    BY DEF Init
  <2>3. QED
    BY <1>4, <2>1, <2>2 DEF SupervisorTypes
<1>6. ReasonInv /\ WorkersInv /\ ErrorsInv /\ AbsenceInv /\ AnswerInv
  BY <1>3 DEF Init, ReasonInv, WorkersInv, ErrorsInv, AbsenceInv, AnswerInv, LoopSteps, CleanupSteps, Pipes, Outputs
<1>7. QED
  BY <1>1, <1>2, <1>5, <1>6 DEF CaptureInv, ControlInv

LEMMA ControlStutters == ASSUME ControlInv, UNCHANGED vars PROVE ControlInv'
BY DEF ControlInv, vars, kernelVars, workerVars, SupervisorTypes, SupRecord, ReasonInv, WorkersInv, ErrorsInv,
       AbsenceInv, AnswerInv, Joinable, JoinUncertain, CloseObservation, Dominates, Snapshot, Gone

LEMMA CaptureNextInv == ASSUME CaptureInv, [Next]_vars PROVE CaptureInv'
<1>1. Settles
  BY StepSettles DEF CaptureInv, ControlInv
<1>2. TreeInv' /\ StreamInv'
  BY <1>1, StepStreams DEF CaptureInv, Settles
<1>3. ControlInv'
  <2>1. CASE UNCHANGED vars
    BY <2>1, ControlStutters DEF CaptureInv
  <2>2. CASE result = "none" /\ (Environment \/ Deadline)
    BY <1>1, <2>2, EnvironmentControl DEF CaptureInv
  <2>3. CASE result = "none" /\ \E e \in Pipes : WorkerStep(e) \/ WorkerFault(e)
    BY <1>1, <2>3, WorkerControl DEF CaptureInv
  <2>4. CASE result = "none" /\ Supervise
    BY <1>1, <2>4, StartWorkerControl, LoopControl, CleanupControl, CancelControl, FinishControl
       DEF CaptureInv, Supervise
  <2>5. QED
    BY <2>1, <2>2, <2>3, <2>4 DEF Next, Returned
<1>4. QED
  BY <1>2, <1>3 DEF CaptureInv

(* The inductive invariant of the supervision.                             *)
THEOREM CaptureAlwaysInv == Spec => []CaptureInv
<1>1. CaptureInv /\ [Next]_vars => CaptureInv'
  BY CaptureNextInv
<1>2. QED
  BY CaptureInitInv, <1>1, PTL DEF Spec

(* A capture reports any failure but capture-cleanup only after its whole  *)
(* process tree is gone.                                                   *)
THEOREM FailuresAreContained == Spec => []FailureIsContained
<1>1. CaptureInv => FailureIsContained
  BY DEF CaptureInv, ControlInv, AnswerInv, AbsenceInv, FailureIsContained
<1>2. QED
  BY CaptureAlwaysInv, <1>1, PTL

(* A capture that succeeds has delivered its input, retained every byte of *)
(* the output within the caps, and left no process.                        *)
THEOREM SuccessesAreComplete == Spec => []SuccessIsComplete
<1>1. ASSUME CaptureInv, result = "Ok"
      PROVE  /\ Gone /\ flags = {} /\ (\A e \in Pipes : worker[e] = "complete")
             /\ moved["stdin"] = InputLen
             /\ \A s \in Outputs : moved[s] = emitted[s] /\ moved[s] <= Cap[s]
  <2>1. sup.pc = "done" /\ sup.outcome = "Ok"
    BY <1>1 DEF CaptureInv, ControlInv, AnswerInv
  <2>2. Gone /\ flags = {} /\ \A e \in Pipes : worker[e] = "complete"
    BY <1>1, <2>1 DEF CaptureInv, ControlInv, AnswerInv, AbsenceInv
  <2>3. moved["stdin"] = InputLen
    BY <1>1, <2>2 DEF CaptureInv, StreamInv, Pipes
  <2>4. ASSUME NEW s \in Outputs PROVE moved[s] = emitted[s] /\ moved[s] <= Cap[s]
    <3>1. OutputInv(s) /\ s \in Pipes /\ moved[s] \in Nat
      BY <1>1 DEF CaptureInv, StreamInv, StreamTypes, Pipes
    <3>2. QED
      BY <2>2, <3>1 DEF OutputInv
  <2>5. QED
    BY <2>2, <2>3, <2>4
<1>2. CaptureInv => SuccessIsComplete
  BY <1>1 DEF SuccessIsComplete
<1>3. QED
  BY CaptureAlwaysInv, <1>2, PTL

(* A failure that a worker has published is never masked by a weaker       *)
(* answer.                                                                 *)
THEOREM StrongestFailuresWin == Spec => []StrongestFailureWins
<1>1. ASSUME CaptureInv, result \in Primaries \cup {"Ok"}, NEW f \in Snapshot
      PROVE  result # "Ok" /\ \E i, j \in DOMAIN PRECEDENCE :
                /\ PRECEDENCE[i] = result /\ PRECEDENCE[j] = f /\ i <= j
  <2>1. result # "CaptureCleanup" /\ result # "none"
    BY <1>1, PrecedenceIs
  <2>2. sup.pc = "done" /\ result = sup.outcome
    BY <1>1, <2>1 DEF CaptureInv, ControlInv, AnswerInv
  <2>3. flags # {}
    BY PrecedenceIs DEF Snapshot
  <2>4. result \in Primaries
    BY <1>1, <2>2, <2>3 DEF CaptureInv, ControlInv, AnswerInv
  <2>5. Dominates(result) /\ result # "Ok"
    BY <1>1, <2>2, <2>4, PrecedenceIs DEF CaptureInv, ControlInv, AnswerInv
  <2>6. QED
    BY <2>5 DEF Dominates
<1>2. CaptureInv => StrongestFailureWins
  BY <1>1 DEF StrongestFailureWins
<1>3. QED
  BY CaptureAlwaysInv, <1>2, PTL

(* Type correctness, and the verdict on a clean-up: a failed operation is  *)
(* never covered up, and no worker outlives the call.                      *)
THEOREM CleanUpsTellTheTruth == Spec => []CleanUpTellsTheTruth
<1>1. CaptureInv => TypeOK
  <2> SUFFICES ASSUME CaptureInv PROVE TypeOK
    OBVIOUS
  <2>1. cancel \in BOOLEAN /\ expired \in BOOLEAN /\ errors \in BOOLEAN
    BY DEF CaptureInv, ControlInv, SupervisorTypes
  <2>2. QED
    BY <2>1 DEF CaptureInv, TreeInv, ProcessTypes, StreamInv, StreamTypes, ControlInv, SupervisorTypes, SupRecord,
                Outcomes, TypeOK
<1>2. CaptureInv => UncertaintyDominates
  BY DEF CaptureInv, ControlInv, ErrorsInv, UncertaintyDominates
<1>3. CaptureInv => WorkersJoined
  BY DEF CaptureInv, ControlInv, AnswerInv, WorkersInv, Joinable, Running, Finished, WorkersJoined
<1>4. CaptureInv => CleanUpTellsTheTruth
  BY <1>1, <1>2, <1>3 DEF CleanUpTellsTheTruth
<1>5. QED
  BY CaptureAlwaysInv, <1>4, PTL

-----------------------------------------------------------------------------
(* The spawn handshake, whether or not the child may be killed from        *)
(* outside.                                                                *)

(* Where the three actors can be.                                          *)
ActorTypes ==
    /\ forked \in {"none", "reaped", "failed", "dead", "running"} \cup PreExec
    /\ keeper \in {"receive", "acknowledge", "done"}
    /\ ownership \in {"None", "Accepted", "Rejected"}
    /\ spawner \in {"spawn", "spawning", "drop", "join", "match", "done"}
    /\ spawned \in {"none", "Ok", "Err"}
    /\ outcome \in {"none", "CaptureSpawn", "supervise", "contain", "CaptureCleanup"}
    /\ ack \in BOOLEAN

(* Permission to execute comes from the receipt keeper, which gives it     *)
(* once, after it has published ownership.                                 *)
GrantInv ==
    /\ keeper = "receive" => ownership = "None"
    /\ keeper = "acknowledge" => ownership = "Accepted"
    /\ ack \/ forked \in {"granted", "running"} => ownership = "Accepted"

(* The parent decides with the worker joined and the result of spawn in    *)
(* hand; an error of spawn means that it has reaped what it had forked.    *)
VerdictInv ==
    /\ spawner = "spawn" => forked = "none"
    /\ spawner \in {"spawn", "spawning"} => spawned = "none"
    /\ spawner \in {"match", "done"} => keeper = "done"
    /\ outcome # "none" => spawner = "done"
    /\ spawned = "Err" => forked \in {"none", "reaped"}
    /\ outcome = "CaptureSpawn" => spawned = "Err"
    /\ outcome \in {"contain", "CaptureCleanup"} => ownership # "Accepted"

SpawnInv == ActorTypes /\ GrantInv /\ VerdictInv

(* Init establishes the invariant.                                         *)
LEMMA SpawnInitInv == SpawnInit => SpawnInv
BY DEF SpawnInit, SpawnInv, ActorTypes, GrantInv, VerdictInv, PreExec

(* The steps of the child before exec.                                     *)
LEMMA ChildInv ==
    SpawnInv /\ (ChildStep \/ ChildFails \/ ChildKilled) => SpawnInv'
<1> SUFFICES ASSUME SpawnInv, ChildStep \/ ChildFails \/ ChildKilled PROVE SpawnInv'
  OBVIOUS
<1> USE DEF SpawnInv, ActorTypes, GrantInv, VerdictInv, PreExec
<1>1. CASE ChildCloses
  BY <1>1 DEF ChildCloses
<1>2. CASE ChildSends
  BY <1>2 DEF ChildSends
<1>3. CASE ChildAcknowledged
  BY <1>3 DEF ChildAcknowledged
<1>4. CASE ChildRefused
  BY <1>4 DEF ChildRefused, ChildReports, ChildLeaves
<1>5. CASE ChildExecs
  BY <1>5 DEF ChildExecs, ChildLeaves
<1>6. CASE ChildFails
  BY <1>6 DEF ChildFails, ChildReports, ChildLeaves
<1>7. CASE ChildKilled
  BY <1>7 DEF ChildKilled, ChildLeaves
<1>8. QED
  BY <1>1, <1>2, <1>3, <1>4, <1>5, <1>6, <1>7 DEF ChildStep

(* The steps of the receipt worker.                                        *)
LEMMA WorkerInv == SpawnInv /\ (ThreadStep \/ ReceiveFails) => SpawnInv'
<1> SUFFICES ASSUME SpawnInv, ThreadStep \/ ReceiveFails PROVE SpawnInv'
  OBVIOUS
<1> USE DEF SpawnInv, ActorTypes, GrantInv, VerdictInv, PreExec
<1>1. CASE ReceiveAccepted
  BY <1>1 DEF ReceiveAccepted
<1>2. CASE ReceiveRejected
  BY <1>2 DEF ReceiveRejected, ThreadEnds
<1>3. CASE ReceiveNothing
  BY <1>3 DEF ReceiveNothing, ThreadEnds
<1>4. CASE Acknowledge
  BY <1>4 DEF Acknowledge, ThreadEnds
<1>5. CASE ReceiveFails
  BY <1>5 DEF ReceiveFails, ThreadEnds
<1>6. QED
  BY <1>1, <1>2, <1>3, <1>4, <1>5 DEF ThreadStep

(* The steps of the spawning thread.                                       *)
LEMMA ParentInv == SpawnInv /\ (ParentStep \/ ForkFails) => SpawnInv'
<1> SUFFICES ASSUME SpawnInv, ParentStep \/ ForkFails PROVE SpawnInv'
  OBVIOUS
<1> USE DEF SpawnInv, ActorTypes, GrantInv, VerdictInv, PreExec
<1>1. CASE ForkChild
  BY <1>1 DEF ForkChild
<1>2. CASE ForkFails
  BY <1>2 DEF ForkFails
<1>3. CASE SpawnReturns
  BY <1>3 DEF SpawnReturns
<1>4. CASE DropCommand
  BY <1>4 DEF DropCommand
<1>5. CASE JoinThread
  BY <1>5 DEF JoinThread
<1>6. CASE MatchSpawn
  BY <1>6 DEF MatchSpawn
<1>7. QED
  BY <1>1, <1>2, <1>3, <1>4, <1>5, <1>6 DEF ParentStep

(* The invariant gives what is promised.                                   *)
LEMMA InvIsSafe == SpawnInv => HandshakeIsSafe
BY DEF SpawnInv, ActorTypes, GrantInv, VerdictInv, HandshakeIsSafe, ExecOnlyOwned,
       SpawnErrorLeavesNoChild

(* Whichever side of the handshake fails, and whenever: the held file is   *)
(* executed only by a child whose pidfd the parent owns and supervises,    *)
(* and an error of spawn leaves no child (execute_held_inner).             *)
THEOREM HandshakeSafe == SpawnSpec => []HandshakeIsSafe
<1>1. SpawnInv /\ [SpawnNext]_spawnVars => SpawnInv'
  <2> SUFFICES ASSUME SpawnInv, [SpawnNext]_spawnVars PROVE SpawnInv'
    OBVIOUS
  <2>1. CASE ParentStep \/ ForkFails
    BY <2>1, ParentInv
  <2>2. CASE ThreadStep \/ ReceiveFails
    BY <2>2, WorkerInv
  <2>3. CASE ChildStep \/ ChildFails \/ ChildKilled
    BY <2>3, ChildInv
  <2>4. CASE UNCHANGED spawnVars
    BY <2>4 DEF spawnVars, SpawnInv, ActorTypes, GrantInv, VerdictInv
  <2>5. QED
    BY <2>1, <2>2, <2>3, <2>4 DEF SpawnNext, HandshakeOver
<1>2. QED
  BY <1>1, SpawnInitInv, InvIsSafe, PTL DEF SpawnSpec
=============================================================================

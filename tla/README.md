# Verification of `legitimacy` in TLA+

`legitimacy` (Rust, under `src/`) compiles declared decision rules
(`.rule.toml`) into checked rules, certifies which fairness axioms they satisfy
or sacrifice, and records every result in a tamper-evident ledger. Around that
pipeline it has governance graphs and their audit, a protocol state machine that
supervises a deployed rule, a drift monitor, a trajectory subsystem that
captures, sanitizes and replays runs of an external agent process, an executed
composition experiment, and a command line that publishes its output files.

This project models the parts with state in full (several processes on one
SQLite file, a supervised process tree, files published through several system
calls, commands over files that change), and the algorithms those parts decide
with (rules and their checks, graph traversal and audit, stream validation,
sanitizing, replay binding) as operators that are checked against independent
definitions.

## Inventory

| Component | State | Operations | Hard behaviour |
| --- | --- | --- | --- |
| Ledger (`src/src/ledger.rs`, `src/src/ledger/chain/`) | one SQLite file: four tables, hash columns, chain heads | `open`, `record_*`, `audit`, `verify_chain`, schema migration on every open | several processes, statement-level interleaving, failure at every statement, old files |
| Process capture (`codex_exec_v0/process_capture_*.rs`) | child process tree, pidfds, worker threads, signal mask, subreaper flag, workspace mode | `capture`, supervision loop, cleanup, output publication | threads, orphans, timeouts, races between exit and observation |
| Output publication (`src/cli/trajectory/linux_output*.rs`) | directory entries, temporary files, staging directories | `publish`, `publish_pair`, `publish_set`, `publish_directory_set`, rollback | failure between system calls, concurrent name creation |
| Protocol (`src/src/protocol/`) | protocol phase, declaration, compiled graph, session ledger, overlay graph of a supervision | `declare`, `compile`, `measure`, `activate`, `check_decision`, `report_drift`, `propose_revision`, `recompile`, `supervise`, supervisory actions | long call sequences, rollback of supervision |
| Rules (`lib.rs`, `rules*`, `axioms/diagnostics`, `mechanism.rs`, `paradox.rs`, `factor.rs`, `compiler.rs`, `sacrifice.rs`, `certificate.rs`) | none between calls; rows in the ledger | `compile`, `paradox`, `factor`, `sacrifice`, `certify`, `audit --events` | searches over coalitions and perturbations; a command that fails half-way |
| Drift monitor (`src/src/monitor.rs`) | file offset, declared bounds | `next_event`, the polling loop | reading a file while it is written |
| Graph (`src/src/graph`, `axioms/kernel`, `axioms/diagnostics/graph`, `paradox/graph.rs`, `extract/audit.rs`) | builder | `add_node`, `add_edge`, `build`, traversal, cycle iteration, audit | cycles, order of evaluation, perturbed graphs |
| Executed composition (`src/src/executed_composition/`) | host state, sinks, the signed record | one delivery per request, `demo`, `record`, `check` | agreement of host and checker, a record that changed |
| Codex stream (`codex_exec_v0/fsm.rs`, `mapping*.rs`, ...) | stream phase, open items | one transition per record, mapping to a trace | event order, streams that end early |
| Receipts, bundles, sanitizer, lineage (`codex_exec_v0/*`) | files | `adapt`, `sanitize`, `evaluate` | files that belong to different runs, inputs changed while they are read, private text in public output |
| Trajectory (`src/src/trajectory/*`, `src/cli/trajectory_replay.rs`) | files | `canonicalize`, `build`, `issue`, `verify` | ambiguous JSON, digests, inputs changed while they are read |

How the parts interact: the rule commands (`src/cli/workflow.rs`) call
`compiler.rs`, `certificate.rs`, `sacrifice.rs` and `paradox.rs`, each of which
writes rows through `Ledger::open_default()`; the CLI calls `audit` and
`verify_chain`. The protocol holds a compiled graph and chains its own decisions.
The trajectory commands run process capture, feed the captured bytes to the
codex stream machine, map them to a trace, bind the trace to a replay candidate
and a signed receipt, evaluate a policy on the graph traversal and publish the
results through the output publication layer.

What makes each part correct:

- Ledger: the chain stays linked, nothing committed is changed, acknowledged
  records are there once, verification has neither false alarms nor misses,
  every call returns.
- Process capture: success is reported only when the whole process tree is gone
  and every stream was read to its end; whatever fails, the tree is cleaned up or
  the caller is told that it may not be.
- Publication: a name is never overwritten, a set is published completely or
  removed again or reported as uncertain.
- Protocol: decisions are certified only by the rule that is active, drift beyond
  what was certified is on record, supervision leaves a graph that can be
  traversed, and one that a Pause or a Deny closed permits nothing until a Rollback.
- Rules: an enumeration misses no coalition, a reported bound covers its own
  counterexample, what is declared as sacrificed is what is lost, and rows with the
  same content hash agree on the verdict.
- Monitor: no completed drift is skipped, repeated or reordered, and a drift that
  is completed is printed in the end.
- Graph: the searches compute what their definitions say (components, most
  restrictive decision), the result does not depend on the order of evaluation,
  and a perturbation fails the audit only on a number that a claim lacks.
- Executed composition: the checker accepts what the host honestly recorded, and
  a record changed in one place never gets the opposite verdict.
- Recorded runs: the accepted streams are the complete ones, the sanitizer keeps
  them legal and reveals nothing, what is evaluated belongs together and existed
  at one moment.
- Trajectory: an accepted document is unambiguous, a verified replay is
  recomputed from these records and was signed for.

## Modules

| Module | Models |
| --- | --- |
| `Ledger` | the SQLite ledger, statement by statement, for any number of processes |
| `AuditLog` | what the ledger promises its callers; `Ledger` implements it |
| `LedgerFaults` | the ledger on a file that something else alters |
| `CaptureSpawn` | the hand-over of a spawned child's pidfd before it executes |
| `CaptureSupervision` | the supervision and clean-up of a captured process tree |
| `CaptureTransaction` | a capture's input snapshots, workspace and receipt |
| `CaptureOutput` | the output directory of a capture, up to the disk |
| `CaptureRun` | `CaptureTransaction` and `CaptureOutput` composed |
| `Publication` | files, pairs, sets and directory sets published by the CLI |
| `Protocol` | the governance protocol with supervision and revision |
| `AllocationRules` | claims, allocations, the built-in rules over exact fractions |
| `RuleChecks` | the searches: consistency with both enumerations, solidarity, monotonicity, misreports, paradoxes |
| `RuleCompiler` | compilation, sacrifices and their bounds, factor exposure, certification |
| `RuleCommands` | the rule commands with their ledger writes, and the drift monitor |
| `ExecutedComposition` | host, checker, recording and checking |
| `GovernanceNode`, `GovernanceGraph` | nodes and gates; Tarjan's search, traversal, cycles |
| `GraphAxioms`, `GraphAudit` | the axiom and paradox checks of a graph; builder and audit |
| `JsonScan` | the duplicate-key scan, token by token |
| `Trajectory` | validation, canonical bytes and digests, replay candidates, receipts |
| `TrajectoryComposition` | a policy evaluated on the prefixes of a trajectory |
| `Snapshots` | reading and revalidating an input that others change |
| `ReplayCommands` | the trajectory replay commands; composes `Trajectory`, `Snapshots` and `JsonScan` over documents that grow |
| `CodexStream` | framing, records, the stream machine, the mapping |
| `CodexReceipts` | input receipts, trusted contexts, nonces |
| `CodexBundles`, `CodexSanitizer` | the privacy scan, bundles, the sanitizer and the lineage sidecar |
| `CodexCommands`, `CodexRuns` | the commands over recorded runs; what is asked of the pipeline |
| `Values` | `With(v, Body)` and `Table(S, Of)`: a value computed once and named, in a form TLC can report coverage of |
| `LedgerProofs`, `LedgerCallProofs`, `CaptureSupervisionProofs`, `CaptureRunProofs`, `PublicationProofs`, `ProtocolProofs`, `ExecutedProofs`, `ReplayProofs` | theorems about the modules they are named after, and their proofs; `CaptureSupervisionProofs` is also about `CaptureSpawn`, `ReplayProofs` is about `ReplayCommands` |
| `MC...` | instances of these for TLC; `MCLedger` holds the generations of ledger file the runs start from; `MCGovernance` and `MCRecording` each put several programs that share no state side by side |

### Ledger

A process is one thread of control because `LEDGER_LOCK` admits one operation at
a time. `pc[p]` is its next SQL statement. `db` is the committed database,
`work` the private copy of the write transaction, `writer` the holder of SQLite's
write lock, `snap[p]` the snapshot of a read transaction, `current` the set of
processes whose open cursor still sees the newest data (SQLite refuses a write
by a reader whose snapshot is old: `SQLITE_BUSY_SNAPSHOT`).

| Actions | Code |
| --- | --- |
| `Start` | a public call enters `with_connection` |
| `ReadColumns`, `AddColumn`, `DuplicateColumn` | `ensure_column`, `ensure_chain_columns` |
| `CheckBackfill`, `OpenCursor`, `BackfillRow`, `BackfillConflict`, `BackfillDone` | `ensure_chain_schema`, `backfill_*_chain` |
| `ReadHead`, `ReadHeadHash`, `ReadHeadCount`, `WriteHead` | `initialize_chain_head` |
| `Begin`, `Insert`, `SetRowHash`, `UpdateChainHead`, `Commit` | `run_in_immediate_transaction` around the row insertions |
| `PinSnapshot`, `LoadTable` | `audit` |
| `PinSnapshot`, `ScanTable`, `CheckHead` | `verify_chain` |
| `BusyTimeout`, `Abort` | the busy timeout, an error or a crash at any statement |

Data is abstracted: a row's content is a number and the state of the column that
was added later; SHA-256 is injective, so a hash is the list of what was hashed.
The audit's name filter, timestamps and the wording of reports are left out.

### Capture: the spawn handshake (`CaptureSpawn`)

`execute_held_inner` blocks in `Command::spawn` while a receipt thread waits for
the child's pidfd on a socket pair and acknowledges it. `forked`, `keeper` and
`spawner` are the control states of the three actors; `sender` and `receiver` say
who still has a socket end open, because an end of file is the only way one side
learns of the other's death. `errpipe` is the pipe over which `spawn` learns
whether the child has executed.

| Actions | Code |
| --- | --- |
| `ForkChild`, `ForkFails`, `SpawnReturns`, `DropCommand`, `JoinThread`, `MatchSpawn` | `execute_held_inner` |
| `ChildCloses`, `ChildSends`, `ChildAcknowledged`, `ChildRefused`, `ChildExecs`, `ChildFails`, `ChildKilled` | the `pre_exec` closure and what can happen to it |
| `ReceiveAccepted`, `ReceiveRejected`, `ReceiveNothing`, `ReceiveFails`, `Acknowledge` | the receipt thread |

### Capture: supervision (`CaptureSupervision`)

The kernel's part of the state is the process table (`proc`, `parent`, `killed`),
who holds which pipe end (`holds`) and what is buffered (`pipe`). The supervisor
is a child subreaper, so orphans become its children. `worker`, `moved`, `flags`
and `cancel` belong to the three pipe threads; `sup` is the supervising thread:
its next step, the processes it owns, the failures it has recorded. Each system
call of the supervising thread is a step of its own: processes fork, exit and are
orphaned between `observe_direct`, `try_wait`, `reap_adopted` and
`fresh_absence`, which is where the code's difficulty lies.

| Actions | Code |
| --- | --- |
| `Environment` (`Fork`, `Exit`, `WaitForChild`, `CloseEnd`, `Emit`, `Consume`), `Deadline` | the captured processes and the clock |
| `WorkerCheck`, `WriteStream`, `ReadStream`, `WorkerFault` | the pipe threads |
| `StartWorker`, `SetupFails`, `Observe`, `TryWait`, `TakeSnapshot`, `ReapAdopted`, `FreshAbsence`, `Select` | the supervision loop |
| `CleanupObserve`, `CleanupSignal`, `CleanupReap`, `CleanupAbsent` | the TERM and KILL rounds |
| `Cancel`, `JoinCancelled`, `JoinFinished`, `FinalReap`, `FinalAbsence`, `Restore` | joining the threads, the verdict, putting the process state back |

Bytes are counted and have no value. The 400 TERM rounds and 2000 KILL rounds are
constants, because a round does the same whatever its number.

### Capture: the transaction (`CaptureTransaction`, `CaptureOutput`, `CaptureRun`)

`CaptureTransaction` opens and hashes the inputs, makes the workspace read-only,
executes, checks and restores the workspace and verifies every input again. The
inputs and the workspace may be changed between any two steps. `guard` says that a
`HeldWorkspace` exists: `OpenWorkspace` may return before there is one (a mode other
than 0700), `VerifyOpened` and every later step return with one, and only then does
`Drop` set the mode back. `named` says that the path still leads to the held
directory, which each verification of the workspace asks. The execution is
represented by its verdict. `CaptureOutput` is
`publish_output_directory_with_operations` for several captures with the same
output name, on a file system with a volatile and a durable part. A crash keeps
what is durable and any part of the rest. `CaptureRun` lets one capture run its
transaction and then its output while a rival only publishes.

### Publication (`Publication`)

A directory is a function from output names to inodes (`at`), with quarantine
names, further names (`elsewhere`) and, for a directory set, the staging and the
final name. Other processes of the same user act between any two system calls:
`Occupy`, `Carry`, `CarryTo`, `Write`, `AddEntry`, `DropEntry`, `TakeName`.

| Actions | Code |
| --- | --- |
| `Prepare`, `Preflight`, `WriteTemporary`, `RevalidateNext`, `Guard`, `Link` | up to the `linkat` that commits a member |
| `RecordMetadata`, `SourceAndSync`, `HeldIntegrity`, `CommitDone`, `FinalIdentity`, `LateVerifier`, `FinalCheck` | the checks after it and their ranking |
| `PairCheck`, `RankErrors`, `PairEnds` | `publish_pair` |
| `PreflightSet`, `CreateStaging`, `StagingName`, `StagingInventory`, `StagingMembers`, `FinalName`, `RenameSet` | `publish_directory_set` |
| `RollbackVerify`, `Quarantine`, `Inspect`, `Unlink`, `CleanupName`, `RemoveStaging`, `GiveUp`, `RollbackEnds` | the rollbacks |

A check of a held inode is one step: its metadata comparison before and after
makes it a snapshot. Two intervals the code calls unprotected are atomic here:
nobody touches a random quarantine name, and the last proof of the staging
directory is one step with its removal.

### Protocol (`Protocol`)

Each transition consumes a state and returns a validated one or an error; the
caller of a failed transition still has the old state, so an error is a step that
changes nothing. `phase` is the variant of `ProtocolState`, the other variables
are its fields. The axiom checkers are the constant operator `Violations`; the
model assumes nothing of its answers. `shut` is a history variable.

| Actions | Code |
| --- | --- |
| `Declare`, `Compile`, `Measure`, `Activate` | the way to a live session |
| `CheckDecision`, `ReportDrift` | `check_decision`, `report_drift` |
| `ProposeRevision`, `Recompile` | revision after drift |
| `Supervise` | `supervise`, `apply_supervisory_action` and its graph rewrites |

### Rules and the monitor (`AllocationRules` to `RuleCommands`)

The code computes with `f64` and a tolerance of 1e-9. The model uses exact
fractions in lowest terms: the numbers of a run differ by far more than the
tolerance, and rounding by far less. A search (an axiom, a paradox, misreports)
walks a sequence of perturbed problems in the order of the code and stops at the
first that fails to evaluate or breaks the axiom. Coalitions are enumerated both
ways, by Gosper's step on bit masks and by vectors, and `BitsetLimit` is set so
that both are used. A mask has `MaskBits` bits; the step that would not fit ends the
enumeration, as `checked_add` does in the code.

| Actions | Code |
| --- | --- |
| `Start` | a command is called |
| `LoadContext` | `load_runtime_context`: parse, compile, record |
| `Paradox`, `RecordParadox`, `Factor`, `CompileAgain`, `DeclareSacrifices`, `Certify`, `AuditEvents` | the rest of each command, one ledger write per step |
| `MonitorRead` | `JsonlEventSource::next_event` and the loop around it |
| `AppendPiece` | another process appends a line, or part of one |
| `Interrupt` | the command is stopped between two writes |

A write may fail at any step; the paradox suite commits one transaction per violation,
so a failure may leave a prefix of them. The rows of the ledger are a sequence here; how
they get there is the subject of `Ledger`.

### Executed composition (`ExecutedComposition`)

| Actions | Code |
| --- | --- |
| `HostExecute` | one request at the host: decide with or without the guard, deliver, record |
| `HostEnd` | the end of a run |
| `Seal`, `WriteOutput` | `record_suite`: self-check, signature, one file per write |
| `CheckBundle` | `check` by a reader who trusts the key or does not |
| `CheckUnsigned` | `demo`, and the library's check of any record |

Before a check the record may change in one place (`Edited`: a field of an event,
a sink, the grants, the guard flag, a missing part); what was signed does not
change with it. A check recomputes every transition and reads the sink back.

### Graphs (`GovernanceNode` to `GraphAudit`)

`AddNodeStep`, `AddEdge` and `Build` are the builder's calls, `Audit` is
`audit_governance_graph`, with the caller's claims or the graph's own synthetic ones
(`AuditInputs`). Texts are what the gates can tell of them (prefixes, matched
expressions), identifiers are naturals in the order of the code's maps, numbers are
multiples of 1/20, the finest step a check takes. Counterexample texts and the spectral
part of the report are left out. `CycleIterations` stands for the 32 rounds of a cycle
probe.

### Trajectories (`JsonScan` to `ReplayCommands`)

Digests and signatures are free constructors of what they cover, with their domain.
Length-prefixed encodings are injective, so encoded bytes are the tuple of what was
encoded. The digest of a locator covers the bytes located, whatever record and offset
they are at (`LocatedBytes`). The shape of a document is the name of the wire type it
decodes as: the types are closed (`deny_unknown_fields`) and carry their format, so a
document decodes as at most one of them. The commands are `canonicalize`, `build`,
`issue` and `verify`. A command reads its inputs one after the other (`OpenGate`,
`FinishRead`), computes, and publishes; between any two steps another process may write
in place, replace, link or unlink a file (`Others`). The fingerprint of an inode is one
stamp that every change moves.

Two named assumptions say what files there may be, and TLC evaluates them in the run.
`FilesAssumption`: the inputs have names, what decodes as a trace or as raw records has
its Rust type (an index is a `usize`, an optional value is there or not), and the
length of a trace's compact JSON depends on the trace alone. `AuthorityAssumption`:
signatures cannot be forged, so a receipt that was found and that a trusted key
verifies for a trace that was found had been issued by the holder of the key.

### Recorded runs (`CodexStream` to `CodexRuns`)

An execution looks at one of three things: a recorder that emits records (`Emit`), a
public surface that grows byte by byte (`Extend`), or commands over files
(`StepCommand`): adapting to a private bundle (`RunPrivate`), sanitizing to a public one
(`RunShareable`) and evaluating (`Evaluate`, `RevalidateInput`, `PublishEvaluation`). A
text is a pair of what the privacy scan sees in it and its name; that is enough to tell
which texts are equal and which are suspicious. `PrivateShapes` names what the detectors
look for; how they recognise it in characters is not modelled. The policy of `evaluate`
is a peer-relative gate and runs on the traversal of `GovernanceGraph`.

## Runs

| Run | Instance | Checks |
| --- | --- | --- |
| `ledger_migrate` | 2 processes, the sacrifices table, files fresh, without chain and with an old chain, up to 2 old rows, batches of up to 2, weak fairness | `TypeOK`, `ChainSound`, `SacrificesAllOrNothing`, `AppendOnly`, `CommitAnchors`, `CallsReturn` |
| `ledger_anchored` | 2 processes, 2 tables, files with heads, 2 new rows | `NoFalseBreak`, `RecordedOnce`, `ImplementsAuditLog` |
| `ledger_damage` | 2 processes, files with complete chains and heads, 1 change from outside | `DamageReported` |
| `ledger_first_open` | 2 processes, a fresh file | violation of `NoFalseBreak` |
| `capture_tree` | 3 processes, no data, no failing calls | `FailureIsContained` |
| `capture_faults` | 2 processes, one failing call or thread, weak fairness | `CleanUpTellsTheTruth` (types; `UncertaintyDominates`, `WorkersJoined`), `CaptureReturns` |
| `capture_streams` | 2 processes, 1 byte of input, 2 bytes of output against a cap of 1 | `SuccessIsComplete`, `StrongestFailureWins` |
| `capture_descendant` | 2 processes | violation of `LiveDescendantIsLive` |
| `capture_run` | a capture and a rival, 1 input changed at most twice, 2 files, a crash | `AcceptedIsDurable`, `FailureLeavesNothing`, `PublishedIsAttested`, `WorkspaceHandedBack` |
| `trajectory` | documents of up to 6 tokens; 2 commands over traces, candidates and receipts, 1 change from outside | `AcceptedIsUnambiguous`, `ReplayIsGenuine` (types; `SnapshotsAreWhole`, `VerifiedIsRecomputed`, `DigestBindsTrace`, `ValuesAreEvidenced`, `VerifiedWasIssued`) |
| `governance` | one of four programs: rules, executed composition, protocol, publication; weak fairness of the monitor | see below |
| `recording` | one of three programs: recorded runs, graph audit, spawn handshake; weak fairness of the handshake | see below |

Several of the properties a run checks are conjunctions, one per promise of a
component; the conjuncts, in parentheses in these tables, are definitions of their
own and say what is promised in detail. The type invariant of a component is the
first conjunct of one of them.

`governance` and `recording` each choose a program in the initial state and leave
the variables of the others at rest. Nothing is claimed about two of them
together: they share no state in the code either.

| Program | Instance | Properties |
| --- | --- | --- |
| rule commands | 19 policies over every kind of rule, up to 4 claims, 1 command or 2 that share a rule, 1 failing write, masks of 4 bits, event files of up to 3 lines or pieces | `ChecksAreExact` (`CoalitionsAreComplete`, `SeatsFollowTheDivisor`, `ControlsAreSound`), `RowsAreGrounded` (types; `BoundsCoverTheirWitness`, `SacrificesMatchExposure`, `HashesSpeakForOneVerdict`), `DriftsAreReported`, `MonitorKeepsUp` |
| executed composition | up to 4 requests of 5 kinds, limit of 3 events, 1 change of the record | `VerdictsAreSound` (types; `HonestRunsCheckOut`, `VerdictFollowsTheSink`, `GuardIsExact`, `FirstForbiddenIsEarliest`) |
| protocol | 3 graphs, 5 sacrifice lists, 2 claimants, up to 3 decisions | `SessionIsWellFormed` (types; `CertificatesChain`), `SacrificesAreExact`, `DriftIsReported`, `SupervisionIsSafe` (`ShutStaysShut`, `OverlayTraversable`), `SessionOnlyGrows` |
| publication | each of the 4 operations, 2 members, 2 foreign inodes, 3 outside steps | `NothingForeignIsLost`, `ResultTellsTheTruth` (types; `OkWasWhole`, `ErrorLeavesNothing`) |
| recorded runs | streams of up to 7 records, surfaces of up to 6 bytes in chunks of 2, 1 command over 9 sets of files, 1 change from outside | `StreamsAreExact` (`StreamsAreLegal`, `MappedTracesValidate`, `SanitizedStaysLegal`), `NothingPrivateLeaks` (`SanitizedRevealsNothing`, `ScanSeesAcrossChunks`, `EvaluatedPublicIsClean`), `EvaluatedIsGenuine` (types; `EvaluatedIsBound`, `InputsCoexisted`, `PrivateBundleBindsAuthority`, `DenialIsEarliest`) |
| graph audit | every graph of up to 3 nodes and 3 edges over 8 kinds of node, 5 corpora | `TraversalIsExact` (`CyclesAreComponents`, `FinalIsMostRestrictive`, `ModificationIsInert`, `OrderIndependent`), `AuditIsSound` (types; `DenialsStand`, `CyclesNeverAdmissible`, `ExtractableIsLive`, `PeerFreeIsConsistent`, `AuditErrsOnlyOnItsInputs`) |
| spawn handshake | one child that may be killed | `HandshakeIsSafe` (`ExecOnlyOwned`, `SpawnErrorLeavesNoChild`), `HandshakeEnds` |

Why the bounds are enough:

- Ledger. Two processes suffice for every race: the write lock makes a third one
  wait, and no statement depends on more than one other process's last write. Two
  old rows give a backfill that can stop between rows, and a chain with an inner
  link.
- Capture. Three processes are the main process, a child of it and an orphan of
  that child, which arrives at the supervisor in the middle of a round. One byte
  beyond the cap is an overflow; a buffer of one byte blocks a writer at once. Two
  changes of an input are a change and the change back.
- Publication. Two members are a member that is committed and one that fails
  after it. Three outside steps are enough to move a file away, put another in its
  place and bring the first back.
- Protocol. Two strong claims of two claimants exceed a bound that one of them
  does not, and a chain of three certificates has an inner link. The graphs have
  a fork, a chain that already contains the name of the reroute node, and a
  single node.
- Rules. Three claims have coalitions of two sizes and four cross from masks to vectors;
  the policies include a duplicate claimant, a claimant named like the paradox suite's
  entrant, a house that is no whole number, and a table without an entry. A second
  command runs only after a command with the same rule: what the first left in the
  ledger matters to nothing else. Three pieces are a line in two halves and a line after
  it.
- Executed composition. Four requests are both fragments, a denied one and one
  beyond the limit of three events.
- Graphs. Three nodes make a cycle with a way in, a diamond's shared successor and
  components of one, two and three nodes; repeated edges are among the three. One
  kind of node denies a risk and otherwise escalates, and one corpus lacks the number
  that a later node reads, so that only a perturbed claim gets there.
- Trajectories and recorded runs. One change between two reads is what a snapshot
  has to notice. Two commands are an issue and a later verification. Seven records
  are a thread, a turn, two overlapping items or a list shown three times, and the
  end. Patterns of up to 3 bytes in chunks of 2 lie across two chunks at every offset.

`trajectory` does not check for deadlock: a user may stop after any command. In
`governance` and `recording` the protocol, which only answers calls, and the recorder
and its user may rest at any point; every other program may rest only where it is
done.

Fairness:

- The ledger's `FairSpec` asks weak fairness of each process's own next
  statement, which the scheduler gives. A process need not start a call, and
  failures are never required. The busy timeout is a step of the waiting process.
- The capture's asks it of the supervising thread, of each pipe thread and of the
  clock. Nothing is asked of the captured processes: they may ignore TERM and stay
  for ever unless killed.
- The handshake's asks it of the parent, the receipt thread and the child's own
  code before `exec`, and that a send into a closed socket fails.
- The monitor's asks it of its read: the loop polls for ever. Nothing is asked of
  the process that writes the file.

## Where the code and its documentation differ

Two runs expect a violation:

- `ledger_first_open`: `initialize_chain_head` is four auto-committed statements.
  A process that read the empty table overwrites the head another process has
  moved on meanwhile, and `verify_chain` reports a broken chain on a file only the
  program wrote.
- `capture_descendant`: `capture-live-descendant` is documented as a fresh
  observation of a live descendant. A child that died before its parent exited
  and is adopted between `observe_direct` and `try_wait` is not yet owned when
  dead children are reaped; `fresh_absence` then finds it and the capture fails,
  although nothing is alive.

Remarks from reading the code, for which no run was made:

- `process_capture_supervisor.rs:375`: the child closes the number of the
  receiving socket. If the receipt thread failed and closed it before the fork,
  the number may belong to `spawn`'s own error pipe; `spawn` then returns success
  for a child that never executed, which `docs/codex-exec-v0-adapter.md:305-307`
  excludes. The model has this case (`errpipe`), and its properties hold in it.
- `process_capture_platform.rs:597`: a capture-cleanup of the execution can be
  replaced by the error of the workspace's postcheck, while
  `docs/codex-exec-v0-adapter.md:246-247` lets capture-cleanup dominate. The model
  (`FinishWorkspace`) does what the code does.
- A capture that is killed while the workspace is read-only leaves it so: only `Drop`
  sets the mode back. `WorkspaceHandedBack` speaks of a capture that has returned.
- `linux_output_set.rs:89-101` leaves an empty staging directory behind when the
  directory it has created cannot be opened.
- `protocol/transitions.rs:651`: a violation of magnitude 0 raises no
  `undeclared_violation` alert. `DriftIsReported` speaks of what exceeds the bound.
- `measure` accepts claims that already violate; the alert comes with the first
  decision. `DriftIsReported` starts there.
- `Stop` is described by the postcondition `PermanentlyShutdown`
  (`protocol/state.rs:137`), but a later `Rollback` restores the declared graph.
  `ShutStaysShut` is about `Pause` and `Deny`, and ends with a `Rollback`; nothing is
  claimed of the permanence of `Stop`.
- A `Reroute` to given targets leaves the other successors of the removed entry
  nodes as entries of their own.
- Rules. `is_admissible` also requires strategyproofness, while the documentation
  of `lib.rs` names three axioms; the proportional rule with two claimants or more
  is therefore never admissible. `consistency.rs:4-7` speaks of the estate reduced
  by the departing share; `evaluate_reduction` uses the sum of the survivors'
  shares, which differs for rules that do not spend the estate. The content hash of
  a compiled rule covers neither claims nor estate. A claimant whose name is
  another's with `_clone` makes the paradox suite fail.
- Monitor. A last line that is not finished is parsed at once: its first half ends
  the command with an error (`DriftsAreReported` says that it is never misread).
  After a truncation or rotation of the file the offset stays beyond the end and
  nothing is read any more.
- Graph. The audit of an empty graph fails as a whole (`NoEntryNodes`), though each
  kernel check alone answers as `docs/degenerate-behavior.md` says. Every cycle is
  inadmissible (`CyclesNeverAdmissible`), and `ClaimModification` never changes a
  claim (`ModificationIsInert`). The non-vacuity probe of a cycle ignores the
  claims it is given and fails on threshold nodes that need a metric. A claim that is
  evaluated without an error can still fail the audit: the monotonicity check lowers
  its risk (`extract/audit.rs:336-340`), it is escalated to a node it did not reach
  before, and that node reads a number it lacks. `AuditErrsOnlyOnItsInputs` names this
  case, and the run reaches it.
- Executed composition. If a write of `record` fails, the directory stays and a
  retry refuses it. A host run of more than 256 events is later called invalid.
- Trajectory. Commands with one or two outputs do not look at their inputs again
  before they publish; those with a set of outputs do. The replay head does not
  bind `allowed_derivations`. A snapshot relies on a stamp that moves with every
  write.
- Recorded runs. Sanitizing may reorder the kinds of changes, because it sorts by the
  new paths; the child shows in which order the parent's paths came
  (`SanitizedRevealsNothing` renames with the order kept). Pseudonyms sort by text,
  which is their order below 10 000. The public bundle carries no commitment to its
  lineage. With a sidecar, `evaluate` compares the attached capture with the sidecar's
  child and does not scan it again (`lineage_sidecar.rs:59-80`); a pair that agrees with
  itself for a capture that was not sanitized is evaluated. The run has such a pair, and
  `EvaluatedPublicIsClean` speaks of evaluations without a sidecar, where
  `revalidate_public_projection` scans. A policy whose name looks like an address is
  accepted by the adapter and refused by the public scan. The outcome of a composition
  depends on the number of events only.

## Proofs

Every theorem holds for all values of the constants that satisfy the named
assumptions of the module (any set of processes, any number of files, rivals,
strangers, rounds, failures). Each rests on an inductive invariant that TLC also checked
on the instances of the runs (`ReplayInv` with shorter documents, and with `IsSeq` and
`Foreign` in forms TLC can evaluate). The modules have the same plan:
the parts of the invariant with the reason for each, lemmas about the operators,
one lemma per action (or per group of actions that leave the same things alone),
one that puts the actions together, and the theorems by temporal logic.

| Module | Theorems (the property each states) |
| --- | --- |
| `LedgerProofs` | `TypeCorrect` (`TypeOK`), `ChainStaysLinked` (`ChainSound`), `OnlyAppends` (`AppendOnly`), `CommitsAnchor` (`CommitAnchors`) |
| `LedgerCallProofs` | `RecordsAreHeldOnce` (`RecordedOnce`), `SacrificesStayTogether` (`SacrificesAllOrNothing`), `LedgerImplementsAuditLog` (`ImplementsAuditLog`), `VerificationHasNoFalseBreak` (`NoFalseBreak`), `DamageIsReported` (`DamageReported`) |
| `CaptureSupervisionProofs` | `FailuresAreContained` (`FailureIsContained`), `SuccessesAreComplete` (`SuccessIsComplete`), `StrongestFailuresWin` (`StrongestFailureWins`), `CleanUpsTellTheTruth` (`CleanUpTellsTheTruth`), `HandshakeSafe` (`HandshakeIsSafe`) |
| `CaptureRunProofs` | `AcceptedStaysDurable` (`AcceptedIsDurable`), `FailuresLeaveNothing` (`FailureLeavesNothing`), `CaptureRefinesOutput`, `PublicationsAreAttested` (`PublishedIsAttested`), `WorkspacesAreHandedBack` (`WorkspaceHandedBack`) |
| `PublicationProofs` | `ForeignFilesSurvive` (`NothingForeignIsLost`), `AnswersTellTheTruth` (`ResultTellsTheTruth`) |
| `ProtocolProofs` | `SessionsAreWellFormed` (`SessionIsWellFormed`), `SacrificesStayExact` (`SacrificesAreExact`), `DriftsHaveAlerts` (`DriftIsReported`), `SupervisionStaysSafe` (`SupervisionIsSafe`), `SessionsOnlyGrow` (`SessionOnlyGrows`) |
| `ExecutedProofs` | `ExecVerdictsAreSound` (`VerdictsAreSound`) |
| `ReplayProofs` | `ReplayGenuine` (`ReplayIsGenuine`) |

### The chain (`LedgerProofs`)

From any initial files that satisfy `FileOK`. `ChainSound` is not inductive. Whether
a step keeps the chain linked depends on what the process believes: that the tables
behind it are completely hashed, that the hash it carries is the one of the row it
passed last, that the lock holder's copy extends the database. `ChainInv` collects
these beliefs as named parts: `SettledHashed`, `LockInv`, `BackfillFormat`,
`BackfillInv`, `TransactionInv`. The argument that needs most care is a backfill that
meets a row another process has hashed already. Its update writes the same value
again, because a table that is being backfilled holds only hashes of the current
format (`BackfillFormat`) and the row is linked to the one the cursor passed
(`BackfillInv`); that is lemma `BackfillUpdate`. If it met a row of the older format
it would replace its hash and break the row after it. Most actions are *quiet*: they
change no row and run outside a transaction (`QuietChain`). Steps inside a transaction
share `TransactionChain`.

### The calls of the ledger (`LedgerCallProofs`)

`RecordInv` adds to the chain who has submitted what: `LabelInv` (where a call is
tells which call it is), `SubmitInv` (no two submitted contents are the same, in one
call or in two), `StoredInv` (nothing is stored that is still to be submitted),
`BatchInv` (the open transaction holds the first rows of its batch, in their order,
after the rows of the file) and `ProgressInv` (the first batches of a call are in the
file, each row once, and nothing of the later ones is). A transaction that is lost
takes its rows with it because they are in `work` only, so a call that failed has left
whole batches or nothing. `LedgerImplementsAuditLog` needs `ReportInv`: what an
audit has loaded so far comes from the one snapshot it pinned.

`VerificationHasNoFalseBreak` assumes `AnchoredFiles`: the initial files have
complete chains and heads. Without that assumption the statement is false, which the
run `ledger_first_open` shows on the code's first-open race. `IntactInv` says that
every committed state is one `verify_chain` accepts and that a verification looks at
one committed state.

`DamageIsReported` is about `FaultSpec`, from the same files and while at most one
change from outside has been made; two may cancel each other (a row altered and
altered back). After a change `ChainInv` no longer holds, so the argument has an
invariant of its own: `CalmInv`, that every row has a hash and every table a head,
hence nothing is migrated or repaired and a commit only adds rows (`CalmKeeps`), and
`DamageInv`, that the altered row is still one whose hash does not fit (`BadRow`), or
the head still counts more rows than there are (`Short`), and that a verification that
pinned such a file still has the damage ahead of it (`Doomed`). Hashes are injective
terms in the model (`HashTells`). The run `ledger_damage` starts from files of the
same kind, in the older and the present form of the hashed text. Damage to a table
that has unhashed rows or no head yet is neither run nor proved (`Protected`).

### Capture

The spawn handshake (end of `CaptureSupervisionProofs`): `SpawnInv` relates the three
actors. Permission to execute is given once and after ownership is published
(`GrantInv`); the parent decides with the worker joined (`VerdictInv`). The kills from
outside may be on or off.

`CaptureSupervisionProofs`: the invariant has a part for the process tree, one for
the streams and one for the supervisor. The heart is lemma `AbsenceIsProof`: when
the supervisor, as subreaper, is told that it has no child left, no process of the
tree is left at all. The tree is described by `Rooted` (whatever set of processes is
alive, one of them has its parent outside the set) and `ParentsLive`; they make the
lemma one instantiation, without an induction over descent, and every fork, exit,
reparenting and reaping keeps them. What the supervisor has recorded of errors,
flags and workers then decides the answer.

`CaptureRunProofs`: `OutputInv` says who has the output name, on the
directory and on the disk, and what a publisher that has ended left there. It gives
the two properties of the output directory for any number of rivals. A whole capture
refines that specification (`CaptureRefinesOutput`), so they carry over; `CaptureInv`
then gives the attestation and the workspace.

### Publication (`PublicationProofs`)

`PublicationInv` has a part for the phases of the call, for what is linked, for
what is committed, for the moments a call may refer to, for quarantine and for the
answers. Two ideas carry it. A committed file is as it was committed or *spoiled*, and
what strangers spoil stays spoiled (`StrangersOnlySpoil`), so a closing loop that has
passed every file proves that there was one moment at which all of them were whole.
And a quarantine name is used once, so what rollback unlinks is what it put there.
`PublicationAssumption` says that the inodes of other processes are not those of the
members.

### Protocol (`ProtocolProofs`)

For all graphs without cycles, all claims, and any answers of the axiom checkers
(`ViolationsAssumption` only says that they answer, and about properties there are).
`ProtocolInv` says where the parts of a state come from (`PartsInv`: sacrifices are
the violations on the synthetic claims), that a ledger exists in a session only
(`LedgerInv`), and keeps the declared graph beside the supervised one (`OverlayInv`):
nodes that supervision added are entries, nothing leads to them, so the overlay stays
without cycles, and a shut graph has only denying and escalating nodes, which every
action but a Rollback leaves so.

### Executed composition (`ExecutedProofs`)

For all requests of the two principals, all limits (the grant limit admits the host's
own eight grants) and any single change of the record. `ExecInv` has three parts:
`HostInv` (an unchanged record is honest: the checker would follow it without an error
to the host's own state and sinks; a changed one can still be read), `FilesInv` (what
has been written in which stage) and `VerdictInv` (a report is the one the checker
computes of the record it was given, authenticated only if that record was signed).

What the checker computes is a recursion over the events (`Scans`), so the properties
of a verdict need an induction over the record. The library's induction theorems take
an operator as a parameter; `SetInduction` states induction for a *set* of naturals
instead, from the well-foundedness of `<` (`WFMin`), and that is enough: `ScansExist`
and `ScansUnfold` say that the recursion has a solution and what its steps are, and
`LoopInv`, an invariant of the checker's loop, says after each event that what the
checker has reconstructed agrees with what the events before say was delivered. The
four parts of `VerdictsAreSound` follow from `LoopInv` at the last event
(`ConclusionIsSound`, `GuardOfHonest`, `HonestIsNeverInvalid`).

### Replay (`ReplayProofs`)

For all files that a command may find, all limits, any number of commands and any
number of changes by other processes. `ReplayIsGenuine` is about verdicts that have
been given, and says nothing of a command that is under way; `ReplayInv` does:

- `FilesInv`: every content was found or put there by others (`Foreign`), or is an
  output of these commands (`Output`). Of the outputs only receipts are read back, and
  each of them was issued. Without this part a receipt in a file could be anything.
- `CommandInv`: the files that a command holds are the first of its plan, and the
  rest is still to come (`PlanInv`); since the gate was opened, the stamp of the inode
  has moved or its content is what was read first (`GateInv`); hence a snapshot is one
  content that the file had as a whole (`SnapOK`).
- `CountInv`: the codes of failures are from the closed sets.
- `HistoryInv`: receipts and candidates of the past are what the commands compute.

The lemmas that carry it: changes from outside move the stamp of what they change
(`StampsMove`, `OthersKeepFiles`). Validation walks the fields of all events, a
flattened list; `FlattenParts` (by `SetInduction`) says that each of them is in it, and
`ValidTrace` that each field of an accepted trace therefore names a raw record there is.
A digest stands for one trace (`CandidateBinds`, `DigestsBind`, `CanonicalBytesBind`),
because lengths, domains and the parts of the candidate are all covered.
`TrustedWasIssued`: a receipt that the policy's key verifies was issued under that key
and epoch for a trace with the same canonical bytes: a receipt that was found by
`AuthorityAssumption`, one that was written here by `FilesInv`.

### Model-checked only

Out of the prover's reach: liveness (`CallsReturn`, `CaptureReturns`, `HandshakeEnds`,
`MonitorKeepsUp`); what the recursively defined hashes of the initial files are (they
enter the proofs as `InitialDbsAssumption`, which TLC evaluates); the properties of
modules that use recursive operators or bit masks (`TraversalIsExact`, `AuditIsSound`,
`RowsAreGrounded`, `ChecksAreExact`, `DriftsAreReported`, `EvaluatedIsGenuine`,
`StreamsAreExact`, `NothingPrivateLeaks`); and `AcceptedIsUnambiguous`, a comparison of
the duplicate-key scan with a reading of the same tokens that follows their nesting, an
induction over the document.

## Not modelled

- Spectral analysis: numerical linear algebra.
- Source extraction (`src/src/extract` without `audit.rs`): pattern matching over the
  text of other projects; no state, and no definition of the right answer other than
  the code.
- Policy files, argument parsing, corpus listing, printing: parsing and formatting.
- Behavioural lineage, the harness and the safety specification reduction:
  evaluations of fixed tables.
- `compile_graph_with_sacrifices`, the graph monitor, the rational consistency checker
  and the diagnostics of binary nodes: library entry points no command calls, variants
  of searches that are modelled.
- The agent audit binaries (wrappers of extraction and capture), the Lean
  development, scripts.
- SQLite, the kernel and the file system are modelled by what the code relies on.
- Rounding of `f64`, the bytes of formats, and the walk of pinned ancestor directories.

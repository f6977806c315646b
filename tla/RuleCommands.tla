---------------------------- MODULE RuleCommands ----------------------------
(***************************************************************************)
(* The commands over a rule policy (src/cli/main.rs, workflow.rs) and the  *)
(* drift monitor (src/src/monitor.rs), one at a time, against one ledger,  *)
(* while another process appends to the monitor's event file.              *)
(*                                                                         *)
(* A command loads its policy once and compiles it, which writes a row;    *)
(* what follows works on that context.  Every write to the ledger may      *)
(* fail, and a command may be interrupted between any two writes: what is  *)
(* written stays.                                                          *)
(*                                                                         *)
(* The event file is a sequence of pieces, each one write of the other     *)
(* process: [event, text, newline], where text is "full" (the whole JSON   *)
(* object), "start" or "end" (its halves) or "none", and newline says      *)
(* whether the piece ends the line.                                        *)
(***************************************************************************)
EXTENDS RuleCompiler

CONSTANTS Requests,      \* the commands: [op, policy, input], where input is the
                         \* [id, outcome, evidence] of certify, the lines of audit
          Consecutive,   \* the commands of which one may be run after another
          DriftEvents,   \* [property, magnitude] another process may append
          MaxCommands, MaxFaults, MaxPieces

VARIABLES cmd,     \* the command: [op, phase, policy, input, compiled, sacrifices, results]
          records,  \* the rows written, oldest first
          log,     \* the pieces of the event file
          offset,  \* JsonlEventSource.offset, in pieces
          printed, \* the drift events the monitor printed
          started, faults

ruleVars == <<cmd, records, log, offset, printed, started, faults>>

RuleOps == {"compile", "paradox", "factor", "sacrifice", "certify", "audit", "monitor"}
NoInput == [id |-> <<>>, outcome |-> Zero, evidence |-> TRUE, lines |-> <<>>]
NoPolicy == [rule |-> "none"]
NoCompiled == [ok |-> FALSE]
Idle == [op |-> "none", phase |-> "idle", policy |-> NoPolicy, input |-> NoInput,
         compiled |-> NoCompiled, sacrifices |-> <<>>, results |-> <<>>]

RuleInit ==
    /\ cmd = Idle /\ records = <<>> /\ log = <<>> /\ offset = 0 /\ printed = <<>>
    /\ started = 0 /\ faults = 0

unchangedLog == UNCHANGED <<log, offset, printed>>

(* What may be run next: anything at first, then only some.                *)
Startable ==
    IF started = 0 THEN Requests
    ELSE IF [op |-> cmd.op, policy |-> cmd.policy, input |-> cmd.input] \in Consecutive
    THEN Consecutive ELSE {}

(* A new process; the monitor reads the event file from its beginning.     *)
Start(r) ==
    /\ cmd.phase \in {"idle", "done", "failed"} /\ started < MaxCommands
    /\ started' = started + 1
    /\ cmd' = [Idle EXCEPT !.op = r.op, !.phase = "load", !.policy = r.policy, !.input = r.input]
    /\ offset' = 0 /\ printed' = <<>>
    /\ UNCHANGED <<records, log, faults>>

(* One write to the ledger, after which the command is next; the write is  *)
(* all or nothing, and its error ends the command.                         *)
Record(row, next) ==
    \/ records' = Append(records, row) /\ cmd' = next /\ UNCHANGED <<started, faults>>
    \/ /\ faults < MaxFaults /\ faults' = faults + 1
       /\ cmd' = [cmd EXCEPT !.phase = "failed"]
       /\ UNCHANGED <<records, started>>

Fail == cmd' = [cmd EXCEPT !.phase = "failed"] /\ UNCHANGED <<records, started, faults>>
Finish(next) == cmd' = next /\ UNCHANGED <<records, started, faults>>

CompiledRow(c) == [table |-> "compiled_rules", hash |-> ContentHash(c), admissible |-> IsAdmissible(c)]
CertificateRow(c, input) ==
    [table |-> "certificates", hash |-> ContentHash(c), claimant |-> input.id, outcome |-> input.outcome]

(* load_runtime_context: parse, compile, record.                           *)
LoadContext ==
    /\ cmd.phase = "load" /\ unchangedLog
    /\ \E c \in {CompileRule(cmd.policy)} :
          IF ~c.ok THEN Fail
          ELSE Record(CompiledRow(c),
                      [cmd EXCEPT !.compiled = c,
                                  !.phase = IF cmd.op = "compile" THEN "done"
                                            ELSE IF cmd.op = "monitor" THEN "sacrifice" ELSE cmd.op])

(* run_paradox_suite: the detectors in their order.                        *)
Paradox ==
    /\ cmd.phase = "paradox" /\ unchangedLog
    /\ \E s \in {ParadoxSuite(cmd.policy.rule, cmd.policy.claims, cmd.policy.estate)} :
          IF ~s.ok THEN Fail
          ELSE Finish([cmd EXCEPT !.phase = "recording",
                                  !.results = IF s.found = {} THEN <<"none">>
                                              ELSE SelectSeq(<<"addition", "population", "priority">>,
                                                             LAMBDA d : d \in s.found)])

(* record_paradox_results: each violation is a transaction of its own, and *)
(* one row says that there was none.                                       *)
RecordParadox ==
    /\ cmd.phase = "recording" /\ unchangedLog
    /\ Record([table |-> "paradox_results", name |-> cmd.policy.rule.name, found |-> Head(cmd.results)],
              [cmd EXCEPT !.results = Tail(@),
                          !.phase = IF Len(cmd.results) = 1 THEN "done" ELSE "recording"])

Factor ==
    /\ cmd.phase = "factor" /\ unchangedLog
    /\ \E f \in {FactorExposure(cmd.policy)} :
          IF ~f.ok THEN Fail ELSE Finish([cmd EXCEPT !.phase = "done", !.results = <<f.exposed>>])

(* compile_with_sacrifices_with_family_and_options compiles, and records,  *)
(* a second time.                                                          *)
CompileAgain ==
    /\ cmd.phase = "sacrifice" /\ unchangedLog
    /\ \E c \in {CompileRule(cmd.policy)} :
          Record(CompiledRow(c),
                 [cmd EXCEPT !.compiled = c, !.phase = "declare",
                             !.sacrifices = SacrificesFromAxioms(cmd.policy, c)])

(* issue_certificate: sacrifices are recorded when there are any.          *)
DeclareSacrifices ==
    /\ cmd.phase = "declare" /\ unchangedLog
    /\ LET next == [cmd EXCEPT !.phase = IF cmd.op = "monitor" THEN "monitoring" ELSE "done"]
       IN IF cmd.sacrifices = <<>> THEN Finish(next)
          ELSE Record([table |-> "declared_sacrifices", hash |-> ContentHash(cmd.compiled),
                       sacrifices |-> cmd.sacrifices], next)

(* certify's last step: the certificate is written, then reported.         *)
IssueCertificate(line, next) == Record(CertificateRow(cmd.compiled, line), next)

(* The certify command: an inadmissible rule, then the evidence, then      *)
(* certify itself.                                                         *)
Certify ==
    /\ cmd.phase = "certify" /\ unchangedLog
    /\ LET p == cmd.policy  i == cmd.input
       IN IF \/ ~IsAdmissible(cmd.compiled) \/ ~i.evidence
             \/ CertifyError(cmd.compiled, p.rule, p.claims, p.estate, i.id, i.outcome) # "none"
          THEN Fail
          ELSE IssueCertificate(i, [cmd EXCEPT !.phase = "done"])

(* audit_events: line by line, each certificate recorded as it is issued;  *)
(* a malformed line ends the audit without a report.                       *)
AuditLineOutcome(line) ==
    LET p == cmd.policy
    IN IF ~IsAdmissible(cmd.compiled) THEN "not_admissible"
       ELSE CertifyError(cmd.compiled, p.rule, p.claims, p.estate, line.id, line.outcome)

AuditEvents ==
    /\ cmd.phase = "audit" /\ unchangedLog
    /\ LET read == Len(cmd.results) + 1
           line == cmd.input.lines[read]
           with(r) == [cmd EXCEPT !.results = Append(@, r)]
       IN IF read > Len(cmd.input.lines) THEN Finish([cmd EXCEPT !.phase = "done"])
          ELSE IF line.kind = "blank" THEN Finish(with("blank"))
          ELSE IF line.kind = "malformed" THEN Fail
          ELSE \E error \in {AuditLineOutcome(line)} :
                 IF error = "none" THEN IssueCertificate(line, with("certified"))
                 ELSE IF error \in RejectionReasons THEN Finish(with("rejected"))
                 ELSE Fail

-----------------------------------------------------------------------------
(* The monitor                                                             *)

(* drift_for: the least of the bounds declared for the property.           *)
DriftBoundOfAny(event) ==
    LET all == {cmd.sacrifices[k].bound : k \in DOMAIN cmd.sacrifices}
    IN IF all = {} THEN <<>> ELSE <<CHOOSE b \in all : \A o \in all : QLe(b, o)>>
DriftBound(event) ==
    LET own == {cmd.sacrifices[k].bound : k \in {k \in DOMAIN cmd.sacrifices :
                                            cmd.sacrifices[k].property = event.property}}
    IN IF own = {} THEN <<>> ELSE <<CHOOSE b \in own : \A o \in own : QLe(b, o)>>

Drifts(event) == DriftBound(event) # <<>> /\ QLt(DriftBound(event)[1], event.magnitude)

(* read_line from the offset: up to a newline or the end of the file.      *)
ReadKeepingBlanks ==
    LET ends == {k \in (offset + 1)..Len(log) : log[k].newline}
    IN IF log[offset + 1].text = "none" THEN offset ELSE IF ends = {} THEN Len(log) ELSE Min(ends)
ReadUpTo ==
    LET ends == {k \in (offset + 1)..Len(log) : log[k].newline}
    IN IF ends = {} THEN Len(log) ELSE Min(ends)

(* JsonlEventSource::next_event and the monitor's loop: the offset moves   *)
(* past what was read, ended or not; half an object is no JSON, and an     *)
(* error ends the command.  At the end of the file the monitor sleeps.     *)
MonitorRead ==
    /\ cmd.phase = "monitoring" /\ offset < Len(log)
    /\ offset' = ReadUpTo
    /\ LET texts == {log[k].text : k \in (offset + 1)..ReadUpTo} \ {"none"}
           event == log[ReadUpTo].event
       IN IF texts = {} THEN UNCHANGED <<cmd, printed>>
          ELSE IF texts \notin {{"full"}, {"start", "end"}} \/ QLt(event.magnitude, Zero)
          THEN cmd' = [cmd EXCEPT !.phase = "failed"] /\ UNCHANGED printed
          ELSE /\ printed' = IF Drifts(event) THEN Append(printed, event) ELSE printed
               /\ UNCHANGED cmd
    /\ UNCHANGED <<records, log, started, faults>>

(* The other process: a line in one write, or in two.  The monitor reads   *)
(* from the beginning of the file, so what was written before it reads is  *)
(* shown as written while it does.                                         *)
AppendPiece(event, text, newline) ==
    /\ Len(log) < MaxPieces /\ cmd.phase = "monitoring"
    /\ LET open == Len(log) > 0 /\ ~log[Len(log)].newline
           last == log[Len(log)]
       IN IF open THEN /\ event = last.event /\ newline
                       /\ text = IF last.text = "start" THEN "end" ELSE "none"
          ELSE \/ text = "full"
               \/ text = "start" /\ ~newline
               \/ text = "none" /\ newline
    /\ log' = Append(log, [event |-> event, text |-> text, newline |-> newline])
    /\ UNCHANGED <<cmd, records, offset, printed, started, faults>>

(* The process is stopped from outside.                                    *)
Interrupt ==
    /\ cmd.phase \notin {"idle", "done", "failed"}
    /\ cmd' = [cmd EXCEPT !.phase = "failed"]
    /\ unchangedLog /\ UNCHANGED <<records, started, faults>>

RuleNext ==
    \/ \E r \in Startable : Start(r)
    \/ LoadContext \/ Paradox \/ RecordParadox \/ Factor \/ CompileAgain \/ DeclareSacrifices \/ Certify \/ AuditEvents
    \/ MonitorRead \/ Interrupt
    \/ \E e \in DriftEvents, t \in {"full", "start", "end", "none"}, n \in BOOLEAN : AppendPiece(e, t, n)

-----------------------------------------------------------------------------
(* Properties                                                              *)

running == cmd.phase \notin {"idle", "done", "failed"}

(* Commands, rows and the event file within their bounds.                  *)
RuleTypeOK ==
    /\ cmd.op \in RuleOps \cup {"none"}
    /\ cmd.phase \in {"idle", "load", "paradox", "recording", "factor", "sacrifice", "certify", "audit", "declare",
                      "monitoring", "done", "failed"}
    /\ started \in 0..MaxCommands /\ faults \in 0..MaxFaults
    /\ offset \in 0..Len(log) /\ Len(log) <= MaxPieces /\ Len(printed) <= offset

(* The enumeration behind full and bounded consistency: every non-empty    *)
(* coalition of the allowed sizes that leaves somebody, once, smaller ones *)
(* first, whether the sets are bit masks or vectors (consistency.rs), for  *)
(* as many claimants as the policy being compiled has.                     *)
CoalitionsAreComplete ==
    cmd.op = "compile" /\ cmd.phase = "load" =>
    LET n == Len(cmd.policy.claims)
    IN \A mode \in {Full} \cup 0..n :
        With(CoalitionEnumeration(n, mode), LAMBDA cs :
        With(        {S \in SUBSET (1..n) : /\ S # {} /\ S # 1..n
                                            /\ mode = Full \/ Cardinality(S) <= mode}, LAMBDA legal :
        LET all(q) == {q[k] : k \in DOMAIN q} IN
           /\ all(cs) = legal /\ Len(cs) = Cardinality(legal)
           /\ \A k \in 2..Len(cs) : Cardinality(cs[k - 1]) <= Cardinality(cs[k])
           /\ n <= BitsetLimit =>
                 \A size \in 1..n : all(BitsetCoalitions(n, size)) = all(VecCoalitions(n, size))))

evaluable == cmd.op = "compile" /\ cmd.phase = "load" /\ EvaluateRule(cmd.policy.rule, cmd.policy.claims, cmd.policy.estate).error = "none"

(* The seat-by-seat form is the divisor method it says it is equivalent    *)
(* to: it spends the whole house, and no seat would have gone to another   *)
(* claimant at a higher quotient (rules/divisor.rs).                       *)
SeatsFollowTheDivisor ==
    evaluable /\ cmd.policy.rule.spec \in {"jefferson", "webster"} =>
        With(cmd.policy, LAMBDA p :
        With(EvaluateRule(p.rule, p.claims, p.estate).shares, LAMBDA shares :
        LET seats(i) == shares[p.claims[i].claimant_id][1] IN
        LET divisor(k) == IF p.rule.spec = "webster" THEN (2 * k) - 1 ELSE k IN
        LET price(i, k) == QDiv(p.claims[i].strength, QInt(divisor(k))) IN
           /\ p.claims # <<>> => QSum(DOMAIN shares, LAMBDA id : shares[id]) = QInt(Floor(p.estate))
           /\ \A i, j \in DOMAIN p.claims : seats(i) > 0 =>
                 QLe(price(j, seats(j) + 1), price(i, seats(i)))))

(* The positive controls: the proportional rule passes every axiom (and    *)
(* monotonicity inverted only for a lone claimant), and the divisor        *)
(* methods are consistent, monotone, and free of the population and        *)
(* priority paradoxes (rules.rs, rules/divisor.rs, paradox.rs).            *)
ControlsAreSound ==
    evaluable =>
        With(cmd.policy, LAMBDA p :
        With(p.rule.spec, LAMBDA spec :
        With(CheckMonotonicity(p.rule, p.claims, p.estate, p.family.deltas, FALSE).status, LAMBDA mono :
        With(CheckConsistencyWithMode(p.rule, p.claims, p.estate, Full).status, LAMBDA clean :
        With(ParadoxSuite(p.rule, p.claims, p.estate), LAMBDA suite :
           spec \in {"proportional", "jefferson", "webster"} =>
              /\ clean = "admissible" /\ mono = "admissible"
              /\ suite.found \cap {"population", "priority"} = {}
              /\ spec = "proportional" =>
                    CheckSolidarity(p.rule, p.claims, p.estate, p.claimants,
                                    <<<<1, 2>>, <<3, 2>>>>).status = "admissible")))))

(* A bound covers its own counterexample: the perturbation that broke the  *)
(* axiom changed no strength, no metric, of those who stayed or of those   *)
(* who were removed, and not the estate by more than the bound declared    *)
(* for it, and changed something by exactly that much; the bound of a      *)
(* misreport is the lie about the strength (counterexample_sacrifice).     *)
BoundsCoverTheirWitness ==
    cmd.phase = "declare" =>
        \A k \in DOMAIN cmd.sacrifices :
            LET s == cmd.sacrifices[k]
                v == IF s.property = "strategyproofness" THEN cmd.compiled.strategyproofness
                     ELSE cmd.compiled.verdicts[s.property]
                ids == Ids(cmd.policy.claims) \cup Ids(v.claims)
                names == UNION {DOMAIN c.metrics : c \in UNION {FindClaim(cmd.policy.claims, id) : id \in ids}}
                strengths == {QAbs(QSub(StrengthOf(v.claims, id), StrengthOf(cmd.policy.claims, id))) : id \in ids}
                metrics == {QAbs(QSub(MetricOf(v.claims, id, m), MetricOf(cmd.policy.claims, id, m))) :
                              id \in ids, m \in names}
                changes == IF s.property = "strategyproofness" THEN strengths
                           ELSE strengths \cup metrics \cup {QAbs(QSub(QDiv(v.estate, cmd.policy.estate), One))}
            IN s.bound \in changes /\ \A d \in changes : QLe(d, s.bound)

(* What is declared is what is lost: a sacrifice for each factor the rule  *)
(* is exposed to, none for an admissible rule, each with a positive bound  *)
(* (sacrifice.rs, factor.rs).                                              *)
SacrificesMatchExposure ==
    cmd.phase = "declare" /\ cmd.op = "sacrifice" =>
        With({cmd.sacrifices[k].property : k \in DOMAIN cmd.sacrifices}, LAMBDA lost :
        With(FactorExposure(cmd.policy).exposed \ {"nonvacuity"}, LAMBDA exposed :
        With(DOMAIN cmd.compiled.verdicts \cup {"strategyproofness"}, LAMBDA checked :
           /\ lost = exposed \cap checked
           /\ IsAdmissible(cmd.compiled) <=> cmd.sacrifices = <<>>
           /\ \A k \in DOMAIN cmd.sacrifices : QLt(Zero, cmd.sacrifices[k].bound))))

(* A content hash speaks for one verdict although it says nothing of the   *)
(* claims and the estate: whatever commands ran before and whichever of    *)
(* them failed, no rows of one hash call a rule admissible (a compilation, *)
(* a certificate) and inadmissible (a compilation, declared sacrifices),   *)
(* and a certificate has its compilation before it (content_hash).         *)
Admits(row) ==
    CASE row.table = "compiled_rules" -> row.admissible
      [] row.table = "certificates" -> TRUE
      [] row.table = "declared_sacrifices" -> FALSE

HashesSpeakForOneVerdict ==
    LET hashed == {k \in DOMAIN records : records[k].table # "paradox_results"}
    IN \A k \in hashed :
          /\ \A j \in hashed : records[j].hash = records[k].hash => (Admits(records[j]) <=> Admits(records[k]))
          /\ \E j \in hashed : /\ j <= k /\ records[j].table = "compiled_rules"
                                /\ records[j].hash = records[k].hash

excessive(e) == \E k \in DOMAIN cmd.sacrifices :
    cmd.sacrifices[k].property = e.property /\ QLt(cmd.sacrifices[k].bound, e.magnitude)

(* The events whose objects are whole in the first n pieces.               *)
EventsUpTo(n) ==
    LET whole == SelectSeq(SubSeq(log, 1, n), LAMBDA x : x.text \in {"full", "end"})
    IN SelectSeq([k \in DOMAIN whole |-> whole[k].event], excessive)

(* No drift is skipped, repeated or reordered while the monitor runs, even *)
(* when it reads a line the writer has not finished: it reads an object    *)
(* whole, or it stops with an error (monitor.rs, next_event, drift_for).   *)
DriftsAreReported ==
    /\ cmd.phase = "monitoring" => printed = EventsUpTo(offset)
    /\ cmd.op = "monitor" /\ cmd.phase = "failed" =>
          \E n \in 0..offset : printed = EventsUpTo(n)

(* Every drift that the writer completes is printed, unless the monitor    *)
(* has ended.                                                              *)
MonitorKeepsUp ==
    \A n \in 1..MaxPieces :
        (cmd.phase = "monitoring" /\ Len(EventsUpTo(Len(log))) >= n)
            ~> (Len(printed) >= n \/ cmd.phase # "monitoring")

(* The checks behind a certificate are the mathematical ones: coalitions   *)
(* are enumerated without a gap, seats go where the divisor method puts    *)
(* them, and the control verdicts agree with their definitions.            *)
ChecksAreExact ==
    /\ CoalitionsAreComplete
    /\ SeatsFollowTheDivisor
    /\ ControlsAreSound

(* Every row of the ledger is grounded in a check, whatever write failed   *)
(* or was interrupted: bounds cover their witness, sacrifices are those    *)
(* the checks exposed, and rows of one content hash, of whatever commands, *)
(* agree on the verdict (compile_rule, counterexample_sacrifice, certify). *)
RowsAreGrounded ==
    /\ RuleTypeOK
    /\ BoundsCoverTheirWitness
    /\ SacrificesMatchExposure
    /\ HashesSpeakForOneVerdict
=============================================================================

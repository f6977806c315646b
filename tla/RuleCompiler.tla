---------------------------- MODULE RuleCompiler ----------------------------
(***************************************************************************)
(* Compiling a rule, declaring what it sacrifices, measuring its exposure  *)
(* and certifying an outcome (src/src/compiler.rs, sacrifice.rs,           *)
(* factor.rs, certificate.rs, cli_runtime.rs), up to what each writes to   *)
(* the ledger, which the commands do.                                      *)
(*                                                                         *)
(* A policy is [rule, claims, estate, claimants, family, allow]; a family  *)
(* is [reductions, shocks, deltas, inversion]; allow is the flag           *)
(* --allow-exponential-consistency.                                        *)
(***************************************************************************)
EXTENDS RuleChecks

(* The axioms of a compiled rule, in the order they are checked.           *)
AxiomOrder == <<"consistency", "solidarity", "monotonicity">>
Axioms == {AxiomOrder[k] : k \in DOMAIN AxiomOrder}

(* compile_with_options: the baseline, the three axioms and the misreports *)
(* of strength; consistency only where the family declares reductions.     *)
(* The first error ends it.                                                *)
CompileRule(p) ==
    With(EvaluateRule(p.rule, p.claims, p.estate), LAMBDA base :
    With(IF p.family.reductions THEN Axioms ELSE Axioms \ {"consistency"}, LAMBDA checked :
    LET verdict(a) ==
            CASE a = "consistency" -> CheckFullConsistency(p.rule, p.claims, p.estate, Full, p.allow)
              [] a = "solidarity" ->
                    CheckSolidarity(p.rule, p.claims, p.estate, p.claimants, p.family.shocks)
              [] a = "monotonicity" ->
                    CheckMonotonicity(p.rule, p.claims, p.estate, p.family.deltas, p.family.inversion) IN
    With([a \in checked |-> verdict(a)], LAMBDA verdicts :
    With(CheckStrategyproofness(p.rule, p.claims, p.estate), LAMBDA strategy :
    With(     /\ base.error = "none" /\ strategy.status # "error"
              /\ \A a \in checked : verdicts[a].status # "error", LAMBDA ok :
       [ok |-> ok, name |-> p.rule.name, version |-> p.rule.version, family |-> p.family,
        verdicts |-> IF ok THEN verdicts ELSE [a \in {} |-> Verdict("error", 0, NoProblem)],
        strategyproofness |-> IF ok THEN strategy ELSE Verdict("error", 0, NoProblem)])))))

(* CompiledRule::is_admissible: strategyproofness counts too.              *)
IsAdmissible(compiled) ==
    /\ compiled.ok
    /\ \A a \in DOMAIN compiled.verdicts : compiled.verdicts[a].status = "admissible"
    /\ compiled.strategyproofness.status = "admissible"

-----------------------------------------------------------------------------
(* Declared sacrifices                                                     *)

FindClaim(claims, id) == {claims[i] : i \in {i \in DOMAIN claims : claims[i].claimant_id = id}}
StrengthOf(claims, id) == QSum(FindClaim(claims, id), LAMBDA c : c.strength)
MetricOf(claims, id, m) == QSum(FindClaim(claims, id), LAMBDA c : Metric(c, m))

Largest(S) == FoldSet(QMax, Zero, S)

EstateRelativeChange(p, v) == QAbs(QSub(QDiv(v.estate, p.estate), One))

MaxStrengthDelta(p, v) ==
    Largest({QAbs(QSub(StrengthOf(v.claims, id), StrengthOf(p.claims, id))) :
               id \in Ids(p.claims) \cup Ids(v.claims)})

MaxClaimMetricDeltas(p, v) ==
    LET ids == Ids(p.claims) \cup Ids(v.claims)
        all == {p.claims[i] : i \in DOMAIN p.claims} \cup {v.claims[i] : i \in DOMAIN v.claims}
    IN [m \in UNION {DOMAIN c.metrics : c \in all} |->
          Largest({QAbs(QSub(MetricOf(v.claims, id, m), MetricOf(p.claims, id, m))) : id \in ids})]

(* monitoring_plan_from_counterexample: a threshold for everything the     *)
(* counterexample changed, and for nothing else.                           *)
MonitoringPlan(p, v) ==
    With(MaxClaimMetricDeltas(p, v), LAMBDA metrics :
    With(      [x \in {"estate_relative_change", "claim_strength_delta"} \cup DOMAIN metrics |->
                  CASE x = "estate_relative_change" -> EstateRelativeChange(p, v)
                    [] x = "claim_strength_delta" -> MaxStrengthDelta(p, v)
                    [] OTHER -> metrics[x]], LAMBDA all :
    With({x \in DOMAIN all : QLt(Zero, all[x])}, LAMBDA changed :
       [x \in changed |-> all[x]])))

(* counterexample_sacrifice and the strategyproofness witness: the bound   *)
(* is the largest threshold, and for a misreport the size of the lie.      *)
ImpactBound(p, property, v) ==
    IF property = "strategyproofness" THEN MaxStrengthDelta(p, v)
    ELSE With(MonitoringPlan(p, v), LAMBDA plan :
             Largest({plan[x] : x \in DOMAIN plan}))

(* sacrifices_from_axioms: one for each rejected axiom, in order, then the *)
(* misreport.                                                              *)
SacrificesFromAxioms(p, compiled) ==
    LET found == [x \in Axioms \cup {"strategyproofness"} |->
                    IF x = "strategyproofness" THEN compiled.strategyproofness
                    ELSE IF x \in DOMAIN compiled.verdicts THEN compiled.verdicts[x]
                    ELSE Verdict("admissible", 0, NoProblem)]
        lost == SelectSeq(AxiomOrder \o <<"strategyproofness">>,
                          LAMBDA x : found[x].status = "rejected")
    IN [k \in DOMAIN lost |-> [property |-> lost[k], bound |-> ImpactBound(p, lost[k], found[lost[k]])]]

-----------------------------------------------------------------------------
(* Factor exposure: every check counts, reductions declared or not, and a  *)
(* rule that gives nobody anything is vacuous.                             *)
FactorExposure(p) ==
    With(CheckFullConsistency(p.rule, p.claims, p.estate, Full, p.allow), LAMBDA c :
    With(CheckSolidarity(p.rule, p.claims, p.estate, p.claimants, p.family.shocks), LAMBDA s :
    With(CheckMonotonicity(p.rule, p.claims, p.estate, p.family.deltas, p.family.inversion), LAMBDA m :
    With(CheckStrategyproofness(p.rule, p.claims, p.estate), LAMBDA t :
    With(EvaluateRule(p.rule, p.claims, p.estate).shares, LAMBDA shares :
    With(\A id \in DOMAIN shares : QLe(shares[id], Zero), LAMBDA vacuous :
    With("error" \notin {c.status, s.status, m.status, t.status}, LAMBDA ok :
       [ok |-> ok,
        exposed |-> IF ~ok THEN {}
                    ELSE {a \in Axioms \cup {"strategyproofness"} :
                            CASE a = "consistency" -> c.status = "rejected"
                              [] a = "solidarity" -> s.status = "rejected"
                              [] a = "monotonicity" -> m.status = "rejected"
                              [] a = "strategyproofness" -> t.status = "rejected"}
                         \cup (IF vacuous THEN {"nonvacuity"} ELSE {})])))))))

-----------------------------------------------------------------------------
(* Certificates                                                            *)

(* Variant: only the source of the rule is hashed.                         *)
ContentHashOfSource(compiled) ==
    [name |-> compiled.name, version |-> compiled.version, family |-> compiled.family]

(* content_hash: the digest of the compiled rule, which says nothing of    *)
(* the claims or the estate it was compiled for.                           *)
ContentHash(compiled) ==
    [name |-> compiled.name, version |-> compiled.version, family |-> compiled.family,
     verdicts |-> compiled.verdicts, strategyproofness |-> compiled.strategyproofness]

(* certify, up to the ledger: the same rule by name and version, an        *)
(* admissible one, and the outcome it gives this claimant.                 *)
CertifyError(compiled, rule, claims, estate, id, outcome) ==
    With(EvaluateRule(rule, claims, estate), LAMBDA r :
       IF compiled.name # rule.name \/ compiled.version # rule.version THEN "rule_mismatch"
       ELSE IF ~IsAdmissible(compiled) THEN "not_admissible"
       ELSE IF r.error # "none" THEN r.error
       ELSE IF id \notin DOMAIN r.shares THEN "missing_share"
       ELSE IF r.shares[id] # outcome THEN "outcome_mismatch"
       ELSE "none")

(* audit_event_rejection_reason: what an event is rejected for; any other  *)
(* error ends the audit.                                                   *)
RejectionReasons == {"not_admissible", "rule_mismatch", "outcome_mismatch", "missing_share"}
=============================================================================

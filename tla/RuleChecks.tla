----------------------------- MODULE RuleChecks -----------------------------
(***************************************************************************)
(* The searches for counterexamples to a rule: consistency, solidarity,    *)
(* monotonicity (src/src/axioms/diagnostics/), strategyproofness           *)
(* (mechanism.rs), the paradox suite (paradox.rs) and factor exposure      *)
(* (factor.rs).                                                            *)
(*                                                                         *)
(* A search walks a sequence of perturbed problems in order and stops at   *)
(* the first that fails to evaluate or breaks the axiom; its verdict is    *)
(* [status, tested, claims, estate] with the perturbed problem of a        *)
(* rejection.  A problem is [claims, estate].                              *)
(***************************************************************************)
EXTENDS AllocationRules, Bitwise

CONSTANTS BitsetLimit,      \* claim_count up to which coalitions are bit masks (63)
          ConsistencyGate,  \* FULL_CONSISTENCY_WARN_CLAIMANTS (20)
          MaskBits          \* the width of a mask (64)

ASSUME ChecksAssumption == BitsetLimit < MaskBits /\ ConsistencyGate \in Nat

NoProblem == [claims |-> <<>>, estate |-> Zero]
Verdict(status, tested, problem) ==
    [status |-> status, tested |-> tested, claims |-> problem.claims, estate |-> problem.estate]

(* A search over the problems ps, whose outcomes are "ok", "skip",         *)
(* "error" and "rejected".                                                 *)
Search(ps, outcome) ==
    LET stops == {k \in DOMAIN ps : outcome[k] \in {"error", "rejected"}}
        counted(k) == Cardinality({j \in 1..k : outcome[j] # "skip"})
    IN IF stops = {} THEN Verdict("admissible", counted(Len(ps)), NoProblem)
       ELSE With(Min(stops), LAMBDA k : Verdict(outcome[k], counted(k), ps[k]))

(* A check evaluates the rule on the problem as given, then searches the   *)
(* perturbed ones.                                                         *)
SearchFrom(base, ps, Outcome(_, _)) ==
    IF base.error # "none" THEN Verdict("error", 0, NoProblem)
    ELSE Search(ps, [k \in DOMAIN ps |-> Outcome(k, ps[k])])

(* What a check makes of a perturbed problem that may fail to evaluate.    *)
Judge(r, Bad(_)) == IF r.error # "none" THEN "error" ELSE IF Bad(r.shares) THEN "rejected" ELSE "ok"

-----------------------------------------------------------------------------
(* Coalitions                                                              *)

NextSamePopcountShort(mask) ==
    LET smallest == mask & (2^MaskBits - mask)
        ripple == mask + smallest
    IN IF ripple >= 2^MaskBits THEN <<>> ELSE <<((mask ^^ ripple) \div 4) | ripple>>
(* next_same_popcount: the next larger mask with as many bits; none when   *)
(* checked_add overflows the word.                                         *)
NextSamePopcount(mask) ==
    With(mask & (2^MaskBits - mask), LAMBDA smallest :
    With(mask + smallest, LAMBDA ripple :
        IF ripple >= 2^MaskBits THEN <<>>
        ELSE <<(((mask ^^ ripple) \div 4) \div smallest) | ripple>>))

MaskToIndices(mask, n) == {i \in 1..n : (mask & (2^(i - 1))) # 0}

(* BitsetCoalitions: the masks from 2^size - 1 up to the limit 2^n.        *)
BitsetCoalitions(n, size) ==
    LET from[mask \in 0..(2^n - 1)] ==
            With(NextSamePopcount(mask), LAMBDA next :
                <<MaskToIndices(mask, n)>>
                  \o (IF next # <<>> /\ next[1] < 2^n THEN from[next[1]] ELSE <<>>))
    IN IF size = 0 \/ size > n THEN <<>> ELSE from[(2^size) - 1]

(* next_vec_combination: the last position that can still move does, and   *)
(* what follows it closes up; <<>> when none can.                          *)
NextVecCombination(c, n) ==
    With({p \in 1..Len(c) : c[p] < (n - Len(c)) + p}, LAMBDA movable :
        IF movable = {} THEN <<>>
        ELSE With(Max(movable), LAMBDA p :
            [k \in 1..Len(c) |-> IF k < p THEN c[k] ELSE (c[p] + 1) + (k - p)]))

VecCoalitions(n, size) ==
    LET from[c \in [1..size -> 1..n]] ==
            With(NextVecCombination(c, n), LAMBDA next :
                <<{c[k] : k \in 1..size}>> \o (IF next = <<>> THEN <<>> ELSE from[next]))
    IN IF size = 0 \/ size > n THEN <<>> ELSE from[[k \in 1..size |-> k]]

Coalitions(n, size) ==
    IF n <= BitsetLimit THEN BitsetCoalitions(n, size) ELSE VecCoalitions(n, size)

(* CoalitionEnumeration: by size, up to max_removed and never everybody;   *)
(* mode is the largest number removed, or -1 for Full.                     *)
Full == -1
CoalitionEnumeration(n, mode) ==
    LET upto[size \in 0..n] ==
            IF size = 0 THEN <<>> ELSE upto[size - 1] \o Coalitions(n, size)
    IN upto[IF n = 0 THEN 0 ELSE IF mode = Full \/ mode > n - 1 THEN n - 1 ELSE mode]

-----------------------------------------------------------------------------
(* Consistency                                                             *)

(* The survivors with what they had between them: the sub-problem that     *)
(* should reproduce their shares.                                          *)
Reduction(claims, shares, estate, removed) ==
    With(DOMAIN claims \ removed, LAMBDA kept :
        [claims |-> SelectSeq(claims, LAMBDA c : \E i \in kept : claims[i] = c),
         estate |-> QSum({claims[i].claimant_id : i \in kept}, LAMBDA id : shares[id])])

(* evaluate_reduction: nothing to compare when the survivors had nothing.  *)
ReductionOutcome(rule, shares, p) ==
    IF p.claims = <<>> \/ QLe(p.estate, Zero) THEN "ok"
    ELSE Judge(EvaluateRule(rule, p.claims, p.estate),
               LAMBDA after : \E id \in Ids(p.claims) : shares[id] # after[id])

CheckConsistencyWithMode(rule, claims, estate, mode) ==
    With(EvaluateRule(rule, claims, estate), LAMBDA base :
    With(CoalitionEnumeration(Len(claims), mode), LAMBDA coalitions :
        SearchFrom(base,
            [k \in DOMAIN coalitions |-> Reduction(claims, base.shares, estate, coalitions[k])],
            LAMBDA k, p : ReductionOutcome(rule, base.shares, p))))

(* check_full_consistency: the gate against exponential searches.          *)
CheckFullConsistency(rule, claims, estate, mode, allow) ==
    IF mode = Full /\ Len(claims) > ConsistencyGate /\ ~allow
    THEN Verdict("error", 0, NoProblem)
    ELSE CheckConsistencyWithMode(rule, claims, estate, mode)

-----------------------------------------------------------------------------
(* Solidarity                                                              *)

(* class_evenness_violation: those that had something and changed, did so  *)
(* by the same factor as the first of them.                                *)
ClassIsEven(members, before, after) ==
    With({m \in members : QLt(Zero, before[m]) /\ before[m] # after[m]}, LAMBDA changed :
        \A m, o \in changed : QDiv(after[m], before[m]) = QDiv(after[o], before[o]))

(* A shock and one priority class; a class of one is not compared, and a   *)
(* claimant without a claim has no share to compare.                       *)
ClassOutcome(members, before, after, loss) ==
    IF Cardinality(members) < 2 THEN "ok"
    ELSE IF ~(members \subseteq DOMAIN before) THEN "error"
    ELSE IF \/ loss /\ \E m \in members : QLt(before[m], after[m])
            \/ ~loss /\ \E m \in members : QLt(after[m], before[m])
            \/ ~ClassIsEven(members, before, after)
         THEN "rejected" ELSE "ok"

(* check_solidarity; the claimants are [id, priority_class].               *)
FirstNotOk(outcome) ==
    With({c \in DOMAIN outcome : outcome[c] # "ok"}, LAMBDA stops :
        IF stops = {} THEN "ok" ELSE outcome[Min(stops)])
ShockOutcome(rule, claimants, shock, before, r) ==
    LET members(c) == {m.id : m \in {m \in claimants : m.priority_class = c}}
    IN IF shock = One THEN "skip"
       ELSE IF QLe(shock, Zero) \/ r.error # "none" THEN "error"
       ELSE FirstNotOk([c \in DOMAIN rule.priority_classes |->
                ClassOutcome(members(rule.priority_classes[c]), before, r.shares, QLt(shock, One))])
CheckSolidarity(rule, claims, estate, claimants, shocks) ==
    With(EvaluateRule(rule, claims, estate), LAMBDA base :
        SearchFrom(base,
            [k \in DOMAIN shocks |-> [claims |-> claims, estate |-> QMul(estate, shocks[k])]],
            LAMBDA k, p : ShockOutcome(rule, claimants, shocks[k], base.shares,
                                       EvaluateRule(rule, claims, p.estate))))

-----------------------------------------------------------------------------
(* Searches that change one claimant's strength                            *)

WithStrength(claims, i, strength) == [claims EXCEPT ![i].strength = strength]

(* The k-th of the pairs (claim, step), claim by claim.                    *)
PairAt(k, steps) == <<((k - 1) \div Len(steps)) + 1, steps[((k - 1) % Len(steps)) + 1]>>

(* The problems in which one claim has another strength.                   *)
StrengthProblems(claims, estate, steps, Moved(_, _)) ==
    [k \in 1..(Len(claims) * Len(steps)) |->
        With(PairAt(k, steps), LAMBDA p :
            [claims |-> WithStrength(claims, p[1], Moved(claims[p[1]].strength, p[2])),
             estate |-> estate])]

(* check_monotonicity: a stronger claim must not get less, or, inverted,   *)
(* not more.                                                               *)
CheckMonotonicity(rule, claims, estate, deltas, inversion) ==
    LET worse(before, after) == IF inversion THEN QLt(before, after) ELSE QLt(after, before)
    IN With(EvaluateRule(rule, claims, estate), LAMBDA base :
           SearchFrom(base, StrengthProblems(claims, estate, deltas, QAdd), LAMBDA k, p :
               With(claims[PairAt(k, deltas)[1]].claimant_id, LAMBDA id :
                   Judge(EvaluateRule(rule, p.claims, estate),
                         LAMBDA after : worse(base.shares[id], after[id])))))

MisreportFactors == <<<<1, 2>>, <<4, 5>>, <<6, 5>>, <<3, 2>>, QInt(2)>>

(* check_reported_strength_manipulations: the first misreport that pays.   *)
CheckStrategyproofness(rule, claims, estate) ==
    With(EvaluateRule(rule, claims, estate), LAMBDA base :
        SearchFrom(base, StrengthProblems(claims, estate, MisreportFactors, QMul), LAMBDA k, p :
            With(claims[PairAt(k, MisreportFactors)[1]].claimant_id, LAMBDA id :
                Judge(EvaluateRule(rule, p.claims, estate),
                      LAMBDA after : QLt(base.shares[id], after[id])))))

-----------------------------------------------------------------------------
(* The paradox suite                                                       *)

PopulationDeltas == <<<<1, 20>>, <<1, 10>>, <<1, 5>>, <<2, 5>>>>

(* average_claim: the mean strength and the mean of each metric, over all  *)
(* the claims whether they give it or not.                                 *)
AverageClaim(claims) ==
    LET n == QInt(Len(claims))
    IN [claimant_id |-> <<"average", "entrant">>,
        strength |-> QDiv(QSum(DOMAIN claims, LAMBDA i : claims[i].strength), n),
        metrics |-> [m \in UNION {DOMAIN claims[i].metrics : i \in DOMAIN claims} |->
                       QDiv(QSum(DOMAIN claims, LAMBDA i : Metric(claims[i], m)), n)]]

(* entrant_candidates: a clone and a half clone of each claim, and the     *)
(* average one.                                                            *)
EntrantCandidates(claims) ==
    LET clone(c) == [c EXCEPT !.claimant_id = Append(@, "clone")]
        half(c) == [c EXCEPT !.claimant_id = @ \o <<"half", "clone">>,
                             !.strength = QDiv(@, QInt(2))]
        upto[i \in 0..Len(claims)] ==
            IF i = 0 THEN <<>> ELSE upto[i - 1] \o <<clone(claims[i]), half(claims[i])>>
    IN upto[Len(claims)] \o (IF claims = <<>> THEN <<>> ELSE <<AverageClaim(claims)>>)

(* pair_share: the left one's part of what the two have, if anything.      *)
PairShare(shares, l, r) ==
    With(QAdd(shares[l], shares[r]), LAMBDA total :
        IF QLe(total, Zero) THEN <<>> ELSE <<QDiv(shares[l], total)>>)

(* allocation_order.                                                       *)
AllocationOrder(shares, l, r) ==
    IF shares[l] = shares[r] THEN "equal" ELSE IF QLt(shares[l], shares[r]) THEN "less" ELSE "greater"

EntrantProblems(claims, estate) ==
    With(EntrantCandidates(claims), LAMBDA entrants :
        [k \in DOMAIN entrants |-> [claims |-> Append(claims, entrants[k]), estate |-> estate]])

(* The three detectors over evaluated problems; Found says whether the     *)
(* perturbed shares show the paradox.                                      *)
Detect(rule, ps, Found(_, _)) ==
    Search(ps, [k \in DOMAIN ps |-> Judge(EvaluateRule(rule, ps[k].claims, ps[k].estate),
                                          LAMBDA after : Found(k, after))]).status

DetectClaimantAddition(rule, claims, estate, before) ==
    Detect(rule, EntrantProblems(claims, estate),
           LAMBDA k, after : \E id \in Ids(claims) : QLt(after[id], before[id]))

DetectPriority(rule, claims, estate, before) ==
    Detect(rule, EntrantProblems(claims, estate),
           LAMBDA k, after : \E l, r \in Ids(claims) :
               /\ AllocationOrder(before, l, r) = "less"
               /\ AllocationOrder(after, l, r) = "greater")

DetectPopulation(rule, claims, estate, before) ==
    LET falls(old, new) == old # <<>> /\ new # <<>> /\ QLt(new[1], old[1])
    IN Detect(rule, StrengthProblems(claims, estate, PopulationDeltas, QAdd), LAMBDA k, after :
           With(claims[PairAt(k, PopulationDeltas)[1]].claimant_id, LAMBDA id :
               \E other \in Ids(claims) \ {id} :
                   falls(PairShare(before, id, other), PairShare(after, id, other))))

(* run_paradox_suite, up to the ledger: the paradoxes found, or an error.  *)
ParadoxSuite(rule, claims, estate) ==
    LET failed == [ok |-> FALSE, found |-> {}]
    IN With(EvaluateRule(rule, claims, estate), LAMBDA base :
           IF base.error # "none" THEN failed
           ELSE With([addition |-> DetectClaimantAddition(rule, claims, estate, base.shares),
                      population |-> DetectPopulation(rule, claims, estate, base.shares),
                      priority |-> DetectPriority(rule, claims, estate, base.shares)],
                     LAMBDA detected :
                         IF \E d \in DOMAIN detected : detected[d] = "error" THEN failed
                         ELSE [ok |-> TRUE,
                               found |-> {d \in DOMAIN detected : detected[d] = "rejected"}]))
=============================================================================

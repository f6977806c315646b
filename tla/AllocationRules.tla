-------------------------- MODULE AllocationRules --------------------------
(***************************************************************************)
(* Rules that divide an estate among claims (src/src/lib.rs, rules.rs,     *)
(* rules/divisor.rs).                                                      *)
(*                                                                         *)
(* The code computes with f64 and compares with a tolerance of 1e-9; here  *)
(* a number is an exact fraction <<numerator, denominator>> in lowest      *)
(* terms and comparisons are exact: two different fractions of the small   *)
(* numbers a run uses differ by far more than the tolerance, and the       *)
(* rounding of equal ones by far less.                                     *)
(*                                                                         *)
(* A claimant's identifier is a sequence of words joined by "_" in the     *)
(* code: <<"a">>, or <<"a", "clone">> for an entrant the paradox suite     *)
(* invents; <<>> is the blank one.  A claim is a record [claimant_id,      *)
(* strength, metrics]; its strength is positive by PositiveStrength, and   *)
(* an estate is positive by EstateTotal.                                   *)
(***************************************************************************)
EXTENDS Integers, Sequences, FiniteSets, FiniteSetsExt, Values

-----------------------------------------------------------------------------
(* Fractions                                                               *)

gcd[p \in Nat \X Nat] == IF p[2] = 0 THEN p[1] ELSE gcd[<<p[2], p[1] % p[2]>>]

Magnitude(n) == IF n < 0 THEN -n ELSE n

Frac(n, d) ==
    With(gcd[<<Magnitude(n), Magnitude(d)>>] * (IF d < 0 THEN -1 ELSE 1),
         LAMBDA g : <<n \div g, d \div g>>)

QInt(n) == <<n, 1>>
Zero == QInt(0)
One == QInt(1)
QAdd(a, b) == Frac((a[1] * b[2]) + (b[1] * a[2]), a[2] * b[2])
QSub(a, b) == Frac((a[1] * b[2]) - (b[1] * a[2]), a[2] * b[2])
QMul(a, b) == Frac(a[1] * b[1], a[2] * b[2])
QDiv(a, b) == Frac(a[1] * b[2], a[2] * b[1])
QLt(a, b) == a[1] * b[2] < b[1] * a[2]
QLe(a, b) == ~QLt(b, a)
QAbs(a) == <<Magnitude(a[1]), a[2]>>
QMax(a, b) == IF QLt(a, b) THEN b ELSE a
QMin(a, b) == IF QLt(b, a) THEN b ELSE a
Clamp01(a) == QMax(Zero, QMin(One, a))
Floor(a) == a[1] \div a[2]

(* The sum of f over a finite set.                                         *)
QSum(S, f(_)) == FoldSet(LAMBDA x, acc : QAdd(f(x), acc), Zero, S)

-----------------------------------------------------------------------------
(* Claims and allocations                                                  *)

Ids(claims) == {claims[i].claimant_id : i \in DOMAIN claims}

(* Claim::validate_all: no blank claimant and none named twice.            *)
ValidateClaims(claims) ==
    /\ <<>> \notin Ids(claims)
    /\ Cardinality(Ids(claims)) = Len(claims)

(* Claim::metric: a metric that is not given counts as zero.               *)
Metric(claim, name) == IF name \in DOMAIN claim.metrics THEN claim.metrics[name] ELSE Zero

Share(claims, f(_)) == [id \in Ids(claims) |->
    f(CHOOSE i \in DOMAIN claims : claims[i].claimant_id = id)]

(* Allocation::validate: a share for every claimant, none negative, and    *)
(* none for anybody else.                                                  *)
ValidateAllocation(shares, claims) ==
    /\ DOMAIN shares = Ids(claims)
    /\ \A id \in DOMAIN shares : QLe(Zero, shares[id])

(* Allocation::validate_feasible.                                          *)
ValidateFeasible(shares, estate) == QLe(QSum(DOMAIN shares, LAMBDA id : shares[id]), estate)

-----------------------------------------------------------------------------
(* The built-in rules                                                      *)

(* Each claimant's part of the total strength; the scaling by the largest  *)
(* strength and the split into mantissa and exponent keep f64 from         *)
(* overflowing and cancel in exact arithmetic.                             *)
ProportionalAllocate(claims, estate) ==
    With(QSum(DOMAIN claims, LAMBDA i : claims[i].strength), LAMBDA total :
        Share(claims, LAMBDA i : QDiv(QMul(claims[i].strength, estate), total)))

(* The permission modes: a tool's own authorization, whatever else there   *)
(* is.                                                                     *)
PermissionsAllocate(claims) ==
    Share(claims, LAMBDA i :
        LET set(m) == QLe(<<1, 2>>, Metric(claims[i], m))
        IN IF set("available") /\ set("listed") /\ ~set("denied")
           THEN Clamp01(Metric(claims[i], "base_authorization")) ELSE Zero)

(* The pre-tool-use hooks: a sensitive path blocks from a threshold on.    *)
HooksAllocate(claims) ==
    Share(claims, LAMBDA i :
        LET set(m) == QLe(<<1, 2>>, Metric(claims[i], m))
            given == Metric(claims[i], "block_threshold")
            threshold == IF QLt(Zero, given) THEN given ELSE <<4, 5>>
            blocked == \/ set("dangerous_pattern")
                       \/ set("sensitive_path") /\ QLe(threshold, claims[i].strength)
        IN IF blocked THEN Zero ELSE Clamp01(Metric(claims[i], "baseline_allow")))

(* essay_composite_score: reliability, diversity with its penalty for      *)
(* overspecialization, and the peer-relative term with its bonus for       *)
(* scarcity.                                                               *)
EssayDiversity(claim, over) ==
    Clamp01(QSub(Metric(claim, "diversity"), QMul(Metric(claim, "specialization_penalty"), over)))
EssayPeer(claim, scarcity) ==
    Clamp01(QAdd(Metric(claim, "peer_relative"), QMul(Metric(claim, "scarcity_bonus"), scarcity)))
EssayScore(claim, estate) ==
    QAdd(QMul(<<2, 5>>, Clamp01(claim.strength)),
         QMul(<<3, 10>>, QAdd(
             EssayDiversity(claim, QMax(Zero, QSub(claim.strength, Metric(claim, "specialization_floor")))),
             EssayPeer(claim, QDiv(QMax(Zero, QSub(QInt(100), estate)), QInt(100))))))

(* median_score, of a function: the elements of the middle ranks.          *)
MedianScore(score) ==
    LET n == Cardinality(DOMAIN score)
        below(i) == Cardinality({j \in DOMAIN score : QLt(score[j], score[i])})
        upto(i) == Cardinality({j \in DOMAIN score : QLe(score[j], score[i])})
        rank(k) == score[CHOOSE i \in DOMAIN score : below(i) < k /\ k <= upto(i)]
    IN IF n = 0 THEN Zero
       ELSE IF n % 2 = 1 THEN rank((n \div 2) + 1)
       ELSE QDiv(QAdd(rank(n \div 2), rank((n \div 2) + 1)), QInt(2))

(* Claimants above the cohort's median split the estate by their scores.   *)
EssayAllocate(claims, estate) ==
    With([i \in DOMAIN claims |-> EssayScore(claims[i], estate)], LAMBDA score :
    With({i \in DOMAIN claims : QLt(MedianScore(score), score[i])}, LAMBDA promoted :
    With(QSum(promoted, LAMBDA i : score[i]), LAMBDA total :
        Share(claims, LAMBDA i : IF i \in promoted /\ QLt(Zero, total)
                                 THEN QDiv(QMul(estate, score[i]), total) ELSE Zero))))

(* quotient: the strength over the divisor of the next seat.               *)
Quotient(strength, awarded, family) ==
    QDiv(strength, QInt(IF family = "webster" THEN (2 * awarded) + 1 ELSE awarded + 1))

(* highest_averages_allocate: seat by seat to the largest quotient, the    *)
(* first claim among equals.                                               *)
HighestAveragesAllocate(claims, estate, family) ==
    LET first(q) == CHOOSE i \in DOMAIN q :
            \A j \in DOMAIN q : IF j < i THEN QLt(q[j], q[i]) ELSE QLe(q[j], q[i])
        award(a) == [a EXCEPT ![first([i \in DOMAIN claims |->
                                          Quotient(claims[i].strength, a[i], family)])] = @ + 1]
        awarded[k \in 0..Floor(estate)] ==
            IF k = 0 \/ claims = <<>> THEN [i \in DOMAIN claims |-> 0] ELSE award(awarded[k - 1])
    IN Share(claims, LAMBDA i : QInt(awarded[Floor(estate)][i]))

-----------------------------------------------------------------------------
(* Rules                                                                   *)

(* A rule is [name, version, spec, table, priority_classes].  The          *)
(* programmatic ones are the built-in closures and "table", a caller's own *)
(* closure that pays what its table says whoever is there.                 *)
Programmatic == {"essay", "jefferson", "webster", "table"}
CustomNames == {"permissions", "hooks"}

(* RuleSpec::allocate; a custom name nobody registered fails only here.    *)
AllocateSpec(rule, claims, estate) ==
    CASE rule.spec = "proportional" -> ProportionalAllocate(claims, estate)
      [] rule.spec = "permissions" -> PermissionsAllocate(claims)
      [] rule.spec = "hooks" -> HooksAllocate(claims)
      [] rule.spec = "essay" -> EssayAllocate(claims, estate)
      [] rule.spec \in {"jefferson", "webster"} -> HighestAveragesAllocate(claims, estate, rule.spec)
      [] rule.spec = "table" -> rule.table

(* Custom rules promise no feasibility.                                    *)
RequiresFeasible(rule) == rule.spec \in Programmatic \cup {"proportional"}

NoShares == [id \in {} |-> Zero]

(* evaluate_rule: the claims, the rule, the coverage of what it returned   *)
(* and, where the rule promises it, the estate.                            *)
Evaluated(error, shares) == [error |-> error, shares |-> shares]
EvaluateRule(rule, claims, estate) ==
    IF ~ValidateClaims(claims) THEN Evaluated("claims", NoShares)
    ELSE IF rule.spec \notin Programmatic \cup CustomNames \cup {"proportional"}
    THEN Evaluated("unknown_rule", NoShares)
    ELSE With(AllocateSpec(rule, claims, estate), LAMBDA shares :
        IF ~ValidateAllocation(shares, claims) THEN Evaluated("allocation", NoShares)
        ELSE IF RequiresFeasible(rule) /\ ~ValidateFeasible(shares, estate)
        THEN Evaluated("infeasible", NoShares)
        ELSE Evaluated("none", shares))
=============================================================================

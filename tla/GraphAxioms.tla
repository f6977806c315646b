---------------------------- MODULE GraphAxioms ----------------------------
(***************************************************************************)
(* The checks of a governance graph: the diagnostic axioms of              *)
(* src/src/axioms/diagnostics/graph (consistency, solidarity,              *)
(* monotonicity, strategyproofness), the kernel axioms of                  *)
(* src/src/axioms/kernel and the paradoxes of src/src/paradox/graph.rs.    *)
(*                                                                         *)
(* A check is an outcome: "admissible", "rejected", "skipped" or "error".  *)
(* Counterexamples are built from the perturbed traversal the check found; *)
(* their texts are left out.  Decisions are functions from claimant to     *)
(* Decision.                                                               *)
(***************************************************************************)
EXTENDS GovernanceGraph

CONSTANTS ObservableNodeLimit,   \* EXHAUSTIVE_OBSERVABLE_NODE_LIMIT
          ObservableOrderLimit,  \* EXHAUSTIVE_OBSERVABLE_ORDER_LIMIT
          CycleIterations        \* the 32 rounds of the cycle probes

(* A check tries perturbations in order and returns at the first that      *)
(* settles it.                                                             *)
FirstOutcome(outcomes) ==
    LET settled == {i \in DOMAIN outcomes : outcomes[i] # "go"}
    IN IF settled = {} THEN "admissible" ELSE outcomes[Min(settled)]

-----------------------------------------------------------------------------
(* apply_field_delta: a metric that is missing counts as 0; a strength     *)
(* must stay positive.                                                     *)
ApplyFieldDelta(c, field, delta) ==
    IF field = "strength"
    THEN [ok |-> c.strength + delta > 0, claim |-> [c EXCEPT !.strength = @ + delta]]
    ELSE [ok |-> TRUE,
          claim |-> [c EXCEPT !.metrics = Put(@, field, GetOr(@, field, 0) + delta)]]

(* decision_allocation: what a counterexample shows of a set of decisions. *)
DecisionAllocation(claims, decisions) ==
    [id \in {claims[i].claimant_id : i \in DOMAIN claims} |->
        DecisionRank(GetOr(decisions, id, "escalate"))]

SameClass(a, b) ==
    IF a.priority_class = <<>> \/ b.priority_class = <<>> THEN a.claimant_id = b.claimant_id
    ELSE a.priority_class = b.priority_class

SameClassGroups(claims) ==
    {g \in {{claims[j].claimant_id : j \in {k \in DOMAIN claims : SameClass(claims[i], claims[k])}}
              : i \in DOMAIN claims} : Cardinality(g) > 1}

DecisionDirection(before, after) == DecisionRank(after) - DecisionRank(before)
Worse == {-2, -1}
Better == {1, 2}

ClaimantIds(claims) == Sorted({claims[i].claimant_id : i \in DOMAIN claims})

(* The loop every diagnostic runs over the claimants: a decision that is   *)
(* missing on either side is an error, a change in a bad direction         *)
(* rejects.                                                                *)
CompareDecisions(before, after, ids, bad) ==
    LET judge(id) ==
            CASE id \notin DOMAIN before \/ id \notin DOMAIN after -> "error"
              [] id \in DOMAIN before \cap DOMAIN after
                   /\ DecisionDirection(before[id], after[id]) \in bad -> "rejected"
              [] OTHER -> "go"
        settled == FirstOutcome([i \in DOMAIN ids |-> judge(ids[i])])
    IN IF settled = "admissible" THEN "go" ELSE settled

-----------------------------------------------------------------------------
(* check_graph_consistency: no decision depends on another claimant's      *)
(* presence.                                                               *)
CheckGraphConsistency(graph, claims) ==
    With(Traverse(graph, claims), LAMBDA original :
    LET remove(i) ==
            With(RemoveAt(claims, i), LAMBDA reduced :
            With(Traverse(graph, reduced), LAMBDA r :
               IF r.error # "none" THEN "error"
               ELSE CompareDecisions(original.final, r.final,
                        [j \in DOMAIN reduced |-> reduced[j].claimant_id], Worse \cup Better))) IN
       IF original.error # "none" THEN "error"
       ELSE FirstOutcome([i \in DOMAIN claims |-> remove(i)]))

(* check_graph_solidarity: a shock common to all claims must not move two  *)
(* members of one class in opposite directions.                            *)
CheckGraphSolidarity(graph, claims, shocks) ==
    With(Traverse(graph, claims), LAMBDA original :
    LET shocked(s) == [i \in DOMAIN claims |-> ApplyFieldDelta(claims[i], s.field, s.delta)] IN
    LET splits(group, after) ==
            With({DecisionDirection(original.final[id], after[id]) : id \in group}, LAMBDA moved :
               (\E m \in moved : m < 0) /\ (\E m \in moved : m > 0)) IN
    LET try(s) ==
            With([i \in DOMAIN claims |-> shocked(s)[i].claim], LAMBDA batch :
            With(Traverse(graph, batch), LAMBDA r :
            With(SameClassGroups(claims), LAMBDA groups :
            With(DOMAIN original.final \cap DOMAIN r.final, LAMBDA known :
               CASE s.delta = 0 -> "go"
                 [] s.delta # 0 /\ \E i \in DOMAIN claims : ~shocked(s)[i].ok -> "error"
                 [] OTHER -> IF r.error # "none" \/ \E g \in groups : ~(g \subseteq known)
                             THEN "error"
                             ELSE IF \E g \in groups : splits(g, r.final) THEN "rejected" ELSE "go")))) IN
       IF original.error # "none" THEN "error"
       ELSE FirstOutcome([k \in DOMAIN shocks |-> try(shocks[k])]))

(* The polarity schema: one field of each kind stands for its table.       *)
AuditMetricPolaritySchema ==
    [strength |-> "higher", permit_signal |-> "higher", risk |-> "lower",
     deny_signal |-> "diagnostic", escalate_signal |-> "diagnostic"]

(* What strengthening claim i does to the decisions of all.                *)
Strengthen(graph, claims, original, i, field, delta) ==
    With(ApplyFieldDelta(claims[i], field, delta), LAMBDA moved :
    With(Traverse(graph, [claims EXCEPT ![i] = moved.claim]), LAMBDA r :
       IF ~moved.ok \/ r.error # "none" THEN "error"
       ELSE CompareDecisions(original.final, r.final, ClaimantIds(claims), Worse)))

(* monotonicity_check_via_polarity_schema: an improvement, in the field's  *)
(* own direction, worsens nobody; a field the schema does not know is an   *)
(* error, a diagnostic one is not tried.                                   *)
CheckGraphMonotonicity(graph, claims, deltas) ==
    With(Traverse(graph, claims), LAMBDA original :
    LET known(d) == d.field \in DOMAIN AuditMetricPolaritySchema IN
    LET polarity(d) == AuditMetricPolaritySchema[d.field] IN
    LET improvement(d) == IF polarity(d) = "higher" THEN d.delta ELSE -d.delta IN
    LET try(d, i) ==
            CASE d.delta <= 0 -> "go"
              [] d.delta > 0 /\ ~known(d) -> "error"
              [] d.delta > 0 /\ known(d) ->
                   IF polarity(d) = "diagnostic" \/ i = 0 THEN "go"
                   ELSE Strengthen(graph, claims, original, i, d.field, improvement(d)) IN
       IF original.error # "none" THEN "error"
       ELSE FirstOutcome([k \in 1..(Len(deltas) * (Len(claims) + 1)) |->
                try(deltas[1 + ((k - 1) \div (Len(claims) + 1))], (k - 1) % (Len(claims) + 1))]))

MisreportDeltas == <<-6, -2, 2, 6, 10>>

(* check_graph_strategyproofness: no claimant gains by misreporting its    *)
(* own strength; a report that is not positive is not tried.               *)
CheckGraphStrategyproofness(graph, claims) ==
    With(Traverse(graph, claims), LAMBDA original :
    LET report(i, d) ==
            With(Traverse(graph, [claims EXCEPT ![i].strength = @ + d]), LAMBDA r :
               IF claims[i].claimant_id \notin DOMAIN original.final THEN "error"
               ELSE IF claims[i].strength + d <= 0 THEN "go"
               ELSE IF r.error # "none" THEN "error"
               ELSE CompareDecisions(original.final, r.final, <<claims[i].claimant_id>>, Better)) IN
    With(Len(MisreportDeltas), LAMBDA n :
       IF original.error # "none" THEN "error"
       ELSE FirstOutcome([k \in 1..(Len(claims) * n) |->
                report(1 + ((k - 1) \div n), MisreportDeltas[1 + ((k - 1) % n)])])))

-----------------------------------------------------------------------------
(* check_graph_certifiability: every claim has a final decision to replay. *)
CheckGraphCertifiability(graph, claims) ==
    With(Traverse(graph, claims), LAMBDA r :
       CASE DetectCycles(graph) # {} -> "skipped"
         [] DetectCycles(graph) = {} /\ DOMAIN graph.nodes = {} -> "rejected"
         [] OTHER -> IF ~ValidateGovernanceGraph(graph) \/ r.error # "none" THEN "error"
                     ELSE IF \A i \in DOMAIN claims : claims[i].claimant_id \in DOMAIN r.final
                     THEN "admissible" ELSE "rejected")

ConstantNode(id, decision) ==
    [id |-> id, kind |-> "binary", gates |-> <<>>, default |-> decision,
     combination |-> "first_match"]

(* constant_override_graph: the same nodes and edges, every node deciding  *)
(* the same and every edge passing claims through.                         *)
ConstantOverrideGraph(graph, decision) ==
    [nodes |-> [n \in DOMAIN graph.nodes |-> ConstantNode(n, decision)],
     edges |-> [k \in DOMAIN graph.edges |->
                  [graph.edges[k] EXCEPT !.transform = "pass_through"]]]

CheckGraphCorrigibility(graph, claims) ==
    CASE DetectCycles(graph) # {} -> "skipped"
      [] DetectCycles(graph) = {} /\ DOMAIN graph.nodes = {} -> "rejected"
      [] OTHER -> IF \A d \in {"escalate", "deny", "permit"} :
                        Traverse(ConstantOverrideGraph(graph, d), claims).error = "none"
                  THEN "admissible" ELSE "error"

TerminalNodes(graph) ==
    DOMAIN graph.nodes \ {graph.edges[k].from : k \in DOMAIN graph.edges}

FreshId(graph) == 1 + Max({0} \cup DOMAIN graph.nodes)

(* append_permissive_stage: a node that permits everything, after every    *)
(* node where the graph ended.                                             *)
AppendPermissiveStage(graph) ==
    LET sink == FreshId(graph)
        sources == Sorted(TerminalNodes(graph))
    IN [nodes |-> Put(graph.nodes, sink, ConstantNode(sink, "permit")),
        edges |-> graph.edges \o [k \in DOMAIN sources |->
                     [from |-> sources[k], to |-> sink, transform |-> "pass_through", delta |-> 0]]]

CheckGraphCompositionalSafety(graph, claims) ==
    With(Traverse(graph, claims), LAMBDA original :
    With(Traverse(AppendPermissiveStage(graph), claims), LAMBDA appended :
    LET revived(id) == /\ GetOr(original.final, id, "escalate") = "deny"
                       /\ GetOr(appended.final, id, "escalate") # "deny" IN
       CASE DetectCycles(graph) # {} -> "skipped"
         [] DetectCycles(graph) = {} /\ DOMAIN graph.nodes = {} -> "skipped"
         [] OTHER -> IF original.error # "none" \/ appended.error # "none" THEN "error"
                     ELSE IF \E i \in DOMAIN claims : revived(claims[i].claimant_id)
                     THEN "rejected" ELSE "admissible"))

-----------------------------------------------------------------------------
(* observable.rs and the paradox of path dependence evaluate the graph in  *)
(* an order they are given.                                                *)
ValidateTopologicalOrder(graph, order) ==
    LET at(n) == CHOOSE i \in DOMAIN order : order[i] = n
    IN /\ Len(order) = Cardinality(DOMAIN graph.nodes)
       /\ {order[i] : i \in DOMAIN order} = DOMAIN graph.nodes
       /\ \A k \in DOMAIN graph.edges : at(graph.edges[k].from) < at(graph.edges[k].to)

(* One node in a given order: as in the traversal, with batches merged by  *)
(* claimant and the claims validated again at every node.                  *)
OrderedVisit(graph, s, n) ==
    With(GetOr(s.queued, n, <<>>), LAMBDA claims :
    With(EvaluateNode(graph.nodes[n], claims), LAMBDA said :
    With(OutgoingEdges(graph, n), LAMBDA out :
    With(ForwardedClaims(claims, said.decisions), LAMBDA forwarded :
    LET feed(t, e) ==
            With(ApplyTransform(e, forwarded, said.decisions), LAMBDA moved :
            With(MergeClaimBatches(GetOr(t.queued, e.to, <<>>), moved.claims), LAMBDA merged :
               IF t.error \/ ~moved.ok \/ ~merged.ok THEN [t EXCEPT !.error = TRUE]
               ELSE [t EXCEPT !.queued = Put(@, e.to, merged.claims)])) IN
       IF s.error \/ ~said.ok THEN [s EXCEPT !.error = TRUE]
       ELSE FoldLeft(feed, [s EXCEPT !.queued = [m \in DOMAIN @ \ {n} |-> @[m]],
                                     !.final = RecordFinalDecisions(@, said.decisions, out # <<>>)],
                     out)))))

EvaluateWithOrder(graph, claims, order) ==
    LET start == [error |-> FALSE, final |-> EmptyMap,
                  queued |-> [n \in EntryNodes(graph) |-> claims]]
        visit(s, n) == OrderedVisit(graph, s, n)
    IN IF ~ValidateTopologicalOrder(graph, order) \/ EntryNodes(graph) = {}
       THEN [start EXCEPT !.error = TRUE]
       ELSE FoldLeft(visit, start, order)

(* enumerate_orders: every order in which the last incoming edge of a node *)
(* has been counted before the node is taken.                              *)
RECURSIVE EnumerateOrders(_, _, _, _)
EnumerateOrders(graph, counts, ready, prefix) ==
    LET after(n) == [m \in DOMAIN counts |-> counts[m] - Cardinality({k \in DOMAIN graph.edges :
                        graph.edges[k].from = n /\ graph.edges[k].to = m})]
        freed(n) == {m \in DOMAIN counts : counts[m] > 0 /\ after(n)[m] = 0}
    IN IF Len(prefix) = Cardinality(DOMAIN graph.nodes) THEN {prefix}
       ELSE UNION {EnumerateOrders(graph, after(n), (ready \ {n}) \cup freed(n), Append(prefix, n))
                     : n \in ready}

AllTopologicalOrders(graph) ==
    EnumerateOrders(graph, IncomingCounts(graph), EntryNodes(graph), <<>>)

(* first_difference, over claimants; a claimant without a decision counts  *)
(* as escalated.                                                           *)
Differs(left, right, claims) ==
    DecisionAllocation(claims, left) # DecisionAllocation(claims, right)

CheckGraphObservableDeterminacy(graph, claims) ==
    With(TopologicalOrder(graph), LAMBDA canonicalOrder :
    With(EvaluateWithOrder(graph, claims, canonicalOrder), LAMBDA canonical :
    With(AllTopologicalOrders(graph), LAMBDA orders :
    LET result(o) == EvaluateWithOrder(graph, claims, o) IN
       CASE DetectCycles(graph) # {} -> "skipped"
         [] DetectCycles(graph) = {} /\ DOMAIN graph.nodes = {} -> "skipped"
         [] OTHER ->
              IF canonical.error THEN "error"
              ELSE IF \/ Cardinality(DOMAIN graph.nodes) > ObservableNodeLimit
                      \/ Cardinality(orders) > ObservableOrderLimit THEN "skipped"
              ELSE IF \E o \in orders : result(o).error THEN "error"
              ELSE IF \E o \in orders : Differs(canonical.final, result(o).final, claims)
              THEN "rejected" ELSE "admissible")))

-----------------------------------------------------------------------------
(* The graph paradoxes (src/src/paradox/graph.rs): appending a review that *)
(* worsens a claimant, a cycle that settles worse for a stronger claim,    *)
(* and a result that depends on the order of evaluation.  Each answers     *)
(* "none", "violation" or "error".                                         *)

ReviewPercentiles == <<<<3, 5>>, <<2, 3>>, <<3, 4>>, <<9, 10>>>>
StrengthDeltas == <<1, 2, 4, 8>>

(* A search tries its candidates in order; an error or a violation ends it.*)
FirstParadox(outcomes) ==
    LET o == FirstOutcome(outcomes) IN IF o = "admissible" THEN "none" ELSE o

(* first_worsening: a claimant without a decision counts as escalated.     *)
Worsens(before, after, claims) ==
    LET b == DecisionAllocation(claims, before)
        a == DecisionAllocation(claims, after)
    IN \E id \in DOMAIN b : a[id] < b[id]

-----------------------------------------------------------------------------
PeerReviewNode(id, percentile) ==
    [id |-> id, kind |-> "binary", default |-> "deny", combination |-> "any_must_pass",
     gates |-> <<[kind |-> "peer_relative", value |-> "strength", min |-> percentile,
                  decision |-> "permit"]>>]

(* compositional_alabama: a peer review after one sink, at each percentile.*)
CompositionalAlabama(graph, claims) ==
    With(Traverse(graph, claims), LAMBDA baseline :
    With(Sorted(TerminalNodes(graph)), LAMBDA sinks :
    With(FreshId(graph), LAMBDA review :
    LET perturbed(sink, p) ==
            [nodes |-> Put(graph.nodes, review, PeerReviewNode(review, p)),
             edges |-> Append(graph.edges, [from |-> sink, to |-> review,
                                            transform |-> "pass_through", delta |-> 0])] IN
    LET try(sink, p) ==
            With(Traverse(perturbed(sink, p), claims), LAMBDA r :
               CASE r.error # "none" -> "error"
                 [] r.error = "none" /\ Worsens(baseline.final, r.final, claims) -> "violation"
                 [] OTHER -> "go") IN
    With(Len(ReviewPercentiles), LAMBDA n :
       IF baseline.error # "none" THEN "error"
       ELSE FirstParadox([k \in 1..(Len(sinks) * n) |->
                try(sinks[1 + ((k - 1) \div n)], ReviewPercentiles[1 + ((k - 1) % n)])])))))

-----------------------------------------------------------------------------
(* claims_match: the same claims under the same claimants.  state_matches  *)
(* compares the queues node by node.                                       *)
StateMatches(left, right) ==
    /\ DOMAIN left = DOMAIN right
    /\ \A n \in DOMAIN left :
          Len(left[n]) = Len(right[n]) /\ ToSet(left[n]) = ToSet(right[n])

(* stabilize_cycle: rounds of the cycle until a round queues for the next  *)
(* what it started from; decisions accumulate over the rounds.             *)
RECURSIVE StabilizeCycle(_, _, _, _, _)
StabilizeCycle(graph, cycle, queued, decisions, rounds) ==
    LET visit(s, i) == CycleVisit(graph, cycle, s, i) IN
    With(    FoldLeft(visit, [now |-> queued, next |-> EmptyMap, decisions |-> decisions,
                              error |-> FALSE], [i \in DOMAIN cycle |-> i]), LAMBDA s :
    LET result(c) == [error |-> s.error, converged |-> c, decisions |-> s.decisions] IN
       CASE s.error -> result(FALSE)
         [] ~s.error /\ StateMatches(queued, s.next) -> result(TRUE)
         [] ~s.error /\ ~StateMatches(queued, s.next) /\ rounds = 1 -> result(FALSE)
         [] OTHER -> StabilizeCycle(graph, cycle, s.next, s.decisions, rounds - 1))

Stabilized(graph, cycle, claims) ==
    StabilizeCycle(graph, cycle, Put(EmptyMap, cycle[1], claims), EmptyMap, CycleIterations)

StrengthenClaim(claims, i, delta) == [claims EXCEPT ![i].strength = @ + delta]

(* feedback_monotonicity, for one cycle: what does not converge is passed  *)
(* over, before and after.                                                 *)
FeedbackOfCycle(graph, cycle, claims) ==
    With(Stabilized(graph, cycle, claims), LAMBDA baseline :
    LET try(i, d) ==
            With(Stabilized(graph, cycle, StrengthenClaim(claims, i, d)), LAMBDA candidate :
               CASE claims[i].strength + d <= 0 \/ candidate.error -> "error"
                 [] candidate.converged /\ ~candidate.error
                      /\ Worsens(baseline.decisions, candidate.decisions, claims) -> "violation"
                 [] OTHER -> "go") IN
    With(Len(StrengthDeltas), LAMBDA n :
       CASE baseline.error -> "error"
         [] ~baseline.error /\ ~baseline.converged -> "none"
         [] OTHER -> FirstParadox([k \in 1..(Len(claims) * n) |->
                        try(1 + ((k - 1) \div n), StrengthDeltas[1 + ((k - 1) % n)])])))

(* detect_cycles lists the cycles in order; the first one with something   *)
(* to say ends the search.  Cycles are disjoint: their order is that of    *)
(* their least nodes.                                                      *)
FeedbackMonotonicity(graph, claims) ==
    With(SetToSortSeq(DetectCycles(graph), LAMBDA a, b : a[1] < b[1]), LAMBDA cycles :
    With([k \in DOMAIN cycles |-> FeedbackOfCycle(graph, cycles[k], claims)], LAMBDA said :
       FirstParadox([k \in DOMAIN said |-> IF said[k] = "none" THEN "go" ELSE said[k]])))

-----------------------------------------------------------------------------
(* topological_order_with_tiebreak: the least or the greatest ready node   *)
(* leaves first.                                                           *)
OrderWithTiebreak(graph, least) ==
    LET follow(s, e) ==
            [s EXCEPT !.counts[e.to] = @ - 1,
                      !.ready = IF s.counts[e.to] = 1 THEN @ \cup {e.to} ELSE @]
        pop(s) == IF s.ready = {} THEN s
                  ELSE LET n == IF least THEN Min(s.ready) ELSE Max(s.ready)
                       IN FoldLeft(follow, [s EXCEPT !.order = Append(@, n), !.ready = @ \ {n}],
                                   OutgoingEdges(graph, n))
        start == [counts |-> IncomingCounts(graph), ready |-> EntryNodes(graph), order |-> <<>>]
        step(s, n) == pop(s)
    IN FoldLeft(step, start, Sorted(DOMAIN graph.nodes)).order

(* path_dependence compares the two orders.                                *)
PathDependence(graph, claims) ==
    With(OrderWithTiebreak(graph, TRUE), LAMBDA ascending :
    With(OrderWithTiebreak(graph, FALSE), LAMBDA descending :
    With(EvaluateWithOrder(graph, claims, ascending), LAMBDA left :
    With(EvaluateWithOrder(graph, claims, descending), LAMBDA right :
       CASE DetectCycles(graph) # {} \/ ascending = descending -> "none"
         [] OTHER -> IF left.error \/ right.error THEN "error"
                     ELSE IF Differs(left.final, right.final, claims) THEN "violation" ELSE "none"))))
=============================================================================

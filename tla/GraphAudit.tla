----------------------------- MODULE GraphAudit -----------------------------
(***************************************************************************)
(* A graph is built node by node and edge by edge (graph/builder.rs) and   *)
(* audited with a corpus of claims (src/src/extract/audit.rs,              *)
(* audit_governance_graph): cycles and their admissibility, the nine       *)
(* axioms, the three paradoxes, the factor exposure and whether the graph  *)
(* can be compiled.  The spectral part of the report is left out.          *)
(***************************************************************************)
EXTENDS GraphAxioms, Relation

CONSTANTS NodeTemplates,   \* for each position, the nodes a builder may add
          Transforms,      \* [transform, delta] of an edge
          Corpora,         \* [claims, provenance] a caller may supply
          SelfMatching,    \* regular expressions that match their own text
          MaxNodes, MaxEdges

VARIABLES builder,   \* the GraphBuilder: nodes, edges and whether a call failed
          phase,     \* "building", "refused", "built" or "audited"
          audit      \* the claims audited and the report

graphVars == <<builder, phase, audit>>

graph == [nodes |-> builder.nodes, edges |-> builder.edges]

-----------------------------------------------------------------------------
(* Synthetic claims: a baseline that matches no gate and, for every gate   *)
(* of a binary node, a claim made to match it.  Only the fields of binary  *)
(* gates are given a value.                                                *)
GatesOf(g, nodes) ==
    {<<n, i>> \in nodes \X (1..3) : g.nodes[n].kind = "binary" /\ i \in DOMAIN g.nodes[n].gates}

NumericGate(gate) == gate.kind \in {"threshold", "peer_relative"}

MetricFields(g, nodes) ==
    {g.nodes[x[1]].gates[x[2]].value : x \in {y \in GatesOf(g, nodes) : NumericGate(g.nodes[y[1]].gates[y[2]])}}

BaselineClaim(fields) ==
    [claimant_id |-> 1, strength |-> 20, priority_class |-> <<"extracted">>, path |-> {},
     action |-> <<"safe_action">>, content |-> {}, metrics |-> [f \in fields |-> 0]]

ApplyDecisionMetrics(c, decision) ==
    LET field == CASE decision = "permit"   -> "permit_signal"
                   [] decision = "deny"     -> "deny_signal"
                   [] decision = "escalate" -> "escalate_signal"
    IN [c EXCEPT !.metrics = Put(@, field, 20)]

(* sample_content: the expression's own text, unescaped.                   *)
SampleContent(regex) == {regex} \cap SelfMatching

(* claim_for_gate; index counts the gates of the node from 0.              *)
ClaimForGate(id, gate, fields, index) ==
    LET c == [BaselineClaim(fields) EXCEPT !.claimant_id = id, !.strength = 20 + index]
        made == CASE gate.kind = "prefix"  -> [c EXCEPT !.path = {gate.value}]
                  [] gate.kind = "exact"   -> [c EXCEPT !.action = <<gate.value>>]
                  [] gate.kind = "content" -> [c EXCEPT !.content = SampleContent(gate.value)]
                  [] gate.kind = "threshold" ->
                       [c EXCEPT !.metrics = Put(@, gate.value, IF gate.min <= 0 THEN 20 ELSE gate.min)]
                  [] gate.kind = "peer_relative" ->
                       [c EXCEPT !.metrics = Put(@, gate.value, 200 + 20 * index)]
    IN ApplyDecisionMetrics(made, gate.decision)

SyntheticClaims(g, nodes) ==
    LET fields == MetricFields(g, nodes)
        gates == SetToSortSeq(GatesOf(g, nodes), LAMBDA a, b : a[1] < b[1] \/ (a[1] = b[1] /\ a[2] < b[2]))
        made == [k \in DOMAIN gates |->
                   ClaimForGate(10 * gates[k][1] + gates[k][2],
                                g.nodes[gates[k][1]].gates[gates[k][2]], fields, gates[k][2] - 1)]
    IN <<BaselineClaim(fields)>> \o made

-----------------------------------------------------------------------------
(* check_graph_nonvacuity: without cycles, every claim ends permitted or   *)
(* denied and one is permitted; with cycles, each is probed with synthetic *)
(* claims of its own, whatever the caller supplied.                        *)
NonterminalClaimants(claims, decisions) ==
    {id \in {claims[i].claimant_id : i \in DOMAIN claims} : GetOr(decisions, id, "escalate") = "escalate"}

PermitFound(claims, decisions) ==
    \E i \in DOMAIN claims : GetOr(decisions, claims[i].claimant_id, "escalate") = "permit"

ProbeCycle(g, cycle) ==
    With(SyntheticClaims(g, ToSet(cycle)), LAMBDA claims :
    With(IterateCycle(g, cycle, claims, CycleIterations), LAMBDA r :
       IF r.error THEN "error"
       ELSE IF ~r.converged \/ NonterminalClaimants(claims, r.decisions) # {} THEN "rejected"
       ELSE IF PermitFound(claims, r.decisions) THEN "permit" ELSE "go"))

CheckGraphNonvacuity(g, claims, cycles) ==
    With(Traverse(g, claims), LAMBDA r :
    With([k \in DOMAIN cycles |-> ProbeCycle(g, cycles[k])], LAMBDA probes :
    With(FirstOutcome([k \in DOMAIN probes |-> IF probes[k] = "permit" THEN "go" ELSE probes[k]]), LAMBDA stopped :
    With(          IF r.error # "none" THEN "error"
                   ELSE IF NonterminalClaimants(claims, r.final) # {} THEN "rejected"
                   ELSE IF PermitFound(claims, r.final) THEN "admissible" ELSE "rejected", LAMBDA acyclic :
       CASE DOMAIN g.nodes = {} -> "rejected"
         [] DOMAIN g.nodes # {} /\ cycles = <<>> -> acyclic
         [] OTHER -> IF stopped # "admissible" THEN stopped
                     ELSE IF "permit" \in ToSet(probes) THEN "admissible" ELSE "rejected"))))

-----------------------------------------------------------------------------
GraphNumericFields(g) ==
    LET gates == {g.nodes[x[1]].gates[x[2]] : x \in GatesOf(g, DOMAIN g.nodes)}
    IN ({gate.value : gate \in {h \in gates : NumericGate(h)}}
          \cup {g.nodes[n].field : n \in {m \in DOMAIN g.nodes : g.nodes[m].kind = "threshold"}})
       \ {"strength"}

(* normalize_claims_for_graph: observed claims get 0 for what they lack.   *)
NormalizeClaimsForGraph(g, claims, provenance) ==
    IF provenance # "observed_runtime" THEN claims
    ELSE [i \in DOMAIN claims |->
            [claims[i] EXCEPT !.metrics = [f \in DOMAIN @ \cup GraphNumericFields(g) |-> GetOr(@, f, 0)]]]

(* graph_fields, graph_shocks and graph_deltas: strength by 0.1, any other *)
(* field by 1.                                                             *)
GraphSteps(claims) ==
    LET order == <<"deny_signal", "escalate_signal", "load", "permit_signal", "risk", "strength">>
        fields == {"strength"} \cup UNION {DOMAIN claims[i].metrics : i \in DOMAIN claims}
        known == SelectSeq(order, LAMBDA f : f \in fields)
    IN [k \in DOMAIN known |->
          [field |-> known[k], delta |-> IF known[k] = "strength" THEN 2 ELSE 20]]

(* run_graph_axiom_checks: with cycles only non-vacuity is examined; an    *)
(* error of any check is the audit's.                                      *)
RunGraphAxiomChecks(g, claims, cycles) ==
    With(          [a \in {"consistency", "solidarity", "monotonicity", "strategyproofness",
                           "certifiability", "observable", "corrigibility", "compositional"}
                       |-> "skipped"], LAMBDA skipped :
    With(GraphSteps(claims), LAMBDA steps :
    With(CheckGraphNonvacuity(g, claims, cycles), LAMBDA nonvacuity :
       Put(IF cycles # <<>> THEN skipped
           ELSE [consistency |-> CheckGraphConsistency(g, claims),
                 solidarity |-> CheckGraphSolidarity(g, claims, steps),
                 monotonicity |-> CheckGraphMonotonicity(g, claims, steps),
                 strategyproofness |-> CheckGraphStrategyproofness(g, claims),
                 certifiability |-> CheckGraphCertifiability(g, claims),
                 observable |-> CheckGraphObservableDeterminacy(g, claims),
                 corrigibility |-> CheckGraphCorrigibility(g, claims),
                 compositional |-> CheckGraphCompositionalSafety(g, claims)],
           "nonvacuity", nonvacuity))))

RunGraphParadoxSuite(g, claims, cyclic) ==
    [alabama |-> IF cyclic THEN "skipped" ELSE CompositionalAlabama(g, claims),
     feedback |-> FeedbackMonotonicity(g, claims),
     path |-> IF cyclic THEN "skipped" ELSE PathDependence(g, claims)]

(* graph_factor_exposure, in halves: 0 admissible, 1 skipped, 2 rejected.  *)
GraphFactorExposure(axioms) ==
    [a \in {"consistency", "solidarity", "monotonicity", "strategyproofness", "nonvacuity"} |->
        CASE axioms[a] = "skipped" -> 1 [] axioms[a] = "rejected" -> 2 [] OTHER -> 0]

ProtocolCanExtractCompile(axioms, cyclic) ==
    /\ ~cyclic
    /\ \E a \in DOMAIN axioms : axioms[a] = "admissible"
    /\ \A a \in DOMAIN axioms : axioms[a] # "rejected"

(* assess_protocol_state: the sacrifices it recommends are the rejections. *)
AssessProtocolState(axioms, cyclic) ==
    [can_extract_compile |-> ProtocolCanExtractCompile(axioms, cyclic),
     recommended |-> {a \in DOMAIN axioms : axioms[a] = "rejected"}]

(* audit_graph_with_boundary.                                              *)
AuditGraph(g, supplied, provenance) ==
    With(NormalizeClaimsForGraph(g, supplied, provenance), LAMBDA claims :
    With(SetToSortSeq(DetectCycles(g), LAMBDA a, b : a[1] < b[1]), LAMBDA cycles :
    With(cycles # <<>>, LAMBDA cyclic :
    LET probe(nodes) == IF claims = <<>> THEN SyntheticClaims(g, nodes) ELSE claims IN
    With(           [k \in DOMAIN cycles |->
                       CheckCycleAdmissibility(g, cycles[k], probe(ToSet(cycles[k])), CycleIterations)], LAMBDA findings :
    With(RunGraphAxiomChecks(g, claims, cycles), LAMBDA axioms :
    With(UNION {ToSet(cycles[k]) : k \in DOMAIN cycles}, LAMBDA members :
    With(RunGraphParadoxSuite(g, IF cyclic THEN probe(members) ELSE claims, cyclic), LAMBDA paradoxes :
    With(         \/ "error" \in ToSet(findings)
                  \/ \E a \in DOMAIN axioms : axioms[a] = "error"
                  \/ \E p \in DOMAIN paradoxes : paradoxes[p] = "error", LAMBDA failed :
       [ok |-> ~failed, claims |-> claims, findings |-> findings, axioms |-> axioms,
        paradoxes |-> paradoxes,
        exposure |-> GraphFactorExposure(axioms),
        assessment |-> AssessProtocolState(axioms, cyclic)]))))))))

-----------------------------------------------------------------------------
NoAudit == [done |-> FALSE]

GraphInit ==
    /\ builder = [nodes |-> EmptyMap, edges |-> <<>>, error |-> FALSE]
    /\ phase = "building"
    /\ audit = NoAudit

(* Nodes first, in the order of their identifiers: the result of a build   *)
(* does not depend on the order of the calls.  A second node with an       *)
(* identifier already used is refused.                                     *)
AddNodeStep ==
    /\ phase = "building" /\ builder.edges = <<>>
    /\ Cardinality(DOMAIN builder.nodes) < MaxNodes
    /\ LET next == 1 + Cardinality(DOMAIN builder.nodes)
       IN \E id \in {1, next}, t \in NodeTemplates[next] :
             builder' = AddNode(builder, Put(t, "id", id))
    /\ phase' = IF builder'.error THEN "refused" ELSE "building"
    /\ UNCHANGED audit

(* GraphBuilder::add_edge; the edges come in the order of their ends (an   *)
(* edge may be repeated), and may name a node nobody added.                *)
AddEdge(from, to, t) ==
    /\ phase = "building" /\ Len(builder.edges) < MaxEdges
    /\ \A k \in DOMAIN builder.edges :
          \/ builder.edges[k].from < from
          \/ builder.edges[k].from = from /\ builder.edges[k].to <= to
    /\ builder' = [builder EXCEPT !.edges = Append(@, [from |-> from, to |-> to,
                                        transform |-> t.transform, delta |-> t.delta])]
    /\ UNCHANGED <<phase, audit>>

(* GraphBuilder::build.                                                    *)
Build ==
    /\ phase = "building"
    /\ phase' = IF \A k \in DOMAIN builder.edges :
                      {builder.edges[k].from, builder.edges[k].to} \subseteq DOMAIN builder.nodes
                THEN "built" ELSE "refused"
    /\ UNCHANGED <<builder, audit>>

(* What the graph may be audited with: the claims of a caller or, when an  *)
(* extraction is analysed, the graph's own synthetic claims.               *)
AuditInputs ==
    Corpora \cup {[claims |-> SyntheticClaims(graph, DOMAIN graph.nodes), provenance |-> "synthetic"]}

(* audit_governance_graph.                                                 *)
Audit(claims, provenance) ==
    /\ phase' = "audited"
    /\ audit' = Put(AuditGraph(graph, claims, provenance), "done", TRUE)
    /\ UNCHANGED builder

Done == phase \in {"refused", "audited"} /\ UNCHANGED graphVars

GraphNext ==
    \/ AddNodeStep
    \/ \E from \in 1..MaxNodes, to \in 1..MaxNodes, t \in Transforms : AddEdge(from, to, t)
    \/ Build
    \/ phase = "built" /\ \E c \in AuditInputs : Audit(c.claims, c.provenance)
    \/ Done

GraphSpec == GraphInit /\ [][GraphNext]_graphVars

-----------------------------------------------------------------------------
(* Properties                                                              *)

audited == phase = "audited" /\ audit.done
acyclic == DetectCycles(graph) = {}

(* The builder never holds more than it was given and an audit exists      *)
(* exactly when one was run.                                               *)
GraphTypeOK ==
    /\ DOMAIN builder.nodes \subseteq 1..MaxNodes
    /\ Len(builder.edges) <= MaxEdges
    /\ phase \in {"building", "refused", "built", "audited"}
    /\ audit.done <=> phase = "audited"

Reach(g) ==
    LET S == DOMAIN g.nodes
        direct == [p \in S \X S |-> \E k \in DOMAIN g.edges :
                                      g.edges[k].from = p[1] /\ g.edges[k].to = p[2]]
    IN TransitiveClosure(direct, S)

(* Tarjan's search (cycle.rs, strong_connect) finds exactly the strongly   *)
(* connected components that hold a cycle, a lone node with an edge to     *)
(* itself included, for every order of edges and with repeated edges.      *)
CyclesAreComponents ==
    phase = "built" =>
        LET reach == Reach(graph)
            inCycle == {n \in DOMAIN graph.nodes : reach[n, n]}
        IN DetectCycles(graph) = {Sorted({m \in inCycle : reach[n, m] /\ reach[m, n]}) : n \in inCycle}

(* traverse, against a definition that follows each claimant on its own: a *)
(* claim reaches the entry nodes and the successors of the nodes that      *)
(* escalate it, and its final decision is the most restrictive of what the *)
(* nodes it reached said, an escalation counting only where the graph      *)
(* ends.                                                                   *)
FinalIsMostRestrictive ==
    audited /\ audit.ok /\ acyclic /\ DOMAIN graph.nodes # {} =>
        With(Traverse(graph, audit.claims), LAMBDA r :
        LET says(n, id) == {r.nodes[n][i].decision : i \in {j \in DOMAIN r.nodes[n] :
                                                   r.nodes[n][j].claimant_id = id}} IN
        LET feeds(n, id) == \E k \in DOMAIN graph.edges :
                graph.edges[k].to = n /\ "escalate" \in says(graph.edges[k].from, id) IN
        LET counted(n, id) == IF n \in TerminalNodes(graph) THEN says(n, id)
                              ELSE says(n, id) \ {"escalate"} IN
           \A c \in DOMAIN audit.claims :
              With(audit.claims[c].claimant_id, LAMBDA id :
              With(UNION {counted(n, id) : n \in DOMAIN graph.nodes}, LAMBDA all :
                 /\ \A n \in DOMAIN graph.nodes :
                       says(n, id) # {} <=> n \in EntryNodes(graph) \/ feeds(n, id)
                 /\ id \in DOMAIN r.final
                 /\ r.final[id] \in all
                 /\ \A d \in all : DecisionRank(r.final[id]) <= DecisionRank(d))))

(* A strength is modified only for a claim the node permitted and only     *)
(* escalated claims travel, so no edge ever changes a claim, two feeds of  *)
(* one node never disagree (ConflictingClaimFeed) and a graph decides as   *)
(* if all its edges passed claims through (traverse.rs, apply_transform).  *)
ModificationIsInert ==
    audited /\ acyclic =>
        With(Traverse(graph, audit.claims), LAMBDA r :
        With([k \in DOMAIN graph.edges |-> [graph.edges[k] EXCEPT !.transform = "pass_through"]], LAMBDA plain :
           /\ r.error \notin {"claim", "conflict"}
           /\ r = Traverse([graph EXCEPT !.edges = plain], audit.claims)))

(* The final decisions are the same in every legal order: the observable   *)
(* axiom and the paradox of path dependence can skip or fail to evaluate,  *)
(* never find a difference (observable.rs, paradox/graph.rs).              *)
OrderIndependent ==
    audited =>
        /\ audit.axioms.observable # "rejected"
        /\ audit.paradoxes.path # "violation"
        /\ acyclic /\ Traverse(graph, audit.claims).error = "none" =>
              audit.axioms.observable # "error" /\ audit.paradoxes.path # "error"

(* Appending a stage that permits everything revives no denial             *)
(* (compositional.rs), and every governed claim has a decision to replay   *)
(* unless the graph is empty (certifiable.rs).                             *)
DenialsStand ==
    audited =>
        /\ audit.axioms.compositional # "rejected"
        /\ audit.axioms.certifiability = "rejected" => DOMAIN graph.nodes = {}

(* Every cycle that is found is inadmissible and makes the audit vacuous:  *)
(* a closing edge queues its target for the next round even with nothing   *)
(* to feed, so no cycle ever converges (cycle.rs, nonvacuity.rs).          *)
CyclesNeverAdmissible ==
    audited =>
        /\ "admissible" \notin ToSet(audit.findings)
        /\ ~acyclic => audit.axioms.nonvacuity \in {"rejected", "error"}

(* A graph reported as extractable has been evaluated on these claims and  *)
(* settles each of them, one at least with a permit (audit.rs,             *)
(* protocol_can_extract_compile).                                          *)
ExtractableIsLive ==
    audited /\ audit.ok /\ audit.assessment.can_extract_compile =>
        With(Traverse(graph, audit.claims), LAMBDA r :
        With({r.final[audit.claims[i].claimant_id] : i \in DOMAIN audit.claims}, LAMBDA said :
           r.error = "none" /\ "permit" \in said /\ "escalate" \notin said))

HasPeerGate(g) ==
    \E x \in GatesOf(g, DOMAIN g.nodes) : g.nodes[x[1]].gates[x[2]].kind = "peer_relative"

(* Without a peer-relative gate no decision depends on who else is there:  *)
(* consistency cannot be rejected (diagnostics/graph/consistency.rs).      *)
PeerFreeIsConsistent ==
    audited /\ ~HasPeerGate(graph) => audit.axioms.consistency # "rejected"

(* On a graph without cycles the audit errs only when the claims cannot be *)
(* evaluated, carry a metric the polarity schema does not know, or one of  *)
(* them lacks a number that some node of the graph reads.  The last is     *)
(* enough even where the claim does not reach that node: one perturbation  *)
(* of a check that leads it there fails the whole audit                    *)
(* (run_graph_axiom_checks).  No perturbation fails for another reason,    *)
(* and none fails on observed claims, which normalize_claims_for_graph     *)
(* completes.                                                              *)
AuditErrsOnlyOnItsInputs ==
    audited /\ ~audit.ok /\ acyclic =>
        \/ Traverse(graph, audit.claims).error # "none"
        \/ \E s \in ToSet(GraphSteps(audit.claims)) :
              s.field \notin DOMAIN AuditMetricPolaritySchema
        \/ \E c \in ToSet(audit.claims) : ~(GraphNumericFields(graph) \subseteq DOMAIN c.metrics)

(* The traversal computes what its definition says, whatever the order in  *)
(* which nodes and edges were added: the cycles are the strongly connected *)
(* components, a claimant's final decision is the most restrictive one he  *)
(* reaches, and modified claims influence no decision (traverse.rs).       *)
TraversalIsExact ==
    /\ CyclesAreComponents
    /\ FinalIsMostRestrictive
    /\ ModificationIsInert
    /\ OrderIndependent

(* The assessment of an audit says no more than the graph bears out: a     *)
(* denial stands, a cycle is never admissible, what can be extracted is    *)
(* live, consistency is rejected for peers only, and a perturbation fails  *)
(* only on a number that a claim lacks (audit.rs).                         *)
AuditIsSound ==
    /\ GraphTypeOK
    /\ DenialsStand
    /\ CyclesNeverAdmissible
    /\ ExtractableIsLive
    /\ PeerFreeIsConsistent
    /\ AuditErrsOnlyOnItsInputs
=============================================================================

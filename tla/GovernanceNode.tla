--------------------------- MODULE GovernanceNode ---------------------------
(***************************************************************************)
(* The nodes of a governance graph (src/src/graph/node.rs, edge.rs and     *)
(* builder.rs): claims, gates, the three kinds of node and what a node     *)
(* decides about the claims that reach it.                                 *)
(*                                                                         *)
(* A claim is a record                                                     *)
(*   [claimant_id, strength, priority_class, path, action, content,        *)
(*    metrics]                                                             *)
(* whose texts stand for what the gates can tell of them: path is the set  *)
(* of prefixes it starts with, content the set of expressions it matches,  *)
(* action and priority_class options (<<>> or <<a>>); metrics is a         *)
(* function on the names of the metrics it provides.  Identifiers of nodes *)
(* and claimants are naturals, 0 the blank one: their order is the order   *)
(* of the code's BTreeMap keys.  Numbers are integers, one unit standing   *)
(* for 1/20, the finest step the checks take; a percentile is a pair       *)
(* <<numerator, denominator>>.                                             *)
(***************************************************************************)
EXTENDS Integers, Sequences, FiniteSets, FiniteSetsExt, Values

(* decision_rank: what "most restrictive" means when decisions are merged. *)
DecisionRank(d) == CASE d = "deny" -> 0 [] d = "escalate" -> 1 [] d = "permit" -> 2

-----------------------------------------------------------------------------
(* A claim with a blank claimant, a strength that is not positive or a     *)
(* blank priority class is refused; so is a batch that names a claimant    *)
(* twice.  Non-finite numbers are not representable here.                  *)
ValidateGovernanceClaim(c) ==
    c.claimant_id # 0 /\ c.strength > 0 /\ c.priority_class # <<"">>

ValidateGovernanceClaims(claims) ==
    /\ \A i \in DOMAIN claims : ValidateGovernanceClaim(claims[i])
    /\ \A i, j \in DOMAIN claims :
          claims[i].claimant_id = claims[j].claimant_id => i = j

ValidateGate(g) ==
    /\ g.value # ""
    /\ g.kind = "peer_relative" => g.min[1] >= 0 /\ g.min[1] <= g.min[2]

ValidateGovernanceNode(node) ==
    CASE node.kind = "binary" -> \A i \in DOMAIN node.gates : ValidateGate(node.gates[i])
      [] node.kind = "threshold" -> node.field # ""
      [] node.kind = "proportional" -> TRUE

(* validate_governance_graph, and what GraphBuilder::build lets through:   *)
(* the keys are the identifiers and every edge joins two nodes.            *)
ValidateGovernanceGraph(graph) ==
    /\ \A n \in DOMAIN graph.nodes :
          graph.nodes[n].id = n /\ ValidateGovernanceNode(graph.nodes[n])
    /\ \A k \in DOMAIN graph.edges :
          {graph.edges[k].from, graph.edges[k].to} \subseteq DOMAIN graph.nodes

(* GraphBuilder: nodes are added one by one, a second one with the same    *)
(* identifier is refused; edges are checked when the graph is built.       *)
AddNode(builder, node) ==
    IF ~ValidateGovernanceNode(node) \/ node.id \in DOMAIN builder.nodes
    THEN [builder EXCEPT !.error = TRUE]
    ELSE [builder EXCEPT !.nodes = [n \in DOMAIN @ \cup {node.id} |->
                                       IF n = node.id THEN node ELSE @[n]]]

-----------------------------------------------------------------------------
(* The number a gate or a threshold reads; a metric may be missing.        *)
HasField(c, field) == field = "strength" \/ field \in DOMAIN c.metrics

NumericField(c, field) == IF field = "strength" THEN c.strength ELSE c.metrics[field]

(* rank / total >= percentile, where rank counts the values of the batch   *)
(* that do not exceed the claim's own.                                     *)
PeerRelativeRankAtLeastPercentile(rank, total, percentile) ==
    rank * percentile[2] >= percentile[1] * total

EvaluatePeerRelative(c, claims, field, percentile) ==
    LET rank == Cardinality({i \in DOMAIN claims :
                    NumericField(claims[i], field) <= NumericField(c, field)})
    IN PeerRelativeRankAtLeastPercentile(rank, Len(claims), percentile)

(* gate_matches: the gate matches, does not, or fails because a metric it  *)
(* reads is missing (of the claim; of any claim for a peer-relative gate). *)
GateOutcome(g, c, claims) ==
    LET told(b) == IF b THEN "match" ELSE "no"
    IN CASE g.kind = "prefix"  -> told(g.value \in c.path)
         [] g.kind = "exact"   -> told(c.action = <<g.value>>)
         [] g.kind = "content" -> told(g.value \in c.content)
         [] g.kind = "threshold" ->
              IF HasField(c, g.value) THEN told(NumericField(c, g.value) >= g.min)
              ELSE "error"
         [] g.kind = "peer_relative" ->
              IF \A i \in DOMAIN claims : HasField(claims[i], g.value)
              THEN told(EvaluatePeerRelative(c, claims, g.value, g.min))
              ELSE "error"

(* The three combinations, over what each gate said.  Each reads the gates *)
(* in order and stops where the code returns; "error" ends the evaluation  *)
(* of the node.                                                            *)
EvaluateFirstMatch(node, outcomes) ==
    LET hit == {i \in DOMAIN outcomes : outcomes[i] # "no"}
    IN CASE hit = {} -> node.default
         [] hit # {} /\ outcomes[Min(hit)] = "error" -> "error"
         [] OTHER -> node.gates[Min(hit)].decision

EvaluateAnyMustPass(node, outcomes) ==
    LET said == {node.gates[i].decision : i \in {j \in DOMAIN outcomes : outcomes[j] = "match"}}
    IN CASE \E i \in DOMAIN outcomes : outcomes[i] = "error" -> "error"
         [] OTHER -> CASE "permit" \in said -> "permit"
                       [] "permit" \notin said /\ "escalate" \in said -> "escalate"
                       [] said = {"deny"} -> "deny"
                       [] OTHER -> node.default

EvaluateAllMustPass(node, outcomes) ==
    LET matched == {i \in DOMAIN outcomes : outcomes[i] = "match"}
        stops == {i \in DOMAIN outcomes :
                    outcomes[i] = "error" \/ (i \in matched /\ node.gates[i].decision = "deny")}
        escalates == \E i \in matched : node.gates[i].decision = "escalate"
    IN CASE stops # {} -> IF outcomes[Min(stops)] = "error" THEN "error" ELSE "deny"
         [] stops = {} /\ escalates -> "escalate"
         [] stops = {} /\ ~escalates /\ matched = DOMAIN node.gates /\ matched # {} -> "permit"
         [] OTHER -> node.default

EvaluateBinaryNode(node, c, claims) ==
    With([i \in DOMAIN node.gates |-> GateOutcome(node.gates[i], c, claims)], LAMBDA outcomes :
         CASE node.combination = "first_match"   -> EvaluateFirstMatch(node, outcomes)
           [] node.combination = "any_must_pass" -> EvaluateAnyMustPass(node, outcomes)
           [] node.combination = "all_must_pass" -> EvaluateAllMustPass(node, outcomes))

EvaluateThresholdNode(node, c) ==
    CASE ~HasField(c, node.field) -> "error"
      [] HasField(c, node.field) /\ NumericField(c, node.field) >= node.min -> "permit"
      [] OTHER -> "deny"

(* evaluate_node_validated: one decision per claim, in the order of the    *)
(* claims, or an error; a proportional node is not evaluated here.         *)
EvaluateNodeValidated(node, claims) ==
    With([i \in DOMAIN claims |->
                   CASE node.kind = "binary"       -> EvaluateBinaryNode(node, claims[i], claims)
                     [] node.kind = "threshold"    -> EvaluateThresholdNode(node, claims[i])
                     [] node.kind = "proportional" -> "error"], LAMBDA said :
    With(node.kind = "proportional" \/ \E i \in DOMAIN claims : said[i] = "error", LAMBDA failed :
       [ok |-> ~failed,
        decisions |-> IF failed THEN <<>>
                      ELSE [i \in DOMAIN claims |->
                              [claimant_id |-> claims[i].claimant_id, decision |-> said[i]]]]))

EvaluateNode(node, claims) ==
    IF ValidateGovernanceClaims(claims) THEN EvaluateNodeValidated(node, claims)
    ELSE [ok |-> FALSE, decisions |-> <<>>]
=============================================================================

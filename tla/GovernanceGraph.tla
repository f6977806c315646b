-------------------------- MODULE GovernanceGraph --------------------------
(***************************************************************************)
(* Evaluation of a governance graph (src/src/graph/traverse.rs, cycle.rs): *)
(* Tarjan's cycle detection, the topological order, the traversal that     *)
(* queues claims at nodes and merges final decisions, and the iteration of *)
(* a cycle.                                                                *)
(*                                                                         *)
(* A graph is [nodes |-> function from NodeId, edges |-> sequence of       *)
(* [from, to, transform, delta]].  The RECURSIVE operators below keep this *)
(* module to the model checker.                                            *)
(***************************************************************************)
EXTENDS GovernanceNode, SequencesExt

Sorted(S) == SetToSortSeq(S, <)

EmptyMap == [x \in {} |-> x]
Put(f, k, v) == [x \in DOMAIN f \cup {k} |-> IF x = k THEN v ELSE f[x]]
GetOr(f, k, default) == IF k \in DOMAIN f THEN f[k] ELSE default

-----------------------------------------------------------------------------
(* strong_connect: depth-first, successors in sorted order (an edge given  *)
(* twice is visited twice).  s is the TarjanState.                         *)
HasSelfLoop(n, graph) == \E k \in DOMAIN graph.edges : graph.edges[k].from = n /\ graph.edges[k].to = n

Successors(n, graph) ==
    SortSeq([k \in 1..Len(graph.edges) |-> graph.edges[k]], LAMBDA a, b : a.to < b.to)

(* The component on top of the stack, down to the node that closes it.     *)
PopComponent(n, graph, s) ==
    LET at == CHOOSE i \in DOMAIN s.stack : s.stack[i] = n
        component == SubSeq(s.stack, at, Len(s.stack))
        members == {component[i] : i \in DOMAIN component}
    IN [s EXCEPT !.stack = SubSeq(s.stack, 1, at - 1),
                 !.cycles = IF Len(component) > 1 \/ HasSelfLoop(n, graph)
                            THEN @ \cup {Sorted(members)} ELSE @]

RECURSIVE StrongConnect(_, _, _)
StrongConnect(n, graph, state) ==
    LET entered == [state EXCEPT !.indices = Put(@, n, state.index),
                                 !.lowlinks = Put(@, n, state.index),
                                 !.index = @ + 1,
                                 !.stack = Append(@, n)]
        onStack(s, m) == \E i \in DOMAIN s.stack : s.stack[i] = m
        lower(s, v) == [s EXCEPT !.lowlinks[n] = IF v < @ THEN v ELSE @]
        visit(s, edge) ==
            CASE edge.from # n -> s
              [] edge.from = n /\ edge.to \notin DOMAIN s.indices ->
                   LET t == StrongConnect(edge.to, graph, s) IN lower(t, t.lowlinks[edge.to])
              [] edge.from = n /\ edge.to \in DOMAIN s.indices ->
                   IF onStack(s, edge.to) THEN lower(s, s.indices[edge.to]) ELSE s
        done == FoldLeft(visit, entered, Successors(n, graph))
    IN IF done.lowlinks[n] = done.indices[n] THEN PopComponent(n, graph, done) ELSE done

(* The cycles, each sorted; the code sorts the list as well, which a set   *)
(* needs not: only its first member is ever named.                         *)
DetectCycles(graph) ==
    LET connect(s, n) == IF n \in DOMAIN s.indices THEN s ELSE StrongConnect(n, graph, s)
        start == [index |-> 0, stack |-> <<>>, indices |-> EmptyMap, lowlinks |-> EmptyMap,
                  cycles |-> {}]
    IN FoldLeft(connect, start, Sorted(DOMAIN graph.nodes)).cycles

-----------------------------------------------------------------------------
IncomingCounts(graph) ==
    [n \in DOMAIN graph.nodes |->
       Cardinality({k \in DOMAIN graph.edges : graph.edges[k].to = n})]

EntryNodes(graph) == {n \in DOMAIN graph.nodes : IncomingCounts(graph)[n] = 0}

(* OutgoingEdges(n): the edges of n in the order of the edge list.         *)
OutgoingEdges(graph, n) == SelectSeq(graph.edges, LAMBDA e : e.from = n)

(* topological_order: the queue is a sorted set, the least node leaves it, *)
(* and a successor enters when its last incoming edge has been counted.    *)
TopologicalOrder(graph) ==
    LET follow(s, e) ==
            [s EXCEPT !.counts[e.to] = @ - 1,
                      !.queue = IF s.counts[e.to] = 1 THEN @ \cup {e.to} ELSE @]
        pop(s) == IF s.queue = {} THEN s
                  ELSE LET n == Min(s.queue)
                       IN FoldLeft(follow, [s EXCEPT !.order = Append(@, n),
                                                     !.queue = @ \ {n}],
                                   OutgoingEdges(graph, n))
        after[k \in 0..Cardinality(DOMAIN graph.nodes)] ==
            IF k = 0 THEN [counts |-> IncomingCounts(graph), queue |-> EntryNodes(graph),
                           order |-> <<>>]
            ELSE pop(after[k - 1])
    IN after[Cardinality(DOMAIN graph.nodes)].order

-----------------------------------------------------------------------------
(* forwarded_claims: only escalated claims travel on.                      *)
ForwardedClaims(claims, decisions) ==
    LET kept == SelectSeq([i \in 1..Len(claims) |-> i],
                  LAMBDA i : /\ decisions[i].claimant_id = claims[i].claimant_id
                             /\ decisions[i].decision = "escalate")
    IN [j \in DOMAIN kept |-> claims[kept[j]]]

(* apply_transform: the claims are paired with the decisions position by   *)
(* position (zip stops with the shorter); a permitted claimant's strength  *)
(* moves by delta and the result must still be a valid claim.              *)
ApplyTransform(edge, claims, decisions) ==
    LET n == IF Len(claims) < Len(decisions) THEN Len(claims) ELSE Len(decisions)
        moved(i) == /\ decisions[i].claimant_id = claims[i].claimant_id
                    /\ decisions[i].decision = "permit"
        after == [i \in 1..n |-> IF moved(i) THEN [claims[i] EXCEPT !.strength = @ + edge.delta]
                                 ELSE claims[i]]
    IN IF edge.transform = "pass_through" THEN [ok |-> TRUE, claims |-> claims]
       ELSE [ok |-> \A i \in 1..n : moved(i) => ValidateGovernanceClaim(after[i]),
             claims |-> after]

(* A claimant fed twice must be fed the same claim.                        *)
FeedsAgree(incoming, additional) ==
    \A i \in DOMAIN incoming, j \in DOMAIN additional :
        incoming[i].claimant_id = additional[j].claimant_id => incoming[i] = additional[j]

Fresh(incoming, additional) ==
    SelectSeq(additional, LAMBDA c :
        \A j \in DOMAIN incoming : incoming[j].claimant_id # c.claimant_id)

(* merge_shared_claim_batches: the first arrival keeps its place.          *)
MergeSharedClaimBatches(incoming, additional) ==
    [ok |-> FeedsAgree(incoming, additional),
     claims |-> incoming \o Fresh(incoming, additional)]

(* merge_claim_batches: the batch comes out of a BTreeMap, by claimant.    *)
MergeClaimBatches(incoming, additional) ==
    [ok |-> FeedsAgree(incoming, additional),
     claims |-> SortSeq(incoming \o Fresh(incoming, additional),
                        LAMBDA a, b : a.claimant_id < b.claimant_id)]

(* Mutant: the first decision stands.                                      *)
MergeFinalDecisionFirst(left, right) == left

MergeFinalDecision(left, right) == IF DecisionRank(left) <= DecisionRank(right) THEN left ELSE right

(* record_final_decisions: an escalation is final only where the graph     *)
(* ends; decisions of several nodes are merged to the most restrictive.    *)
RecordFinalDecisions(final, decisions, hasOutgoing) ==
    LET record(f, d) ==
            IF d.decision = "escalate" /\ hasOutgoing THEN f
            ELSE Put(f, d.claimant_id,
                     IF d.claimant_id \in DOMAIN f
                     THEN MergeFinalDecision(f[d.claimant_id], d.decision) ELSE d.decision)
    IN FoldLeft(record, final, decisions)

(* One node of the traversal: its queue is taken, evaluated, recorded and  *)
(* what it escalates is queued along its edges.                            *)
VisitNode(graph, s, n) ==
    With(GetOr(s.queued, n, <<>>), LAMBDA claims :
    With(EvaluateNodeValidated(graph.nodes[n], claims), LAMBDA said :
    With(OutgoingEdges(graph, n), LAMBDA out :
    With(ForwardedClaims(claims, said.decisions), LAMBDA forwarded :
    LET feed(t, e) ==
            With(ApplyTransform(e, forwarded, said.decisions), LAMBDA moved :
            With(MergeSharedClaimBatches(GetOr(t.queued, e.to, <<>>), moved.claims), LAMBDA merged :
               CASE t.error # "none" -> t
                 [] t.error = "none" /\ ~moved.ok -> [t EXCEPT !.error = "claim"]
                 [] t.error = "none" /\ moved.ok /\ ~merged.ok -> [t EXCEPT !.error = "conflict"]
                 [] OTHER -> [t EXCEPT !.queued = Put(@, e.to, merged.claims)])) IN
       CASE s.error # "none" -> s
         [] s.error = "none" /\ ~said.ok -> [s EXCEPT !.error = "evaluation"]
         [] OTHER -> FoldLeft(feed,
                       [s EXCEPT !.queued = [m \in DOMAIN @ \ {n} |-> @[m]],
                                 !.final = RecordFinalDecisions(@, said.decisions, out # <<>>),
                                 !.nodes = Put(@, n, said.decisions)],
                       out)))))

(* traverse: an error code, the final decisions and each node's decisions. *)
Traverse(graph, claims) ==
    LET failure(code) == [error |-> code, final |-> EmptyMap, nodes |-> EmptyMap] IN
    With(FoldLeft(LAMBDA s, n : VisitNode(graph, s, n),
                  [error |-> "none", final |-> EmptyMap, nodes |-> EmptyMap,
                   queued |-> [n \in EntryNodes(graph) |-> claims]],
                  TopologicalOrder(graph)), LAMBDA end :
    With(DetectCycles(graph), LAMBDA cycles :
    With(ValidateGovernanceClaims(claims), LAMBDA valid :
       CASE ~valid -> failure("claims")
         [] valid /\ cycles # {} -> failure("cycle")
         [] valid /\ cycles = {} /\ EntryNodes(graph) = {} -> failure("no_entry")
         [] OTHER -> [error |-> end.error, final |-> end.final, nodes |-> end.nodes])))

-----------------------------------------------------------------------------
(* Mutant: a feed without claims queues nothing.                           *)
QueueFeedNonEmpty(queue, to, claims) == IF claims = <<>> THEN queue ELSE Put(queue, to, claims)

(* The target of an edge is queued whether or not there is a claim for it. *)
QueueFeed(queue, to, claims) == Put(queue, to, claims)

(* iterate_cycle.  An edge to a later node of the cycle feeds this round,  *)
(* any other the next; a round that feeds nothing back has converged, one  *)
(* that feeds back exactly the claims it started from never will.          *)
CycleVisit(graph, cycle, s, i) ==
    With(cycle[i], LAMBDA n :
    With(GetOr(s.now, n, <<>>), LAMBDA claims :
    With(EvaluateNode(graph.nodes[n], claims), LAMBDA said :
    With(ForwardedClaims(claims, said.decisions), LAMBDA forwarded :
    LET position(m) == CHOOSE j \in DOMAIN cycle : cycle[j] = m IN
    With(SelectSeq(OutgoingEdges(graph, n), LAMBDA e : \E j \in DOMAIN cycle : cycle[j] = e.to), LAMBDA inside :
    LET feed(t, e) ==
            With(ApplyTransform(e, forwarded, said.decisions), LAMBDA moved :
            With(IF position(e.to) > i THEN t.now ELSE t.next, LAMBDA queue :
            With(MergeClaimBatches(GetOr(queue, e.to, <<>>), moved.claims), LAMBDA merged :
            With(QueueFeed(queue, e.to, merged.claims), LAMBDA fed :
               CASE t.error -> t
                 [] ~t.error /\ (~moved.ok \/ ~merged.ok) -> [t EXCEPT !.error = TRUE]
                 [] OTHER -> IF position(e.to) > i THEN [t EXCEPT !.now = fed]
                             ELSE [t EXCEPT !.next = fed])))) IN
    LET record(f, d) == Put(f, d.claimant_id, d.decision) IN
       CASE s.error -> s
         [] ~s.error /\ ~said.ok -> [s EXCEPT !.error = TRUE]
         [] OTHER -> FoldLeft(feed, [s EXCEPT !.now = [m \in DOMAIN @ \ {n} |-> @[m]],
                                              !.decisions = FoldLeft(record, @, said.decisions)],
                              inside))))))

QueueMatchesBaseline(queued, entry, baseline) ==
    /\ DOMAIN queued = {entry}
    /\ Len(queued[entry]) = Len(baseline)
    /\ ToSet(queued[entry]) = ToSet(baseline)

RECURSIVE CycleRounds(_, _, _, _, _, _)
CycleRounds(graph, cycle, claims, queued, round, maxIterations) ==
    With(FoldLeft(LAMBDA t, i : CycleVisit(graph, cycle, t, i),
                  [now |-> queued, next |-> EmptyMap, decisions |-> EmptyMap, error |-> FALSE],
                  [i \in DOMAIN cycle |-> i]), LAMBDA s :
    LET result(c) == [error |-> FALSE, converged |-> c, iterations |-> round,
                      decisions |-> s.decisions] IN
       CASE s.error -> [error |-> TRUE, converged |-> FALSE, iterations |-> round,
                        decisions |-> EmptyMap]
         [] ~s.error /\ DOMAIN s.next = {} -> result(TRUE)
         [] ~s.error /\ DOMAIN s.next # {} /\
            (QueueMatchesBaseline(s.next, cycle[1], claims) \/ round = maxIterations) -> result(FALSE)
         [] OTHER -> CycleRounds(graph, cycle, claims, s.next, round + 1, maxIterations))

IterateCycle(graph, cycle, claims, maxIterations) ==
    CycleRounds(graph, cycle, claims, Put(EmptyMap, cycle[1], claims), 1, maxIterations)

(* check_cycle_admissibility: rejected when it does not converge or leaves *)
(* an escalation standing.                                                 *)
CheckCycleAdmissibility(graph, cycle, claims, maxIterations) ==
    With(IterateCycle(graph, cycle, claims, maxIterations), LAMBDA r :
       CASE r.error -> "error"
         [] ~r.error /\ (~r.converged \/ \E c \in DOMAIN r.decisions : r.decisions[c] = "escalate") -> "rejected"
         [] OTHER -> "admissible")
=============================================================================

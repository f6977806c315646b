------------------------------- MODULE Protocol -------------------------------
(***************************************************************************)
(* The governance protocol (src/protocol): a declaration is compiled,      *)
(* measured and activated; a live session certifies decisions, may drift   *)
(* and be revised, or be put under supervision.                            *)
(*                                                                         *)
(* Every transition takes the state by value, validates it, computes the   *)
(* next one and validates that; an operation that fails returns an error   *)
(* and no state, and its caller still has the old one (the CLI keeps it in *)
(* a file).  A failing call is therefore a step that changes nothing.      *)
(*                                                                         *)
(* A graph is its nodes, its edges and what each node decides.  The axiom  *)
(* checkers are the constant operator Violations: which properties a graph *)
(* violates on a batch of claims, each with its magnitude (which is 0 when *)
(* the counterexample changes no allocation).  A hash is a tagged value:   *)
(* equal contents, equal hashes, and nothing else.                         *)
(***************************************************************************)
EXTENDS Integers, Sequences, FiniteSets, Functions

CONSTANTS
    Properties,         \* GovernanceProperty
    Graphs,             \* the graphs that are declared or proposed
    SacrificeLists,     \* the lists of sacrifices that are declared
    Claims,             \* claims, with the claimant in field who
    Batches,            \* representative claims given to measure
    Synthetic,          \* synthetic_claims of a graph
    Violations(_, _),   \* evaluate_graph: property -> magnitude
    Reports,            \* alerts given to report_drift
    NodeIds,            \* identifiers of nodes
    RerouteIds,         \* __supervision_reroute__, then with suffixes 1, 2, ...
    MaxDecisions        \* bound on the decisions of a session

Acyclic(g) == \A S \in SUBSET g.nodes :
                 S # {} => \E n \in S : \A e \in g.edges : e[2] = n => e[1] \notin S

Traversable(g) == /\ g.nodes # {} /\ g.edges \subseteq g.nodes \X g.nodes
                  /\ Acyclic(g)

(* Cyclic graphs are refused (SkippedKernelCheck), and a graph that is     *)
(* built has no dangling edge.                                             *)
ASSUME ProtocolAssumption ==
    /\ \A g \in Graphs :
          /\ g \in [nodes : SUBSET NodeIds, edges : SUBSET (NodeIds \X NodeIds),
                    kind : [g.nodes -> STRING]]
          /\ Traversable(g)
    /\ \A s \in SacrificeLists : s \in Seq(Properties)
    /\ MaxDecisions \in Nat
    /\ RerouteIds \in Seq(NodeIds)
    /\ \E i \in DOMAIN RerouteIds : \A g \in Graphs : RerouteIds[i] \notin g.nodes

(* The checkers answer for every batch of claims, and only about           *)
(* properties there are.                                                   *)
ASSUME ViolationsAssumption ==
    /\ Batches \subseteq SUBSET Claims
    /\ \A g \in Graphs : \A batch \in (SUBSET Claims) \cup {Synthetic} :
          LET found == Violations(g, batch)
          IN  DOMAIN found \subseteq Properties /\ found \in [DOMAIN found -> Nat]

VARIABLES
    phase,         \* ProtocolState::name
    declaration,   \* GovernanceDeclaration: graph and sacrifices
    compiled,      \* CompiledGraph and its sacrifice certificates
    monitored,     \* MonitorSession.monitored_properties
    claims,        \* representative_claims
    ledger,        \* ProtocolLedger
    overlay,       \* SupervisoryIntervention.overlay_graph
    proposal,      \* Recompiling: proposed_graph and sacrifices
    shut           \* history: Pause or Deny, and no Rollback since

None == <<>>     \* an absent part of the state
session == <<declaration, compiled, monitored>>
protocolVars == <<phase, session, claims, ledger, overlay, proposal, shut>>

Hash(value) == <<"sha256", value>>
EmptyLedger == [certificates |-> <<>>, head |-> None, alerts |-> {}]

ProtocolInit ==
    /\ phase = "undeclared" /\ declaration = None /\ compiled = None
    /\ monitored = {} /\ claims = {} /\ ledger = EmptyLedger
    /\ overlay = None /\ proposal = None /\ shut = FALSE

-----------------------------------------------------------------------------
(* declare_with_metadata: a sacrifice that is not a violation is phantom.  *)

Declarable(g, sacrifices) == Range(sacrifices) \subseteq DOMAIN Violations(g, Synthetic)

Declare(g, sacrifices) ==
    /\ phase = "undeclared" /\ Declarable(g, sacrifices)
    /\ phase' = "declared" /\ declaration' = [graph |-> g, sacrifices |-> sacrifices]
    /\ UNCHANGED <<compiled, monitored, claims, ledger, overlay, proposal, shut>>

(* compile: no violation without a sacrifice, and by the validation of the *)
(* result no property sacrificed twice.  The certified bound is the        *)
(* magnitude; a sacrifice of what is not violated would be certified as 0. *)
Compilable(d) ==
    /\ DOMAIN Violations(d.graph, Synthetic) \subseteq Range(d.sacrifices)
    /\ IsInjective(d.sacrifices)

Certificates(d) ==
    [p \in Range(d.sacrifices) |->
        LET found == Violations(d.graph, Synthetic)
        IN  IF p \in DOMAIN found THEN found[p] ELSE 0]

Compiled(d) == [graph |-> d.graph, certs |-> Certificates(d), rule |-> Hash(d.graph)]

Compile ==
    /\ phase = "declared" /\ Compilable(declaration)
    /\ phase' = "compiled" /\ compiled' = Compiled(declaration)
    /\ UNCHANGED <<declaration, monitored, claims, ledger, overlay, proposal, shut>>

(* measure: the report goes out, the claims stay; activate: a new ledger,  *)
(* and everything that is not sacrificed is monitored.                     *)
Measure(batch) ==
    /\ phase = "compiled" /\ phase' = "measured" /\ claims' = batch
    /\ UNCHANGED <<session, ledger, overlay, proposal, shut>>

Activate ==
    /\ phase = "measured" /\ phase' = "live"
    /\ monitored' = Properties \ DOMAIN compiled.certs
    /\ ledger' = EmptyLedger
    /\ UNCHANGED <<declaration, compiled, claims, overlay, proposal, shut>>

-----------------------------------------------------------------------------
(* check_decision *)

MergeClaims(batch, claim) == {c \in batch : c.who # claim.who} \cup {claim}

Bound(p) == IF p \in DOMAIN compiled.certs THEN compiled.certs[p] ELSE 0

Alert(p, magnitude) ==
    [type |-> IF p \in DOMAIN compiled.certs THEN "bound_breach"
              ELSE "undeclared_violation",
     property |-> p, bound |-> Bound(p), magnitude |-> magnitude]

DetectDriftAlerts(batch) ==
    LET found == Violations(compiled.graph, batch)
    IN  {Alert(p, found[p]) : p \in {q \in DOMAIN found : found[q] > Bound(q)}}

(* Variant: the head stays where it was. *)
ExtendForgetsHead(claim, alerts) ==
    LET certificate == [claim |-> claim, rule |-> compiled.rule, prev |-> ledger.head]
    IN  [ledger EXCEPT !.certificates = Append(@, certificate), !.alerts = @ \cup alerts]

(* Variant: only the alerts of the last decision are kept. *)
ExtendDropsAlerts(claim, alerts) ==
    LET certificate == [claim |-> claim, rule |-> compiled.rule, prev |-> ledger.head]
    IN  [certificates |-> Append(ledger.certificates, certificate),
         head |-> Hash(certificate), alerts |-> alerts]

Extend(claim, alerts) ==
    LET certificate == [claim |-> claim, rule |-> compiled.rule, prev |-> ledger.head]
    IN  [certificates |-> Append(ledger.certificates, certificate),
         head |-> Hash(certificate), alerts |-> ledger.alerts \cup alerts]

(* Variant: the drift check still looks at the claims before this one. *)
CheckDecisionStale(claim) ==
    /\ phase = "live" /\ Len(ledger.certificates) < MaxDecisions
    /\ ledger' = Extend(claim, DetectDriftAlerts(claims))
    /\ claims' = MergeClaims(claims, claim)
    /\ UNCHANGED <<phase, session, overlay, proposal, shut>>

CheckDecision(claim) ==
    /\ phase = "live" /\ Len(ledger.certificates) < MaxDecisions
    /\ claims' = MergeClaims(claims, claim)
    /\ ledger' = Extend(claim, DetectDriftAlerts(claims'))
    /\ UNCHANGED <<phase, session, overlay, proposal, shut>>

-----------------------------------------------------------------------------
(* Drift and revision.  The session and its ledger end with the proposal.  *)

ReportDrift(alert) ==
    /\ phase = "live" /\ phase' = "drifted"
    /\ ledger' = [ledger EXCEPT !.alerts = @ \cup {alert}]
    /\ UNCHANGED <<session, claims, overlay, proposal, shut>>

ProposeRevision(g, sacrifices) ==
    /\ phase = "drifted" /\ IsInjective(sacrifices) /\ phase' = "recompiling"
    /\ proposal' = [graph |-> g, sacrifices |-> sacrifices]
    /\ compiled' = None /\ monitored' = {} /\ claims' = {} /\ ledger' = EmptyLedger
    /\ UNCHANGED <<declaration, overlay, shut>>

(* Variant: the proposal is compiled without being declared. *)
RecompileUndeclared ==
    /\ phase = "recompiling" /\ Compilable(proposal) /\ phase' = "compiled"
    /\ declaration' = proposal /\ compiled' = Compiled(proposal) /\ proposal' = None
    /\ UNCHANGED <<monitored, claims, ledger, overlay, shut>>

Recompile ==
    /\ phase = "recompiling"
    /\ Declarable(proposal.graph, proposal.sacrifices) /\ Compilable(proposal)
    /\ phase' = "compiled" /\ declaration' = proposal
    /\ compiled' = Compiled(proposal) /\ proposal' = None
    /\ UNCHANGED <<monitored, claims, ledger, overlay, shut>>

-----------------------------------------------------------------------------
(* supervise: the overlay starts as the compiled graph and each action     *)
(* rewrites what the actions before it left.  Sandbox and Reroute take     *)
(* node identifiers, all of which must exist.                              *)

Entries(g) == {n \in g.nodes : \A e \in g.edges : e[2] # n}

(* Variant: only the nodes where claims enter are rewritten. *)
RewriteEntries(g, decision) ==
    [g EXCEPT !.kind = [n \in g.nodes |-> IF n \in Entries(g) THEN decision ELSE g.kind[n]]]

RewriteAsConstant(g, decision) == [g EXCEPT !.kind = [n \in g.nodes |-> decision]]

Retain(g, keep) ==
    [nodes |-> keep, edges |-> {e \in g.edges : e[1] \in keep /\ e[2] \in keep},
     kind |-> [n \in keep |-> g.kind[n]]]

SandboxGraph(g, ids) == Retain(g, IF ids = {} THEN Entries(g) ELSE ids)

DegradeGraph(g) ==
    [g EXCEPT !.kind = [n \in g.nodes |-> IF g.kind[n] = "rule" THEN "degraded" ELSE g.kind[n]]]

NextAvailableNodeId(nodes) ==
    RerouteIds[CHOOSE i \in DOMAIN RerouteIds :
                 RerouteIds[i] \notin nodes /\ \A j \in 1 .. i - 1 : RerouteIds[j] \in nodes]

DownstreamTargets(g) == {e[2] : e \in {f \in g.edges : f[1] \in Entries(g)}} \ Entries(g)

RerouteTargets(g, ids) ==
    IF ids \ Entries(g) # {} THEN ids \ Entries(g)
    ELSE IF DownstreamTargets(g) # {} THEN DownstreamTargets(g)
    ELSE g.nodes \ Entries(g)

AddReroute(g, targets) ==
    LET id == NextAvailableNodeId(g.nodes)
    IN  [nodes |-> g.nodes \cup {id}, edges |-> g.edges \cup ({id} \X targets),
         kind |-> [n \in g.nodes \cup {id} |-> IF n = id THEN "Escalate" ELSE g.kind[n]]]

RerouteGraph(g, ids) ==
    IF RerouteTargets(g, ids) = {} THEN RewriteAsConstant(g, "Deny")
    ELSE AddReroute(Retain(g, g.nodes \ Entries(g)), RerouteTargets(g, ids))

ApplySupervisoryAction(action, g, ids) ==
    CASE action = "Pause" -> RewriteAsConstant(g, "Escalate")
      [] action \in {"Deny", "Stop"} -> RewriteAsConstant(g, "Deny")
      [] action = "Sandbox" -> SandboxGraph(g, ids)
      [] action = "Degrade" -> DegradeGraph(g)
      [] action = "Rollback" -> declaration.graph
      [] action = "Reroute" -> RerouteGraph(g, ids)

SupervisoryActions == {"Pause", "Deny", "Sandbox", "Degrade", "Rollback", "Reroute", "Stop"}

Supervise(action, ids) ==
    LET before == IF phase = "live" THEN compiled.graph ELSE overlay
    IN  /\ phase \in {"live", "supervised"} /\ phase' = "supervised"
        /\ ids \subseteq before.nodes
        /\ action \in {"Sandbox", "Reroute"} \/ ids = {}
        /\ overlay' = ApplySupervisoryAction(action, before, ids)
        /\ shut' = CASE action \in {"Pause", "Deny"} -> TRUE
                     [] action = "Rollback" -> FALSE
                     [] OTHER -> shut
        /\ UNCHANGED <<session, claims, ledger, proposal>>

-----------------------------------------------------------------------------
ProtocolNext ==
    \/ \E g \in Graphs, s \in SacrificeLists : Declare(g, s) \/ ProposeRevision(g, s)
    \/ Compile \/ Activate \/ Recompile
    \/ \E batch \in Batches : Measure(batch)
    \/ \E claim \in Claims : CheckDecision(claim)
    \/ \E alert \in Reports : ReportDrift(alert)
    \/ \E action \in SupervisoryActions, ids \in SUBSET NodeIds : Supervise(action, ids)

ProtocolSpec == ProtocolInit /\ [][ProtocolNext]_protocolVars

-----------------------------------------------------------------------------
(* Properties. *)

InSession == phase \in {"live", "supervised", "drifted"}

(* Type correctness of ProtocolState: each phase has exactly the parts its *)
(* variant of the enumeration carries.                                     *)
ProtocolTypeOK ==
    /\ phase \in {"undeclared", "declared", "compiled", "measured", "live",
                  "supervised", "drifted", "recompiling"}
    /\ phase \in {"undeclared", "declared", "recompiling"} <=> compiled = None
    /\ phase = "undeclared" <=> declaration = None
    /\ phase = "supervised" <=> overlay # None
    /\ phase = "recompiling" <=> proposal # None
    /\ monitored \subseteq Properties /\ claims \subseteq Claims
    /\ Len(ledger.certificates) <= MaxDecisions /\ shut \in BOOLEAN

(* What is sacrificed is exactly what is violated, with the magnitude of   *)
(* the violation as its bound, and everything else is monitored, however   *)
(* often the protocol has drifted and been revised since it was declared   *)
(* (PhantomSacrifice, UnsacrificedViolations, monitoring coverage).        *)
SacrificesAreExact ==
    /\ compiled # None =>
         /\ compiled.graph = declaration.graph
         /\ compiled.certs = Violations(compiled.graph, Synthetic)
    /\ InSession => monitored \cup DOMAIN compiled.certs = Properties

(* The certificates of a session form one chain from its first decision to *)
(* its head, and all of them were issued under the rule that is compiled   *)
(* now: none is carried over from before a revision.                       *)
CertificatesChain ==
    LET chain == ledger.certificates
    IN  /\ ledger.head = IF chain = <<>> THEN None ELSE Hash(chain[Len(chain)])
        /\ \A i \in DOMAIN chain :
              /\ chain[i].rule = compiled.rule
              /\ chain[i].prev = IF i = 1 THEN None ELSE Hash(chain[i - 1])

(* Once a session has made a decision, the ledger holds an alert for every *)
(* property whose violation on the present representative claims exceeds   *)
(* what was certified: claims that arrive one at a time and replace each   *)
(* other do not get past detect_drift_alerts.                              *)
DriftIsReported ==
    InSession /\ ledger.certificates # <<>> =>
       \A p \in DOMAIN Violations(compiled.graph, claims) :
          Violations(compiled.graph, claims)[p] > Bound(p) =>
             \E a \in ledger.alerts :
                a.property = p /\ a.magnitude = Violations(compiled.graph, claims)[p]

(* Pause and Deny close the governed graph: whatever is sandboxed,         *)
(* degraded, rerouted or stopped afterwards, no node of the overlay can    *)
(* permit a claim until a Rollback restores the declared graph.  Stop      *)
(* rewrites the graph as Deny does, but its postcondition                  *)
(* PermanentlyShutdown (state.rs) promises more than a graph a Rollback    *)
(* reopens; nothing is stated of it here.                                  *)
ShutStaysShut ==
    phase = "supervised" /\ shut =>
       \A n \in overlay.nodes : overlay.kind[n] \in {"Deny", "Escalate"}

(* Any sequence of supervisory actions leaves a graph that can still be    *)
(* traversed: it has nodes, no dangling edge and no cycle, although each   *)
(* action removes nodes and Reroute adds one.                              *)
OverlayTraversable == phase = "supervised" => Traversable(overlay)

(* Within a session, from activation until a revision is proposed, the     *)
(* compiled rule does not change and the ledger only grows, under          *)
(* supervision and through drift.                                          *)
SessionOnlyGrows ==
    [][ InSession /\ InSession' =>
          /\ compiled' = compiled
          /\ ledger.alerts \subseteq ledger'.alerts
          /\ \E more \in 0 .. MaxDecisions :
                /\ Len(ledger'.certificates) = Len(ledger.certificates) + more
                /\ SubSeq(ledger'.certificates, 1, Len(ledger.certificates))
                     = ledger.certificates ]_protocolVars

(* A session is always a state that the operations of the next step take:  *)
(* its phase and its parts agree, and its certificates form one chain over *)
(* decisions, drift, revision and supervision (DecisionCertificate,        *)
(* SessionLedger).                                                         *)
SessionIsWellFormed == ProtocolTypeOK /\ CertificatesChain

(* No sequence of supervisory actions breaks the graph they act on, and    *)
(* what a Pause or a Deny closed stays closed until a Rollback             *)
(* (apply_supervisory_action).                                             *)
SupervisionIsSafe == ShutStaysShut /\ OverlayTraversable
=============================================================================

--------------------------- MODULE ProtocolProofs ---------------------------
(***************************************************************************)
(* Proofs about the governance protocol, for all graphs, claims, sacrifice *)
(* lists and whatever the axiom checkers answer.                           *)
(***************************************************************************)
EXTENDS Protocol, TLAPS, SequenceTheorems, NaturalsInduction, WellFoundedInduction

-----------------------------------------------------------------------------
(* Graphs under supervision.                                               *)

IsGraph(g) ==
    /\ g = [nodes |-> g.nodes, edges |-> g.edges, kind |-> g.kind]
    /\ Traversable(g)

(* The nodes that supervision has added to the declared graph base are     *)
(* entries: nothing leads to them.                                         *)
AddedAreEntries(g, base) == g.nodes \ base.nodes \subseteq Entries(g)

Shut(g) == \A n \in g.nodes : g.kind[n] \in {"Deny", "Escalate"}

(* A graph that is declared is a graph.                                    *)
LEMMA DeclaredIsGraph == \A g \in Graphs : IsGraph(g) /\ AddedAreEntries(g, g)
BY ProtocolAssumption DEF IsGraph, AddedAreEntries

(* A graph without cycles has an entry.                                    *)
LEMMA EntriesExist ==
    ASSUME NEW g, Traversable(g)
    PROVE  Entries(g) # {} /\ Entries(g) \subseteq g.nodes
<1>1. PICK n \in g.nodes : \A e \in g.edges : e[2] = n => e[1] \notin g.nodes
  BY DEF Traversable, Acyclic
<1>2. \A e \in g.edges : e[1] \in g.nodes
  BY DEF Traversable
<1>3. n \in Entries(g)
  BY <1>1, <1>2 DEF Entries
<1>4. QED
  BY <1>3 DEF Entries

(* retain: what is kept of a graph is a graph, and an added node that is   *)
(* kept is still an entry.                                                 *)
LEMMA RetainIsGraph ==
    ASSUME NEW g, NEW base, NEW keep \in SUBSET g.nodes, keep # {},
           IsGraph(g), AddedAreEntries(g, base)
    PROVE  /\ IsGraph(Retain(g, keep)) /\ AddedAreEntries(Retain(g, keep), base)
           /\ Retain(g, keep).nodes = keep
           /\ Shut(g) => Shut(Retain(g, keep))
<1> DEFINE h == Retain(g, keep)
<1>1. /\ h.nodes = keep /\ h.edges = {e \in g.edges : e[1] \in keep /\ e[2] \in keep}
      /\ h.kind = [n \in keep |-> g.kind[n]]
      /\ h = [nodes |-> h.nodes, edges |-> h.edges, kind |-> h.kind]
  BY DEF Retain
<1>3. h.edges \subseteq h.nodes \X h.nodes
  BY <1>1 DEF IsGraph, Traversable
<1>4. Acyclic(h)
  <2> SUFFICES ASSUME NEW S \in SUBSET h.nodes, S # {}
               PROVE  \E n \in S : \A e \in h.edges : e[2] = n => e[1] \notin S
    BY DEF Acyclic
  <2>1. S \in SUBSET g.nodes
    BY <1>1
  <2>2. QED
    BY <2>1, <1>1 DEF IsGraph, Traversable, Acyclic
<1>5. IsGraph(h)
  BY <1>1, <1>3, <1>4 DEF IsGraph, Traversable
<1>6. AddedAreEntries(h, base)
  BY <1>1 DEF AddedAreEntries, Entries
<1>7. Shut(g) => Shut(h)
  BY <1>1 DEF Shut
<1>8. QED
  BY <1>1, <1>5, <1>6, <1>7

(* An action that only changes what nodes decide leaves a graph.           *)
LEMMA RewriteIsGraph ==
    ASSUME NEW g, NEW base, NEW k,
           IsGraph(g), AddedAreEntries(g, base)
    PROVE  /\ IsGraph([g EXCEPT !.kind = k]) /\ AddedAreEntries([g EXCEPT !.kind = k], base)
           /\ (\A n \in g.nodes : k[n] \in {"Deny", "Escalate"}) => Shut([g EXCEPT !.kind = k])
<1> DEFINE h == [g EXCEPT !.kind = k]
<1>1. /\ h.nodes = g.nodes /\ h.edges = g.edges /\ h.kind = k
      /\ h = [nodes |-> h.nodes, edges |-> h.edges, kind |-> h.kind]
  BY DEF IsGraph
<1>2. Traversable(h)
  BY <1>1 DEF IsGraph, Traversable, Acyclic
<1>3. IsGraph(h)
  BY <1>1, <1>2 DEF IsGraph
<1>4. AddedAreEntries(h, base)
  BY <1>1 DEF AddedAreEntries, Entries
<1>5. QED
  BY <1>1, <1>3, <1>4 DEF Shut

LEMMA ConstantIsShut ==
    ASSUME NEW g, NEW base, NEW d \in {"Deny", "Escalate"},
           IsGraph(g), AddedAreEntries(g, base)
    PROVE  /\ IsGraph(RewriteAsConstant(g, d)) /\ AddedAreEntries(RewriteAsConstant(g, d), base)
           /\ Shut(RewriteAsConstant(g, d))
<1> DEFINE k == [n \in g.nodes |-> d]
<1>1. RewriteAsConstant(g, d) = [g EXCEPT !.kind = k] /\ \A n \in g.nodes : k[n] \in {"Deny", "Escalate"}
  BY DEF RewriteAsConstant
<1> HIDE DEF k
<1>2. QED
  BY <1>1, RewriteIsGraph

(* The first free identifier: there is one as soon as the nodes are those  *)
(* of a declared graph.                                                    *)
LEMMA NextAvailableIsFree ==
    ASSUME NEW base \in Graphs, NEW nodes \in SUBSET base.nodes
    PROVE  NextAvailableNodeId(nodes) \notin nodes
<1> DEFINE free == {i \in DOMAIN RerouteIds : RerouteIds[i] \notin nodes}
<1>1. free # {} /\ free \subseteq Nat /\ free \subseteq DOMAIN RerouteIds
  BY ProtocolAssumption
<1>2. PICK i \in free : \A j \in free : ~(<<j, i>> \in OpToRel(<, Nat))
  BY <1>1, WFMin, NatLessThanWellFounded
<1>3. \A j \in free : ~(j < i)
  BY <1>1, <1>2 DEF OpToRel
<1>4. \A j \in 1 .. i - 1 : RerouteIds[j] \in nodes
  <2> SUFFICES ASSUME NEW j \in 1 .. i - 1 PROVE RerouteIds[j] \in nodes
    OBVIOUS
  <2>1. i \in 1 .. Len(RerouteIds) /\ Len(RerouteIds) \in Nat
    BY <1>1, ProtocolAssumption
  <2>2. j \in DOMAIN RerouteIds /\ j < i
    BY <2>1, ProtocolAssumption
  <2>3. QED
    BY <2>2, <1>3
<1>5. \E k \in DOMAIN RerouteIds :
         RerouteIds[k] \notin nodes /\ \A j \in 1 .. k - 1 : RerouteIds[j] \in nodes
  BY <1>1, <1>4
<1>6. QED
  BY <1>5 DEF NextAvailableNodeId

(* The reroute node goes before its targets and closes no cycle.           *)
LEMMA AddRerouteIsGraph ==
    ASSUME NEW base \in Graphs, NEW g, IsGraph(g), g.nodes \subseteq base.nodes,
           NEW targets \in SUBSET g.nodes
    PROVE  /\ IsGraph(AddReroute(g, targets)) /\ AddedAreEntries(AddReroute(g, targets), base)
           /\ Shut(g) => Shut(AddReroute(g, targets))
<1> DEFINE id == NextAvailableNodeId(g.nodes)
           h == AddReroute(g, targets)
<1>1. id \notin g.nodes
  BY NextAvailableIsFree
<1>2. /\ h.nodes = g.nodes \cup {id} /\ h.edges = g.edges \cup ({id} \X targets)
      /\ h.kind = [n \in g.nodes \cup {id} |-> IF n = id THEN "Escalate" ELSE g.kind[n]]
      /\ h = [nodes |-> h.nodes, edges |-> h.edges, kind |-> h.kind]
  BY DEF AddReroute
<1> HIDE DEF id, h
<1>3. \A e \in h.edges : e[1] \in h.nodes /\ e[2] \in g.nodes
  BY <1>2 DEF IsGraph, Traversable
<1>4. h.edges \subseteq h.nodes \X h.nodes
  BY <1>2 DEF IsGraph, Traversable
<1>5. Acyclic(h)
  <2> SUFFICES ASSUME NEW S \in SUBSET h.nodes, S # {}
               PROVE  \E n \in S : \A e \in h.edges : e[2] = n => e[1] \notin S
    BY DEF Acyclic
  <2>1. CASE id \in S
    BY <2>1, <1>1, <1>3
  <2>2. CASE id \notin S
    <3>1. S \in SUBSET g.nodes
      BY <2>2, <1>2
    <3>2. PICK n \in S : \A e \in g.edges : e[2] = n => e[1] \notin S
      BY <3>1 DEF IsGraph, Traversable, Acyclic
    <3>3. \A e \in h.edges : e \in g.edges \/ e[1] = id
      BY <1>2
    <3>4. QED
      BY <3>2, <3>3, <2>2
  <2>3. QED
    BY <2>1, <2>2
<1>7. IsGraph(h)
  BY <1>2, <1>4, <1>5 DEF IsGraph, Traversable
<1>8. AddedAreEntries(h, base)
  BY <1>1, <1>2, <1>3 DEF AddedAreEntries, Entries
<1>9. Shut(g) => Shut(h)
  BY <1>2 DEF Shut
<1>10. QED
  BY <1>7, <1>8, <1>9 DEF h

(* RerouteTargets: nodes that stay when the entries are removed.           *)
LEMMA TargetsStay ==
    ASSUME NEW g, IsGraph(g), NEW ids \in SUBSET g.nodes
    PROVE  RerouteTargets(g, ids) \subseteq g.nodes \ Entries(g)
<1>1. \A e \in g.edges : e[2] \in g.nodes
  BY DEF IsGraph, Traversable
<1>2. DownstreamTargets(g) \subseteq g.nodes \ Entries(g)
  BY <1>1 DEF DownstreamTargets
<1>3. QED
  BY <1>2 DEF RerouteTargets

(* Every supervisory action makes a graph of a graph, adds only entries,   *)
(* and keeps a shut graph shut, unless it is a Rollback.                   *)
LEMMA ActionIsGraph ==
    ASSUME NEW base \in Graphs, base = declaration.graph,
           NEW g, IsGraph(g), AddedAreEntries(g, base),
           NEW action \in SupervisoryActions, NEW ids \in SUBSET g.nodes
    PROVE  LET h == ApplySupervisoryAction(action, g, ids)
           IN  /\ IsGraph(h) /\ AddedAreEntries(h, base)
               /\ action \in {"Pause", "Deny", "Stop"} => Shut(h)
               /\ Shut(g) /\ action # "Rollback" => Shut(h)
<1> DEFINE h == ApplySupervisoryAction(action, g, ids)
<1>1. CASE action \in {"Pause", "Deny", "Stop"}
  <2>1. PICK d \in {"Deny", "Escalate"} : h = RewriteAsConstant(g, d)
    BY <1>1 DEF ApplySupervisoryAction
  <2>2. QED
    BY <1>1, <2>1, ConstantIsShut
<1>2. CASE action = "Sandbox"
  <2>1. h = Retain(g, IF ids = {} THEN Entries(g) ELSE ids)
    BY <1>2 DEF ApplySupervisoryAction, SandboxGraph
  <2>2. (IF ids = {} THEN Entries(g) ELSE ids) \in (SUBSET g.nodes) \ {{}}
    BY EntriesExist DEF IsGraph
  <2>3. QED
    BY <1>2, <2>1, <2>2, RetainIsGraph
<1>3. CASE action = "Degrade"
  <2> DEFINE k == [n \in g.nodes |-> IF g.kind[n] = "rule" THEN "degraded" ELSE g.kind[n]]
  <2>1. h = [g EXCEPT !.kind = k]
    BY <1>3 DEF ApplySupervisoryAction, DegradeGraph
  <2>2. Shut(g) => \A n \in g.nodes : k[n] \in {"Deny", "Escalate"}
    BY DEF Shut
  <2> HIDE DEF k
  <2>3. QED
    BY <1>3, <2>1, <2>2, RewriteIsGraph
<1>4. CASE action = "Rollback"
  <2>1. h = base
    BY <1>4 DEF ApplySupervisoryAction
  <2>2. QED
    BY <1>4, <2>1, DeclaredIsGraph
<1>5. CASE action = "Reroute"
  <2> DEFINE targets == RerouteTargets(g, ids)
             rest == Retain(g, g.nodes \ Entries(g))
  <2>1. h = IF targets = {} THEN RewriteAsConstant(g, "Deny") ELSE AddReroute(rest, targets)
    BY <1>5 DEF ApplySupervisoryAction, RerouteGraph
  <2>2. CASE targets = {}
    BY <1>5, <2>1, <2>2, ConstantIsShut
  <2>3. CASE targets # {}
    <3>1. g.nodes \ Entries(g) # {} /\ targets \subseteq g.nodes \ Entries(g)
      BY <2>3, TargetsStay
    <3>2. /\ IsGraph(rest) /\ rest.nodes = g.nodes \ Entries(g)
          /\ Shut(g) => Shut(rest)
      BY <3>1, RetainIsGraph
    <3>3. rest.nodes \subseteq base.nodes /\ targets \subseteq rest.nodes
      BY <3>1, <3>2 DEF AddedAreEntries
    <3> HIDE DEF targets, rest
    <3>4. QED
      BY <1>5, <2>1, <2>3, <3>2, <3>3, AddRerouteIsGraph
  <2>4. QED
    BY <2>2, <2>3
<1>6. QED
  BY <1>1, <1>2, <1>3, <1>4, <1>5 DEF SupervisoryActions
-----------------------------------------------------------------------------
(* The inductive invariant.                                                *)

Declarations == [graph : Graphs, sacrifices : SacrificeLists]

(* The validated parts of a state, and where its sacrifices come from: the *)
(* synthetic claims, on which they are exactly the violations.             *)
PartsInv ==
    /\ phase # "undeclared" => declaration \in Declarations
    /\ phase = "declared" => Declarable(declaration.graph, declaration.sacrifices)
    /\ phase = "recompiling" => proposal \in Declarations
    /\ compiled # None => /\ compiled = Compiled(declaration)
                          /\ compiled.certs = Violations(declaration.graph, Synthetic)
    /\ InSession => monitored = Properties \ DOMAIN compiled.certs

(* The ledger of a session is empty before and after it.                   *)
LedgerInv ==
    /\ ledger = [certificates |-> ledger.certificates, head |-> ledger.head,
                 alerts |-> ledger.alerts]
    /\ ledger.certificates \in Seq(Range(ledger.certificates))
    /\ ~InSession => ledger = EmptyLedger

OverlayInv ==
    /\ phase = "supervised" =>
         /\ IsGraph(overlay) /\ AddedAreEntries(overlay, declaration.graph)
         /\ shut => Shut(overlay)
    /\ phase # "supervised" => ~shut

ProtocolInv ==
    /\ ProtocolTypeOK /\ PartsInv /\ LedgerInv /\ OverlayInv
    /\ CertificatesChain /\ DriftIsReported

(* What is declarable and compilable is certified with what is violated.   *)
LEMMA CertificatesAreViolations ==
    ASSUME NEW d \in Declarations, Declarable(d.graph, d.sacrifices), Compilable(d)
    PROVE  /\ Compiled(d).certs = Violations(d.graph, Synthetic)
           /\ Compiled(d).graph = d.graph /\ Compiled(d).rule = Hash(d.graph)
           /\ DOMAIN Compiled(d).certs \subseteq Properties
           /\ Compiled(d) # None
<1> DEFINE found == Violations(d.graph, Synthetic)
<1>1. DOMAIN found \subseteq Properties /\ found \in [DOMAIN found -> Nat]
  BY ViolationsAssumption DEF Declarations
<1>2. Range(d.sacrifices) = DOMAIN found
  BY DEF Declarable, Compilable
<1> HIDE DEF found
<1>3. [p \in Range(d.sacrifices) |-> IF p \in DOMAIN found THEN found[p] ELSE 0] = found
  BY <1>1, <1>2
<1>4. Certificates(d) = found
  BY <1>3 DEF Certificates, found
<1>5. Compiled(d) # None
  BY DEF Compiled, None
<1>6. QED
  BY <1>1, <1>4, <1>5 DEF Compiled, found

(* A declaration is not an absent part.                                    *)
LEMMA DeclarationsArePresent == \A d \in Declarations : d # None
BY DEF Declarations, None

LEMMA EmptyLedgerInv ==
    /\ EmptyLedger.certificates = <<>> /\ EmptyLedger.head = None /\ EmptyLedger.alerts = {}
    /\ EmptyLedger = [certificates |-> EmptyLedger.certificates, head |-> EmptyLedger.head,
                      alerts |-> EmptyLedger.alerts]
    /\ EmptyLedger.certificates \in Seq(Range(EmptyLedger.certificates))
    /\ Len(EmptyLedger.certificates) = 0 /\ DOMAIN EmptyLedger.certificates = {}
BY DEF EmptyLedger

(* Init establishes the invariant.                                         *)
LEMMA ProtocolInitInv == ProtocolInit => ProtocolInv
<1> SUFFICES ASSUME ProtocolInit PROVE ProtocolInv
  OBVIOUS
<1>1. ProtocolTypeOK
  <2>1. shut \in BOOLEAN
    BY DEF ProtocolInit
  <2>2. Len(ledger.certificates) <= MaxDecisions
    BY EmptyLedgerInv, ProtocolAssumption DEF ProtocolInit
  <2>3. QED
    BY <2>1, <2>2 DEF ProtocolInit, ProtocolTypeOK
<1>2. PartsInv /\ OverlayInv /\ DriftIsReported
  BY DEF ProtocolInit, PartsInv, OverlayInv, DriftIsReported, InSession
<1>3. LedgerInv /\ CertificatesChain
  BY EmptyLedgerInv DEF ProtocolInit, LedgerInv, CertificatesChain
<1>4. QED
  BY <1>1, <1>2, <1>3 DEF ProtocolInv

(* Declaring.                                                              *)
LEMMA DeclareInv ==
    ASSUME ProtocolInv, NEW g \in Graphs, NEW s \in SacrificeLists, Declare(g, s)
    PROVE  ProtocolInv'
<1>1. declaration' \in Declarations /\ declaration' # None
  BY DeclarationsArePresent DEF Declare, Declarations
<1>2. ProtocolTypeOK'
  BY <1>1 DEF ProtocolInv, ProtocolTypeOK, Declare
<1>3. compiled = None /\ ~InSession
  BY DEF ProtocolInv, ProtocolTypeOK, Declare, InSession
<1>4. PartsInv'
  BY <1>1, <1>3 DEF Declare, PartsInv, InSession
<1>5. LedgerInv' /\ OverlayInv' /\ DriftIsReported'
  BY DEF ProtocolInv, Declare, LedgerInv, OverlayInv, DriftIsReported, InSession
<1>6. CertificatesChain'
  BY DEF ProtocolInv, Declare, CertificatesChain
<1>7. QED
  BY <1>2, <1>4, <1>5, <1>6 DEF ProtocolInv

(* Compiling a declaration.                                                *)
LEMMA CompileInv ==
    ASSUME ProtocolInv, Compile
    PROVE  ProtocolInv'
<1>1. declaration \in Declarations /\ Declarable(declaration.graph, declaration.sacrifices)
  BY DEF ProtocolInv, PartsInv, Compile
<1>2. /\ compiled' = Compiled(declaration) /\ compiled' # None
      /\ compiled'.certs = Violations(declaration.graph, Synthetic)
  BY <1>1, CertificatesAreViolations DEF Compile
<1>3. ProtocolTypeOK'
  BY <1>2 DEF ProtocolInv, ProtocolTypeOK, Compile
<1>4. PartsInv'
  BY <1>1, <1>2 DEF Compile, PartsInv, InSession
<1>5. LedgerInv' /\ OverlayInv' /\ DriftIsReported' /\ ledger' = EmptyLedger
  BY DEF ProtocolInv, Compile, LedgerInv, OverlayInv, DriftIsReported, InSession
<1>6. CertificatesChain'
  BY <1>5, EmptyLedgerInv DEF CertificatesChain
<1>7. QED
  BY <1>3, <1>4, <1>5, <1>6 DEF ProtocolInv

(* Measuring and activating.                                               *)
LEMMA MeasureInv ==
    ASSUME ProtocolInv, NEW batch \in Batches, Measure(batch)
    PROVE  ProtocolInv'
<1>1. ProtocolTypeOK'
  BY ViolationsAssumption DEF ProtocolInv, ProtocolTypeOK, Measure, session
<1>2. PartsInv'
  BY DEF ProtocolInv, PartsInv, Measure, session, InSession
<1>3. LedgerInv' /\ OverlayInv' /\ DriftIsReported' /\ ledger' = EmptyLedger
  BY DEF ProtocolInv, Measure, session, LedgerInv, OverlayInv, DriftIsReported, InSession
<1>4. CertificatesChain'
  BY <1>3, EmptyLedgerInv DEF CertificatesChain
<1>5. QED
  BY <1>1, <1>2, <1>3, <1>4 DEF ProtocolInv

LEMMA ActivateInv ==
    ASSUME ProtocolInv, Activate
    PROVE  ProtocolInv'
<1>1. ProtocolTypeOK'
  BY EmptyLedgerInv, ProtocolAssumption DEF ProtocolInv, ProtocolTypeOK, Activate
<1>2. PartsInv'
  BY DEF ProtocolInv, PartsInv, Activate, InSession
<1>3. LedgerInv' /\ OverlayInv' /\ CertificatesChain' /\ DriftIsReported'
  BY EmptyLedgerInv
     DEF ProtocolInv, Activate, LedgerInv, OverlayInv, DriftIsReported, InSession, CertificatesChain
<1>4. QED
  BY <1>1, <1>2, <1>3 DEF ProtocolInv

(* Proposing a revision ends the session and its ledger.                   *)
LEMMA ProposeRevisionInv ==
    ASSUME ProtocolInv, NEW g \in Graphs, NEW s \in SacrificeLists, ProposeRevision(g, s)
    PROVE  ProtocolInv'
<1>1. proposal' \in Declarations /\ proposal' # None
  BY DeclarationsArePresent DEF ProposeRevision, Declarations
<1>2. ProtocolTypeOK'
  BY <1>1, EmptyLedgerInv, ProtocolAssumption DEF ProtocolInv, ProtocolTypeOK, ProposeRevision
<1>3. PartsInv'
  BY <1>1 DEF ProtocolInv, ProposeRevision, PartsInv, InSession
<1>4. LedgerInv' /\ OverlayInv' /\ CertificatesChain' /\ DriftIsReported'
  BY EmptyLedgerInv
     DEF ProtocolInv, ProposeRevision, LedgerInv, OverlayInv, DriftIsReported, InSession, CertificatesChain
<1>5. QED
  BY <1>2, <1>3, <1>4 DEF ProtocolInv

LEMMA RecompileInv ==
    ASSUME ProtocolInv, Recompile
    PROVE  ProtocolInv'
<1>1. proposal \in Declarations
  BY DEF ProtocolInv, PartsInv, Recompile
<1>2. /\ compiled' = Compiled(proposal) /\ compiled' # None /\ proposal # None
      /\ compiled'.certs = Violations(proposal.graph, Synthetic)
  BY <1>1, CertificatesAreViolations, DeclarationsArePresent DEF Recompile
<1>3. ProtocolTypeOK'
  BY <1>2 DEF ProtocolInv, ProtocolTypeOK, Recompile
<1>4. PartsInv'
  BY <1>1, <1>2 DEF Recompile, PartsInv, InSession
<1>5. LedgerInv' /\ OverlayInv' /\ DriftIsReported' /\ ledger' = EmptyLedger
  BY DEF ProtocolInv, Recompile, LedgerInv, OverlayInv, DriftIsReported, InSession
<1>6. CertificatesChain'
  BY <1>5, EmptyLedgerInv DEF CertificatesChain
<1>7. QED
  BY <1>3, <1>4, <1>5, <1>6 DEF ProtocolInv

(* What a sequence becomes when a certificate is appended.                 *)
LEMMA AppendedChain ==
    ASSUME NEW chain, chain \in Seq(Range(chain)), NEW c
    PROVE  /\ Append(chain, c) \in Seq(Range(Append(chain, c)))
           /\ Len(Append(chain, c)) = Len(chain) + 1 /\ Len(chain) \in Nat
           /\ DOMAIN Append(chain, c) = 1 .. Len(chain) + 1 /\ DOMAIN chain = 1 .. Len(chain)
           /\ Append(chain, c)[Len(chain) + 1] = c
           /\ \A i \in 1 .. Len(chain) : Append(chain, c)[i] = chain[i]
           /\ Append(chain, c) # <<>>
           /\ SubSeq(Append(chain, c), 1, Len(chain)) = chain
<1> DEFINE S == Range(chain) \cup {c}
           longer == Append(chain, c)
<1>1. chain \in Seq(S) /\ c \in S
  <2>1. \A i \in 1 .. Len(chain) : chain[i] \in Range(chain)
    BY DEF Range
  <2>2. QED
    BY <2>1
<1>2. /\ longer \in Seq(S) /\ Len(longer) = Len(chain) + 1 /\ Len(chain) \in Nat
      /\ DOMAIN longer = 1 .. Len(chain) + 1 /\ DOMAIN chain = 1 .. Len(chain)
      /\ longer[Len(chain) + 1] = c
      /\ \A i \in 1 .. Len(chain) : longer[i] = chain[i]
      /\ longer # <<>>
  BY <1>1, AppendProperties
<1>3. longer \in Seq(Range(longer))
  <2>1. \A i \in 1 .. Len(longer) : longer[i] \in Range(longer)
    BY <1>2 DEF Range
  <2>2. QED
    BY <2>1, <1>2
<1>4. SubSeq(longer, 1, Len(chain)) = chain
  BY <1>1, <1>2
<1>5. QED
  BY <1>2, <1>3, <1>4

(* A decision extends the chain by one certificate of the compiled rule,   *)
(* and its drift check sees the claim that is decided.                     *)
LEMMA CheckDecisionInv ==
    ASSUME ProtocolInv, NEW claim \in Claims, CheckDecision(claim)
    PROVE  ProtocolInv'
<1> DEFINE chain == ledger.certificates
           new == [claim |-> claim, rule |-> compiled.rule, prev |-> ledger.head]
           alerts == DetectDriftAlerts(claims')
<1>1. ledger' = [certificates |-> Append(chain, new), head |-> Hash(new),
                 alerts |-> ledger.alerts \cup alerts]
  BY DEF CheckDecision, Extend
<1>2. /\ ledger'.certificates = Append(chain, new) /\ ledger'.head = Hash(new)
      /\ ledger'.alerts = ledger.alerts \cup alerts
  BY <1>1
<1>3. chain \in Seq(Range(chain)) /\ Len(chain) < MaxDecisions
  BY DEF ProtocolInv, LedgerInv, CheckDecision
<1>4. ProtocolTypeOK'
  <2>1. Len(ledger'.certificates) <= MaxDecisions
    BY <1>2, <1>3, AppendedChain, ProtocolAssumption
  <2>2. claims' \subseteq Claims
    BY DEF ProtocolInv, ProtocolTypeOK, CheckDecision, MergeClaims
  <2>3. QED
    BY <2>1, <2>2 DEF ProtocolInv, ProtocolTypeOK, CheckDecision, session
<1>5. PartsInv' /\ OverlayInv'
  BY DEF ProtocolInv, PartsInv, OverlayInv, CheckDecision, session, InSession
<1>6. LedgerInv'
  BY <1>1, <1>2, <1>3, AppendedChain DEF LedgerInv, InSession, CheckDecision
<1>7. CertificatesChain'
  <2>1. ledger'.head = Hash(ledger'.certificates[Len(ledger'.certificates)]) /\ ledger'.certificates # <<>>
    BY <1>2, <1>3, AppendedChain
  <2>2. ASSUME NEW i \in DOMAIN ledger'.certificates
        PROVE  /\ ledger'.certificates[i].rule = compiled'.rule
               /\ ledger'.certificates[i].prev = IF i = 1 THEN None ELSE Hash(ledger'.certificates[i - 1])
    <3>1. compiled' = compiled /\ i \in 1 .. Len(chain) + 1 /\ Len(chain) \in Nat
      BY <1>2, <1>3, AppendedChain DEF CheckDecision, session
    <3>2. CASE i \in 1 .. Len(chain)
      <4>1. /\ ledger'.certificates[i] = chain[i] /\ i \in DOMAIN chain
            /\ i # 1 => ledger'.certificates[i - 1] = chain[i - 1]
        BY <1>2, <1>3, <3>1, <3>2, AppendedChain
      <4>2. QED
        BY <3>1, <4>1 DEF ProtocolInv, CertificatesChain
    <3>3. CASE i = Len(chain) + 1
      <4>1. /\ ledger'.certificates[i] = new
            /\ i # 1 => ledger'.certificates[i - 1] = chain[Len(chain)]
        BY <1>2, <1>3, <3>1, <3>3, AppendedChain
      <4>2. ledger.head = IF i = 1 THEN None ELSE Hash(chain[Len(chain)])
        BY <1>3, <3>1, <3>3, EmptySeq DEF ProtocolInv, CertificatesChain
      <4>3. QED
        BY <3>1, <4>1, <4>2
    <3>4. QED
      BY <3>1, <3>2, <3>3
  <2>3. QED
    BY <2>1, <2>2 DEF CertificatesChain
<1>8. DriftIsReported'
  <2> SUFFICES ASSUME NEW p \in DOMAIN Violations(compiled.graph, claims'),
                      Violations(compiled.graph, claims')[p] > Bound(p)
               PROVE  \E a \in ledger'.alerts :
                         a.property = p /\ a.magnitude = Violations(compiled.graph, claims')[p]
    BY DEF DriftIsReported, CheckDecision, session, Bound
  <2>1. Alert(p, Violations(compiled.graph, claims')[p]) \in alerts
    BY DEF DetectDriftAlerts
  <2>2. QED
    BY <1>2, <2>1 DEF Alert
<1>9. QED
  BY <1>4, <1>5, <1>6, <1>7, <1>8 DEF ProtocolInv

(* A report adds an alert and takes none away.                             *)
LEMMA ReportDriftInv ==
    ASSUME ProtocolInv, NEW alert \in Reports, ReportDrift(alert)
    PROVE  ProtocolInv'
<1>1. /\ ledger'.certificates = ledger.certificates /\ ledger'.head = ledger.head
      /\ ledger'.alerts = ledger.alerts \cup {alert}
      /\ ledger' = [certificates |-> ledger'.certificates, head |-> ledger'.head,
                    alerts |-> ledger'.alerts]
  BY DEF ProtocolInv, LedgerInv, ReportDrift
<1>2. ProtocolTypeOK'
  BY <1>1 DEF ProtocolInv, ProtocolTypeOK, ReportDrift, session
<1>3. PartsInv' /\ OverlayInv'
  BY DEF ProtocolInv, PartsInv, OverlayInv, ReportDrift, session, InSession
<1>4. LedgerInv' /\ CertificatesChain'
  BY <1>1 DEF ProtocolInv, LedgerInv, CertificatesChain, ReportDrift, session, InSession
<1>5. DriftIsReported'
  BY <1>1 DEF ProtocolInv, DriftIsReported, ReportDrift, session, InSession, Bound
<1>6. QED
  BY <1>2, <1>3, <1>4, <1>5 DEF ProtocolInv

(* Supervision changes the overlay only.                                   *)
LEMMA SuperviseInv ==
    ASSUME ProtocolInv, NEW action \in SupervisoryActions, NEW ids, Supervise(action, ids)
    PROVE  ProtocolInv'
<1> DEFINE before == IF phase = "live" THEN compiled.graph ELSE overlay
           base == declaration.graph
<1>1. /\ phase \in {"live", "supervised"} /\ phase' = "supervised" /\ ids \subseteq before.nodes
      /\ overlay' = ApplySupervisoryAction(action, before, ids)
      /\ UNCHANGED <<session, claims, ledger, proposal>>
  BY DEF Supervise
<1>2. /\ declaration \in Declarations /\ base \in Graphs /\ compiled = Compiled(declaration)
      /\ compiled.graph = base
  BY <1>1 DEF ProtocolInv, ProtocolTypeOK, PartsInv, Declarations, Compiled
<1>3. IsGraph(before) /\ AddedAreEntries(before, base) /\ (shut => Shut(before))
  BY <1>1, <1>2, DeclaredIsGraph DEF ProtocolInv, OverlayInv
<1>4. shut' = (action \in {"Pause", "Deny"} \/ (action # "Rollback" /\ shut))
  BY DEF Supervise, SupervisoryActions, ProtocolInv, ProtocolTypeOK
<1> HIDE DEF before
<1>5. OverlayInv'
  <2>1. /\ IsGraph(overlay') /\ AddedAreEntries(overlay', base)
        /\ action \in {"Pause", "Deny", "Stop"} => Shut(overlay')
        /\ Shut(before) /\ action # "Rollback" => Shut(overlay')
    BY <1>1, <1>2, <1>3, ActionIsGraph
  <2>2. QED
    BY <1>1, <1>3, <1>4, <2>1 DEF OverlayInv, IsGraph, AddedAreEntries, Shut, Traversable, Acyclic, Entries, session
<1>6. overlay' # None
  <2>1. \E n, e, k : overlay' = [nodes |-> n, edges |-> e, kind |-> k]
    BY <1>1, <1>5 DEF OverlayInv, IsGraph
  <2>2. \A n, e, k : [nodes |-> n, edges |-> e, kind |-> k] # None
    BY DEF None
  <2>3. QED
    BY <2>1, <2>2
<1>7. ProtocolTypeOK'
  <2>1. shut' \in BOOLEAN
    BY <1>4
  <2>2. QED
    BY <1>1, <1>6, <2>1 DEF ProtocolInv, ProtocolTypeOK, session
<1>8. PartsInv'
  BY <1>1 DEF ProtocolInv, PartsInv, session, InSession
<1>9. LedgerInv' /\ CertificatesChain' /\ DriftIsReported'
  BY <1>1 DEF ProtocolInv, LedgerInv, CertificatesChain, DriftIsReported, session, InSession, Bound
<1>10. QED
  BY <1>5, <1>7, <1>8, <1>9 DEF ProtocolInv

(* Every step keeps the invariant.                                         *)
LEMMA ProtocolNextInv == ProtocolInv /\ [ProtocolNext]_protocolVars => ProtocolInv'
<1> SUFFICES ASSUME ProtocolInv, [ProtocolNext]_protocolVars PROVE ProtocolInv'
  OBVIOUS
<1>1. CASE \E g \in Graphs, s \in SacrificeLists : Declare(g, s) \/ ProposeRevision(g, s)
  BY <1>1, DeclareInv, ProposeRevisionInv
<1>2. CASE Compile \/ Activate \/ Recompile
  BY <1>2, CompileInv, ActivateInv, RecompileInv
<1>3. CASE \E batch \in Batches : Measure(batch)
  BY <1>3, MeasureInv
<1>4. CASE \E claim \in Claims : CheckDecision(claim)
  BY <1>4, CheckDecisionInv
<1>5. CASE \E alert \in Reports : ReportDrift(alert)
  BY <1>5, ReportDriftInv
<1>6. CASE \E action \in SupervisoryActions, ids \in SUBSET NodeIds : Supervise(action, ids)
  BY <1>6, SuperviseInv
<1>7. CASE UNCHANGED protocolVars
  BY <1>7 DEF protocolVars, session, ProtocolInv, ProtocolTypeOK, PartsInv, LedgerInv, OverlayInv,
              CertificatesChain, DriftIsReported, InSession, Bound
<1>8. QED
  BY <1>1, <1>2, <1>3, <1>4, <1>5, <1>6, <1>7 DEF ProtocolNext

(* What the invariant gives.                                               *)
LEMMA ProtocolInvGives ==
    ProtocolInv => SessionIsWellFormed /\ SacrificesAreExact /\ DriftIsReported /\ SupervisionIsSafe
<1> SUFFICES ASSUME ProtocolInv
             PROVE  SessionIsWellFormed /\ SacrificesAreExact /\ DriftIsReported /\ SupervisionIsSafe
  OBVIOUS
<1>1. SessionIsWellFormed /\ DriftIsReported
  BY DEF ProtocolInv, SessionIsWellFormed
<1>2. SupervisionIsSafe
  BY DEF ProtocolInv, OverlayInv, SupervisionIsSafe, ShutStaysShut, OverlayTraversable, IsGraph, Shut
<1>3. compiled # None =>
         /\ compiled.graph = declaration.graph
         /\ compiled.certs = Violations(compiled.graph, Synthetic)
  BY DEF ProtocolInv, PartsInv, Compiled
<1>4. InSession => monitored \cup DOMAIN compiled.certs = Properties
  <2> SUFFICES ASSUME InSession PROVE monitored \cup DOMAIN compiled.certs = Properties
    OBVIOUS
  <2>1. compiled # None /\ declaration \in Declarations
    BY DEF ProtocolInv, ProtocolTypeOK, PartsInv, InSession
  <2>2. DOMAIN compiled.certs \subseteq Properties
    BY <2>1, ViolationsAssumption DEF ProtocolInv, PartsInv, Declarations
  <2>3. QED
    BY <2>2 DEF ProtocolInv, PartsInv
<1>5. QED
  BY <1>1, <1>2, <1>3, <1>4 DEF SacrificesAreExact

LEMMA ProtocolInvariance == ProtocolSpec => []ProtocolInv
BY ProtocolInitInv, ProtocolNextInv, PTL DEF ProtocolSpec

-----------------------------------------------------------------------------
(* A session is always a state the next operation accepts, and its         *)
(* certificates form one chain issued under the rule that is compiled now, *)
(* over any sequence of decisions, drift, revision and supervision         *)
(* (DecisionCertificate, ProtocolState).                                   *)
THEOREM SessionsAreWellFormed == ProtocolSpec => []SessionIsWellFormed
BY ProtocolInvariance, ProtocolInvGives, PTL

(* Whatever the axiom checkers answer, the sacrifices certified are the    *)
(* violations found, and everything else is monitored (compile, activate,  *)
(* recompile).                                                             *)
THEOREM SacrificesStayExact == ProtocolSpec => []SacrificesAreExact
BY ProtocolInvariance, ProtocolInvGives, PTL

(* Once a session has decided, every violation on its present claims that  *)
(* exceeds what was certified has its alert (detect_drift_alerts).         *)
THEOREM DriftsHaveAlerts == ProtocolSpec => []DriftIsReported
BY ProtocolInvariance, ProtocolInvGives, PTL

(* Any sequence of supervisory actions on any graph without cycles leaves  *)
(* a graph without cycles, and one that a Pause or a Deny closed stays     *)
(* closed until a Rollback (apply_supervisory_action).                     *)
THEOREM SupervisionStaysSafe == ProtocolSpec => []SupervisionIsSafe
BY ProtocolInvariance, ProtocolInvGives, PTL

(* Within a session the compiled rule does not change and the ledger only  *)
(* grows, by at most one certificate in a step (check_decision,            *)
(* report_drift, supervise).                                               *)
THEOREM SessionsOnlyGrow == ProtocolSpec => SessionOnlyGrows
<1> DEFINE Grows ==
      InSession /\ InSession' =>
          /\ compiled' = compiled
          /\ ledger.alerts \subseteq ledger'.alerts
          /\ \E more \in 0 .. MaxDecisions :
                /\ Len(ledger'.certificates) = Len(ledger.certificates) + more
                /\ SubSeq(ledger'.certificates, 1, Len(ledger.certificates)) = ledger.certificates
<1>1. ProtocolInv /\ [ProtocolNext]_protocolVars => [Grows]_protocolVars
  <2> SUFFICES ASSUME ProtocolInv, ProtocolNext, InSession, InSession' PROVE Grows
    OBVIOUS
  <2> DEFINE chain == ledger.certificates
  <2>1. chain \in Seq(Range(chain)) /\ MaxDecisions \in Nat
    BY ProtocolAssumption DEF ProtocolInv, LedgerInv
  <2>2. Len(chain) \in Nat /\ SubSeq(chain, 1, Len(chain)) = chain
    BY <2>1
  <2>3. CASE \E claim \in Claims : CheckDecision(claim)
    <3>1. PICK claim \in Claims : CheckDecision(claim)
      BY <2>3
    <3>2. \E c : ledger'.certificates = Append(chain, c) /\ ledger.alerts \subseteq ledger'.alerts
      BY <3>1 DEF CheckDecision, Extend
    <3>3. Len(chain) < MaxDecisions /\ compiled' = compiled
      BY <3>1 DEF CheckDecision, session
    <3>4. 1 \in 0 .. MaxDecisions
      BY <2>1, <2>2, <3>3
    <3>5. QED
      BY <2>1, <3>2, <3>3, <3>4, AppendedChain
  <2>4. CASE /\ compiled' = compiled /\ ledger.alerts \subseteq ledger'.alerts
             /\ ledger'.certificates = chain
    <3>1. 0 \in 0 .. MaxDecisions
      BY <2>1
    <3>2. QED
      BY <2>2, <2>4, <3>1
  <2>5. CASE \E alert \in Reports : ReportDrift(alert)
    BY <2>4, <2>5 DEF ReportDrift, session, ProtocolInv, LedgerInv
  <2>6. CASE \E action \in SupervisoryActions, ids \in SUBSET NodeIds : Supervise(action, ids)
    BY <2>4, <2>6 DEF Supervise, session
  <2>7. QED
    BY <2>3, <2>5, <2>6
       DEF ProtocolNext, InSession, Declare, ProposeRevision, Compile, Activate, Recompile, Measure
<1>2. QED
  BY <1>1, ProtocolInvariance, PTL DEF ProtocolSpec, SessionOnlyGrows
=============================================================================

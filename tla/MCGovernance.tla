---------------------------- MODULE MCGovernance ----------------------------
(* Four programs that share no state: the rule commands with their drift   *)
(* monitor, the executed composition, the governance protocol, and the     *)
(* publication of a command's outputs.  An execution runs one of them; the *)
(* variables of the others rest in a state in which they have nothing to   *)
(* do.                                                                     *)
EXTENDS MCRules, Protocol, Publication

-----------------------------------------------------------------------------
(* The protocol's graphs: a fork that is clean until a strong claim        *)
(* arrives, a chain that carries a node named like the reroute node and    *)
(* whose certified violation a strong claim exceeds, and a single node.    *)
Graph(nodes, edges) ==
    [nodes |-> nodes, edges |-> edges, kind |-> [n \in nodes |-> "rule"]]

Fork == Graph({"a", "b", "c"}, {<<"a", "b">>, <<"a", "c">>})
Chain == Graph({"a", "r0", "b"}, {<<"a", "r0">>, <<"r0", "b">>})
Single == Graph({"c"}, {})
MCGraphs == {Fork, Chain, Single}

MCClaims == [who : {"u", "v"}, strength : {"weak", "strong"}]
MCBatches == {{}, {[who |-> "u", strength |-> "strong"]}}
MCSynthetic == {[who |-> "synthetic", strength |-> "weak"]}

Strong(batch) == {c \in batch : c.strength = "strong"}

MCViolations(g, batch) ==
    LET strong == Cardinality(Strong(batch))
    IN  CASE g = Fork -> [p \in IF strong > 0 THEN {"solidarity"} ELSE {} |-> strong]
          [] g = Chain -> [p \in {"consistency"} |-> 1 + strong]
          [] OTHER -> [p \in {"consistency", "solidarity"} |->
                          IF p = "solidarity" THEN 0 ELSE strong]

MCProperties == {"consistency", "solidarity"}
MCSacrificeLists == {<<>>, <<"consistency">>, <<"solidarity">>,
                     <<"consistency", "solidarity">>, <<"consistency", "consistency">>}
MCReports == {[type |-> "bound_breach", property |-> "consistency",
               bound |-> 1, magnitude |-> 3]}
MCRerouteIds == <<"r0", "r1">>
MCNodeIds == {"a", "b", "c", "r0", "r1"}

-----------------------------------------------------------------------------
(* Two strangers interfere with a publication.                             *)
CONSTANTS f1, f2
Strangers == {f1, f2}

-----------------------------------------------------------------------------

VARIABLE program

RulesRest ==
    /\ cmd = Idle /\ records = <<>> /\ log = <<>> /\ offset = 0 /\ printed = <<>>
    /\ started = MaxCommands /\ faults = 0
ExecRest ==
    /\ host = [stage |-> "reported", state |-> 0, edited |-> FALSE, run |-> EmptyRun(FALSE, FALSE)]
    /\ signed = <<>> /\ files = <<>> /\ verdict = <<>>

Init ==
    /\ program \in {"rules", "executed", "protocol", "publication"}
    /\ IF program = "rules" THEN RuleInit ELSE RulesRest
    /\ IF program = "executed" THEN ExecInit ELSE ExecRest
    /\ ProtocolInit
    /\ PublicationInit /\ (program # "publication" => op = "single")

(* A program that has nothing left to do; the protocol may stop at any     *)
(* point, since it only answers calls.                                     *)
Rest ==
    \/ program = "rules" /\ ~running
    \/ program = "executed" /\ host.stage \in {"reported", "refused"}
    \/ program = "protocol"
vars == <<ruleVars, execVars, protocolVars, publicationVars, program>>
Run(name, next) == program = name /\ next /\ UNCHANGED program

Next ==
    \/ Run("rules", RuleNext) /\ UNCHANGED <<execVars, protocolVars, publicationVars>>
    \/ Run("executed", ExecNext) /\ UNCHANGED <<ruleVars, protocolVars, publicationVars>>
    \/ Run("protocol", ProtocolNext) /\ UNCHANGED <<ruleVars, execVars, publicationVars>>
    \/ Run("publication", PublicationNext) /\ UNCHANGED <<ruleVars, execVars, protocolVars>>
    \/ Rest /\ UNCHANGED vars

(* The monitor polls for as long as the command runs.                      *)
Spec ==
    /\ Init /\ [][Next]_vars
    /\ WF_vars(Run("rules", MonitorRead) /\ UNCHANGED <<execVars, protocolVars, publicationVars>>)
=============================================================================

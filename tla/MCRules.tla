------------------------------ MODULE MCRules ------------------------------
EXTENDS RuleCommands, ExecutedComposition

(* The rule commands: every kind of rule on a few claims.                  *)

Id(x) == <<x>>
PlainClaim(x, n) == [claimant_id |-> Id(x), strength |-> QInt(n), metrics |-> [m \in {} |-> Zero]]
MetricClaim(x, s, metrics) == [claimant_id |-> Id(x), strength |-> s, metrics |-> metrics]

RuleOf(name, spec) == [name |-> name, version |-> "1", spec |-> spec, table |-> NoShares,
                       priority_classes |-> <<"standard", "other">>]
TableRule(table) == [RuleOf("table", "table") EXCEPT !.table = table]

Holders(cs) == {[id |-> id, priority_class |-> "standard"] : id \in Ids(cs)}
Standard == [reductions |-> TRUE, shocks |-> <<<<1, 2>>, One, <<5, 4>>>>, deltas |-> <<<<1, 10>>, One>>,
             inversion |-> FALSE]
Inverted == [Standard EXCEPT !.reductions = FALSE, !.inversion = TRUE]
Policy(rule, cs, estate, family) ==
    [rule |-> rule, claims |-> cs, estate |-> estate, claimants |-> Holders(cs),
     family |-> family, allow |-> FALSE]

A == PlainClaim("a", 1)
B == PlainClaim("b", 2)
C == PlainClaim("c", 4)
D == PlainClaim("d", 3)
AClone == [A EXCEPT !.claimant_id = <<"a", "clone">>]

Tool(x, listed, base) ==
    MetricClaim(x, One, [available |-> One, listed |-> listed, base_authorization |-> base])
Hook(x, s, sensitive) ==
    MetricClaim(x, s, [baseline_allow |-> One, sensitive_path |-> sensitive, block_threshold |-> <<1, 2>>])
Candidate(x, s, div, pen, peer) ==
    MetricClaim(x, s, [diversity |-> div, specialization_penalty |-> pen, peer_relative |-> peer,
                       scarcity_bonus |-> <<1, 2>>])

MCPolicies ==
    LET prop == RuleOf("prop", "proportional")
        jeff == RuleOf("jeff", "jefferson")
        web == RuleOf("web", "webster")
    IN {Policy(prop, <<>>, One, Standard),
        Policy(prop, <<A>>, QInt(2), Standard),
        Policy(prop, <<A, B>>, QInt(3), Inverted),
        Policy(prop, <<A, A>>, QInt(3), Standard),
        Policy(prop, <<A, AClone>>, QInt(3), Standard),
        Policy(prop, <<A, B, C>>, QInt(3), Standard),
        Policy(prop, <<A, B, C, D>>, QInt(5), Standard),
        [Policy(prop, <<A, B, C, D>>, QInt(5), Standard) EXCEPT !.allow = TRUE],
        Policy(jeff, <<A, B, C>>, QInt(5), Standard),
        Policy(jeff, <<C, A, AClone>>, <<7, 2>>, Standard),
        Policy(web, <<A, B, C>>, QInt(4), Standard),
        Policy(web, <<D, B, A>>, <<9, 2>>, Standard),
        Policy(RuleOf("perm", "permissions"),
               <<Tool("a", One, One), Tool("b", Zero, One), Tool("c", One, <<1, 2>>)>>, One, Standard),
        Policy(RuleOf("hooks", "hooks"), <<Hook("a", <<2, 5>>, One), Hook("b", One, Zero)>>, One, Standard),
        Policy(RuleOf("essay", "essay"),
               <<Candidate("a", <<1, 2>>, One, Zero, Zero), Candidate("b", <<1, 5>>, Zero, Zero, <<1, 2>>),
                 Candidate("c", <<1, 2>>, One, One, Zero)>>, QInt(50), Standard),
        Policy(TableRule([id \in {Id("a"), Id("b")} |-> <<1, 2>>]), <<A, B>>, One, Inverted),
        Policy(TableRule([id \in {Id("a"), Id("b")} |-> <<1, 2>>]), <<A, B>>, QInt(2), Standard),
        Policy(TableRule([id \in {Id("a")} |-> <<1, 2>>]), <<A, B>>, One, Standard),
        Policy(RuleOf("none", "mystery"), <<A>>, One, Standard)}

Line(kind, x, outcome) == [kind |-> kind, id |-> Id(x), outcome |-> outcome]
MCLines == {Line("blank", "a", Zero), Line("malformed", "a", Zero),
            Line("event", "a", QInt(2)), Line("event", "a", One), Line("event", "z", One)}
MCAuditFiles == {[NoInput EXCEPT !.lines = q] : q \in UNION {[1..n -> MCLines] : n \in 0..3}}
MCCertifyInputs == {[NoInput EXCEPT !.id = Id(x), !.outcome = o, !.evidence = e] :
                      x \in {"a", "z"}, o \in {One, QInt(2)}, e \in BOOLEAN}
Request(command, policy, input) == [op |-> command, policy |-> policy, input |-> input]
Lone == Policy(RuleOf("prop", "proportional"), <<A>>, QInt(2), Standard)
MCRequests ==
    {Request(c, p, NoInput) : c \in {"compile", "paradox", "factor", "sacrifice"}, p \in MCPolicies}
    \cup {Request("monitor", p, NoInput) : p \in {q \in MCPolicies : Len(q.claims) = 2}}
    \cup {Request("certify", p, i) : p \in MCPolicies, i \in MCCertifyInputs}
    \cup {Request("audit", Lone, f) : f \in MCAuditFiles}
    \cup {Request("audit", p, [NoInput EXCEPT !.lines = <<Line("event", "a", One)>>]) : p \in MCPolicies}

(* One rule with changing claims, and rows of other kinds in between.      *)
MCConsecutive ==
    {Request("certify", Lone, [NoInput EXCEPT !.id = Id("a"), !.outcome = QInt(2)]),
     Request("audit", Lone, [NoInput EXCEPT !.lines = <<Line("event", "a", QInt(2)), Line("malformed", "a", Zero)>>]),
     Request("compile", Policy(RuleOf("prop", "proportional"), <<A, AClone>>, QInt(3), Standard), NoInput),
     Request("sacrifice", Policy(RuleOf("prop", "proportional"), <<A, B, C>>, QInt(3), Standard), NoInput),
     Request("paradox", Policy(RuleOf("jeff", "jefferson"), <<C, A, AClone>>, <<7, 2>>, Standard), NoInput)}

MCDriftEvents == {[property |-> "strategyproofness", magnitude |-> QInt(3)],
                  [property |-> "strategyproofness", magnitude |-> <<1, 10>>],
                  [property |-> "consistency", magnitude |-> QInt(9)],
                  [property |-> "solidarity", magnitude |-> QInt(-1)]}

MCHostRequests ==
    {[actor |-> 1, channel |-> "public", payload |-> "fragment", auth |-> TRUE],
     [actor |-> 2, channel |-> "public", payload |-> "fragment", auth |-> TRUE],
     [actor |-> 1, channel |-> "public", payload |-> "fragment", auth |-> FALSE],
     [actor |-> 2, channel |-> "vault", payload |-> "fragment", auth |-> TRUE],
     [actor |-> 2, channel |-> "public", payload |-> "summary", auth |-> TRUE]}

=============================================================================

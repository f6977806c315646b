------------------------ MODULE TrajectoryComposition ------------------------
(***************************************************************************)
(* The replay-bound composition of a trajectory (composition.rs): each     *)
(* event is an occurrence with strength one more than its index, a         *)
(* peer-relative policy is evaluated on each occurrence alone and on every *)
(* prefix, and the first prefix with a denial is reported.                 *)
(*                                                                         *)
(* A policy file is [size, text, utf8, toml, identity, version, supported, *)
(* canonical]: whether it decodes, the names in its envelope, whether the  *)
(* rest of it is the one supported profile (peer-relative on strength, at  *)
(* least the median permits, otherwise deny) and whether its bytes are the *)
(* canonical spelling.                                                     *)
(***************************************************************************)
EXTENDS Trajectory, GovernanceGraph

CompositionErrorCodes ==
    {"policy-too-large", "replay-pair-mismatch", "policy-digest-mismatch", "policy-identity-mismatch",
     "policy-version-mismatch", "policy-encoding", "policy-shape", "unsupported-policy-profile",
     "noncanonical-policy", "graph-compilation", "event-replay-mismatch", "occurrence-overflow",
     "graph-evaluation", "non-binary-decision", "result-too-large", "result-serialization"}

PolicyGraph ==
    [nodes |-> 1 :> [id |-> 1, kind |-> "binary", default |-> "deny", combination |-> "first_match",
                     gates |-> <<[kind |-> "peer_relative", value |-> "strength", min |-> <<1, 2>>,
                                  decision |-> "permit"]>>],
     edges |-> <<>>]

(* load_trajectory_composition_policy_v0.                                  *)
LoadPolicy(file, binding) ==
    IF file.size > Limits.policy_bytes THEN Bad("policy-too-large")
    ELSE IF FramedSha256("artifact", file.text) # binding.hash THEN Bad("policy-digest-mismatch")
    ELSE IF ~file.utf8 THEN Bad("policy-encoding")
    ELSE IF ~file.toml THEN Bad("policy-shape")
    ELSE IF file.identity # binding.identity THEN Bad("policy-identity-mismatch")
    ELSE IF file.version # binding.version THEN Bad("policy-version-mismatch")
    ELSE IF ~file.supported THEN Bad("unsupported-policy-profile")
    ELSE IF ~file.canonical THEN Bad("noncanonical-policy")
    ELSE Good(PolicyGraph)

(* The claim of occurrence i, which counts from 0.                         *)
OccurrenceClaim(i) ==
    [claimant_id |-> i + 1, strength |-> 20 * (i + 1), priority_class |-> <<>>, path |-> {},
     action |-> <<>>, content |-> {}, metrics |-> EmptyMap]

(* prepare_replay_bound_composition_v0.                                    *)
Prepare(trace, replay, file) ==
    With(LoadPolicy(file, trace.policy), LAMBDA policy :
    With(Len(trace.events), LAMBDA n :
    With([i \in 1..n |-> OccurrenceClaim(i - 1)], LAMBDA claims :
    With([i \in 1..n |-> Traverse(policy.value, <<claims[i]>>)], LAMBDA alone :
    LET paired(i) == /\ trace.events[i].sequence_index.value[1] = i - 1
                     /\ replay.records[i].sequence_index = i - 1
                     /\ replay.records[i].event_id = trace.events[i].event_id.value[1]
                     /\ replay.records[i].raw_record_digest = trace.events[i].raw_record.digest IN
       IF file.size > Limits.policy_bytes THEN Bad("policy-too-large")
       ELSE IF ReplayCandidate(trace) # replay THEN Bad("replay-pair-mismatch")
       ELSE IF policy.code # "ok" THEN policy
       ELSE IF n # Len(replay.records) \/ \E i \in 1..n : ~paired(i) THEN Bad("event-replay-mismatch")
       ELSE IF n > Limits.events THEN Bad("occurrence-overflow")
       ELSE IF \E i \in 1..n : alone[i].error # "none" THEN Bad("graph-evaluation")
       ELSE IF \E i \in 1..n : alone[i].final[i] = "escalate" THEN Bad("non-binary-decision")
       ELSE Good([graph |-> policy.value, claims |-> claims,
                  receipts |-> [i \in 1..n |-> [event_id |-> trace.events[i].event_id.value[1],
                                                singleton |-> alone[i].final[i]]]])))))

(* least_denied_occurrence_v0: <<>> or the occurrence.                     *)
LeastDenied(claims, decisions) ==
    LET denied == {i \in DOMAIN claims : decisions[claims[i].claimant_id] = "deny"}
        least == CHOOSE i \in denied : \A j \in denied : i <= j
    IN IF denied = {} THEN <<>> ELSE <<least - 1>>

(* classify_temporal_composition_v0.                                       *)
Classify(prepared) ==
    With({i \in DOMAIN prepared.receipts : prepared.receipts[i].singleton = "deny"}, LAMBDA local :
    With(         [k \in DOMAIN prepared.claims |->
                      LET prefix == SubSeq(prepared.claims, 1, k)
                      IN LeastDenied(prefix, Traverse(prepared.graph, prefix).final)], LAMBDA denied :
    With({k \in DOMAIN denied : denied[k] # <<>>}, LAMBDA bad :
    LET first(S) == CHOOSE i \in S : \A j \in S : i <= j IN
       IF local # {} THEN [kind |-> "local-failure", prefix |-> 0, occurrence |-> <<first(local) - 1>>]
       ELSE IF bad = {} THEN [kind |-> "safe", prefix |-> Len(denied), occurrence |-> <<>>]
       ELSE [kind |-> "violation", prefix |-> first(bad), occurrence |-> denied[first(bad)]])))

(* evaluate_replay_bound_composition_v0.                                   *)
EvaluateComposition(trace, replay, file) ==
    With(Prepare(trace, replay, file), LAMBDA prepared :
       IF prepared.code # "ok" THEN prepared
       ELSE Good([trajectory_digest |-> TrajectoryDigest(trace), replay_final_head |-> replay.final_head,
                  policy |-> trace.policy, receipts |-> prepared.value.receipts,
                  temporal |-> Classify(prepared.value)]))
=============================================================================

---------------------------- MODULE MCTrajectory ----------------------------
(* Instance of the replay commands: two raw records, traces that differ in *)
(* one value or lack evidence, candidates and receipts that do not belong. *)
EXTENDS ReplayCommands

MCFiles == {"trace", "raw", "context", "key", "replay", "receipt", "trust", "canonical", "verified"}
MCCaps == [f \in MCFiles |-> IF f = "key" THEN 32 ELSE 4]
MCLinks == {<<"receipt", "replay">>, <<"canonical", "raw">>, <<"verified", "trust">>}
MCSizeOf(c) == c.size
MCKeyBytes(k) == 1
(* The cited bytes of r0 and r1 are the same, those of r2 are not.         *)
MCLocatedBytes(r, offset, length) == <<IF r.text = "r2" THEN "y" ELSE "x", length>>
MCIsIdentifier(v) == v \in {"run", "e0", "e1", "s1"}

(* Documents for the preflight.                                            *)
Tok(t, key, bytes) == [t |-> t, key |-> key, bytes |-> bytes]
MCTokens == {Tok("object", <<>>, 0), Tok("object", <<"a">>, 0), Tok("array", <<"b">>, 0),
             Tok("end", <<>>, 0), Tok("string", <<"a">>, 1), Tok("string", <<>>, 2),
             Tok("scalar", <<"b">>, 0), Tok("garbage", <<>>, 0), Tok("garbage", <<"a">>, 0)}
MCScanLimits == [max_depth |-> 3, max_nodes |-> 4, max_total_keys |-> 3, max_decoded_string_bytes |-> 4]

MCLimits ==
    [records |-> 2, events |-> 2, record_bytes |-> 4, capture_bytes |-> 8, fields_per_object |-> 2,
     fields_total |-> 3, content_bytes |-> 6, nodes |-> 4, depth |-> 2, array_items |-> 2,
     string_bytes |-> 3, string_scalars |-> 3, integer_digits |-> 2, locators |-> 14,
     derivation_inputs |-> 2, cited_bytes |-> 14, reason_bytes |-> 2, compact_json |-> 3,
     trace_json |-> 4, raw_set_json |-> 4, context_json |-> 4, replay_json |-> 4, receipt_json |-> 4,
     trust_json |-> 4, policy_bytes |-> 4]

Binding(name) == [identity |-> name, version |-> "v0", hash |-> <<"artifact", name>>]

Record(text) == [tokens |-> JsonTokens, bytes |-> 4, text |-> text]
Raws == <<Record("r0"), Record("r1")>>
OtherRaws == <<Record("r0"), Record("r2")>>

Cite(raws, i) == [record_index |-> i, byte_offset |-> 1, byte_length |-> 2,
                  digest |-> SourceLocatorDigest(raws[i + 1], 1, 2)]
Cited(raws, i, v) ==
    [value |-> <<v>>, evidence |-> [class |-> "cites", rule |-> <<>>, inputs |-> <<Cite(raws, i)>>, reason |-> 0]]
Derived(v, rule, inputs) ==
    [value |-> <<v>>, evidence |-> [class |-> "derived", rule |-> rule, inputs |-> inputs, reason |-> 0]]

Text(t) == [nodes |-> 1, depth |-> 1, keys |-> {}, object_width |-> 0, array_width |-> 0, bytes |-> 1,
            string_bytes |-> 1, scalars |-> 1, digits |-> 1, canonical |-> TRUE, text |-> t]

Event(raws, i, id, payload) ==
    [event_id |-> Cited(raws, i, id), sequence_index |-> Cited(raws, i, i), kind |-> Cited(raws, i, "call"),
     source_item_id |-> IF i = 0 THEN <<>> ELSE <<Cited(raws, i, "s1")>>,
     raw_record |-> [record_index |-> i, digest |-> RawRecordDigest(raws[i + 1])],
     payload |-> <<[name |-> "p", field |-> payload]>>]

Trace(raws, payload) ==
    [schema |-> TraceSchema, run_id |-> Cited(raws, 0, "run"), adapter |-> Binding("adapter"),
     policy |-> Binding("policy"), raw_capture |-> RawCaptureSeal(raws), compact |-> 1,
     events |-> <<Event(raws, 0, "e0", payload), Event(raws, 1, "e1", Cited(raws, 1, Text("done")))>>]

MCSchema == Binding("schema")
Rule == Binding("rule")
TraceA == Trace(Raws, Cited(Raws, 0, Text("x")))
TraceB == Trace(Raws, Derived(Text("y"), Rule, <<Cite(Raws, 0), Cite(Raws, 1)>>))
Unevidenced == Trace(Raws, Derived(Text("z"), Rule, <<>>))

Context == [adapter |-> Binding("adapter"), policy |-> Binding("policy"),
            raw_capture |-> RawCaptureSeal(Raws), derivations |-> <<Rule>>]

(* A candidate that hangs together and is not the chain of the trace.      *)
Rechained(c) ==
    [c EXCEPT !.records[2] = [@ EXCEPT !.canonical_event_digest = <<"artifact", "e">>,
                                       !.resulting_head = <<"artifact", "h">>],
              !.final_head = <<"artifact", "h">>]

Key == NoJson(32, "k1")
Receipt(trace, key, epoch) == IssueReceipt(trace, key, "issuer", "key", epoch).value
Policy(key, epoch) == [issuer |-> "issuer", algorithm |-> "ed25519", key_id |-> "key",
                       accepted_authority_epoch |-> epoch, verification_key |-> key]

MCEarlier == {[trace |-> TraceA, receipt |-> Receipt(TraceA, "k1", 1)],
              [trace |-> Unevidenced, receipt |-> Receipt(Unevidenced, "k1", 2)]}
MCBuilt == {[trace |-> TraceB, candidate |-> ReplayCandidate(TraceB)]}
OldReceipt == Receipt(TraceA, "k1", 1)
BadSignature == [OldReceipt EXCEPT !.authority_epoch = 2]
AnchorOf(c) == [Receipt(TraceA, "k1", 2) EXCEPT !.anchor = Anchor(c)]
ForRechained == With(AnchorOf(Rechained(ReplayCandidate(TraceA))), LAMBDA r :
                   [r EXCEPT !.signature = Sign("k1", SignatureMessage(r))])
ByStranger == Receipt(TraceA, "k2", 2)

MCContents ==
    [f \in MCFiles |->
        CASE f = "trace" -> {Json("trace", TraceB)}
          [] f = "raw" -> {Json("raws", OtherRaws)}
          [] f = "context" -> {[Json("declared-context", Context) EXCEPT !.format = FALSE]}
          [] f = "key" -> {NoJson(31, "k1")}
          [] f = "replay" -> {Json("candidate", ReplayCandidate(TraceA))}
          [] f = "receipt" -> {Json("receipt", OldReceipt)}
          [] f = "trust" -> {Json("trust", Policy("k1", 2))}
          [] f = "canonical" -> {}
          [] f = "verified" -> {[Json("verified", 1) EXCEPT !.size = 5]}]

Start0(trace, replay, receipt, epoch) ==
    [f \in MCFiles |->
        CASE f = "trace" -> Json("trace", trace) [] f = "raw" -> Json("raws", Raws)
          [] f = "context" -> Json("declared-context", Context) [] f = "key" -> Key
          [] f = "replay" -> replay [] f = "receipt" -> receipt [] f = "trust" -> Json("trust", Policy("k1", epoch)) [] OTHER -> <<>>]

A == Json("candidate", ReplayCandidate(TraceA))
MCInitialFiles ==
    {[f \in MCFiles |-> <<>>],
     Start0(TraceA, <<>>, <<>>, 2), Start0(TraceA, A, <<>>, 2), Start0(TraceA, A, Json("receipt", OldReceipt), 1),
     Start0(TraceA, A, Json("receipt", OldReceipt), 2), Start0(TraceA, A, Json("receipt", BadSignature), 2),
     Start0(TraceA, Json("candidate", Rechained(ReplayCandidate(TraceA))),
            Json("receipt", ForRechained), 2),
     Start0(TraceA, A, Json("receipt", ByStranger), 2),
     Start0(Unevidenced, Json("candidate", ReplayCandidate(Unevidenced)),
            Json("receipt", Receipt(Unevidenced, "k1", 2)), 2),
     [Start0(TraceA, <<>>, <<>>, 2) EXCEPT !["raw"] = Json("raws", <<>>)],
     [Start0(TraceA, <<>>, <<>>, 2) EXCEPT !["trace"].size = 5]}

MCIssueArgs == {[issuer |-> "issuer", key_id |-> "key", epoch |-> 2],
                [issuer |-> "issuer", key_id |-> "key", epoch |-> 0]}
=============================================================================

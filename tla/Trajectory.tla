----------------------------- MODULE Trajectory -----------------------------
(***************************************************************************)
(* The trajectory contract: validation of a trace against raw records and  *)
(* declarations (validation.rs), canonical bytes and digests               *)
(* (canonical.rs, mod.rs), replay candidates (replay.rs) and signed        *)
(* authority receipts (authority.rs).                                      *)
(*                                                                         *)
(* Hashing and signing are free constructors: a digest is the pair of its  *)
(* domain and the framed components, <<>> a string that is no digest; a    *)
(* signature is the key and the message.  Length-prefixed encodings are    *)
(* injective, so encoded bytes are the tuple of what was encoded.  Names,  *)
(* versions and identifiers are members of the sets that pass the          *)
(* character profiles.  A normalized value is its measures and its text.   *)
(* Options are sequences of length at most one.                            *)
(***************************************************************************)
EXTENDS JsonScan

CONSTANTS ValidNames, ValidVersions,
          IsIdentifier(_), \* passes the profile of identifiers
          LocatedBytes(_, _, _), \* the bytes of a record from an offset, for a length
          Limits,         \* the MAX_..._V0 constants of validation
          TraceSchema     \* trajectory_schema_binding_v0()

(* The closed sets of failures.                                            *)
ReplayErrorCodes ==
    {"input-too-large", "json-framing", "json-syntax", "json-shape", "unsupported-format",
     "replay-candidate-mismatch", "authority-receipt-binding-mismatch", "serialization"}
ReplayAuthorityErrorCodes ==
    {"input-too-large", "json-framing", "json-syntax", "json-shape", "unsupported-format",
     "authority-signing-key", "authority-receipt-rejected", "serialization"}

(* Written as functions: a fold of the community modules takes a maximum   *)
(* at every step.                                                          *)
SumSeq(f(_), s) ==
    LET sum[i \in 0..Len(s)] == IF i = 0 THEN 0 ELSE sum[i - 1] + f(s[i]) IN sum[Len(s)]
Flatten(ss) ==
    LET flat[i \in 0..Len(ss)] == IF i = 0 THEN <<>> ELSE flat[i - 1] \o ss[i] IN flat[Len(ss)]
NoRepeats(s) == \A i, j \in DOMAIN s : s[i] = s[j] => i = j

-----------------------------------------------------------------------------
(* Digests.  A raw record is [tokens, bytes, text]: its JSON tokens, its   *)
(* length and what the bytes are.                                          *)
FramedSha256(domain, components) == <<domain, components>>
IsDigest(d) == d # <<>>

RawRecordDigest(r) == FramedSha256("raw-record", r)
SourceLocatorDigest(r, offset, length) ==
    FramedSha256("source-locator", LocatedBytes(r, offset, length))
RawCaptureSeal(raws) == [record_count |-> Len(raws), digest |-> FramedSha256("raw-capture", raws)]

-----------------------------------------------------------------------------
(* Validation.  Every failure is the same error to a caller, so the checks *)
(* are one conjunction; the order only keeps later ones meaningful.        *)
ValidateBinding(b) == b.identity \in ValidNames /\ b.version \in ValidVersions /\ IsDigest(b.hash)

Range3(l) == <<l.record_index, l.byte_offset, l.byte_length>>

(* validate_locator; record indexes count from 0.                          *)
ValidateLocator(l, raws) ==
    /\ IsDigest(l.digest) /\ l.byte_length # 0
    /\ l.record_index < Len(raws)
    /\ l.byte_offset + l.byte_length <= raws[l.record_index + 1].bytes
    /\ l.digest = SourceLocatorDigest(raws[l.record_index + 1], l.byte_offset, l.byte_length)

(* validate_required_field: a citation has one locator, a derivation an    *)
(* allowed rule and distinct locators, and there must be a value.          *)
ValidateRequiredField(f, raws, decl) ==
    /\ f.evidence.class # "unavailable"
    /\ f.evidence.class = "derived" =>
          /\ ValidateBinding(f.evidence.rule)
          /\ f.evidence.rule \in decl.allowed_derivations
          /\ f.evidence.inputs # <<>>
          /\ NoRepeats([i \in DOMAIN f.evidence.inputs |-> Range3(f.evidence.inputs[i])])
    /\ \A i \in DOMAIN f.evidence.inputs : ValidateLocator(f.evidence.inputs[i], raws)
    /\ f.value # <<>>

ValidateIdentifier(v) == IsIdentifier(v)

(* validate_normalized_value, over the measures of the value.              *)
ValidateNormalizedValue(v) ==
    v.digits <= Limits.integer_digits /\ v.canonical /\ v.scalars <= Limits.string_scalars
      /\ v.keys \subseteq ValidNames

-----------------------------------------------------------------------------
(* The resource budget: every field of the trace in order.                 *)
EventFields(e) == <<e.event_id, e.sequence_index, e.kind>> \o e.source_item_id
                    \o [k \in DOMAIN e.payload |-> e.payload[k].field]
AllFields(trace) ==
    <<trace.run_id>> \o Flatten([i \in DOMAIN trace.events |-> EventFields(trace.events[i])])
PayloadFields(trace) == Flatten([i \in DOMAIN trace.events |-> trace.events[i].payload])
PayloadValues(payload) == Flatten([k \in DOMAIN payload |-> payload[k].field.value])
AllLocators(fields) == Flatten([k \in DOMAIN fields |-> fields[k].evidence.inputs])

(* add_evidence and add_locator: each range is paid for once, however      *)
(* often it is cited.                                                      *)
EvidenceBudget(trace) ==
    LET fields == AllFields(trace)
        locators == AllLocators(fields)
        ranges == {Range3(locators[k]) : k \in DOMAIN locators}
    IN /\ \A k \in DOMAIN fields :
             /\ Len(fields[k].evidence.inputs) <= Limits.derivation_inputs
             /\ fields[k].evidence.reason <= Limits.reason_bytes
       /\ Len(locators) <= Limits.locators
       /\ MapThenSumSet(LAMBDA r : r[3], ranges) <= Limits.cited_bytes

(* add_field, add_content_bytes and add_normalized_value.                  *)
PayloadBudget(trace) ==
    LET payload == PayloadFields(trace)
        values == PayloadValues(payload)
    IN /\ \A i \in DOMAIN trace.events :
             Len(trace.events[i].payload) <= Limits.fields_per_object
       /\ \A k \in DOMAIN values : /\ values[k].depth <= Limits.depth
                                   /\ values[k].object_width <= Limits.fields_per_object
                                   /\ values[k].array_width <= Limits.array_items
                                   /\ values[k].string_bytes <= Limits.string_bytes
       /\ SumSeq(LAMBDA v : v.nodes, values) <= Limits.nodes
       /\ Len(payload) + SumSeq(LAMBDA v : Cardinality(v.keys), values) <= Limits.fields_total
       /\ SumSeq(LAMBDA p : KeyBytes(p.name), payload) + SumSeq(LAMBDA v : v.bytes, values)
            <= Limits.content_bytes

CaptureBytes(raws) == SumSeq(LAMBDA r : r.bytes, raws)

ValidateResourceBudget(trace, raws, decl) ==
    /\ Len(raws) <= Limits.records /\ Len(trace.events) <= Limits.events
    /\ \A i \in DOMAIN raws : raws[i].bytes <= Limits.record_bytes
    /\ CaptureBytes(raws) <= Limits.capture_bytes
    /\ Len(raws) = trace.raw_capture.record_count
    /\ trace.events # <<>> /\ Len(trace.events) = Len(raws)
    /\ EvidenceBudget(trace) /\ PayloadBudget(trace)

(* One event of validate_trace; index counts from 0.                       *)
ValidateEvent(e, index, raws, decl) ==
    /\ LET fields == EventFields(e)
       IN \A k \in DOMAIN fields : ValidateRequiredField(fields[k], raws, decl)
    /\ ValidateIdentifier(e.event_id.value[1])
    /\ e.sequence_index.value[1] = index
    /\ \A k \in DOMAIN e.source_item_id : ValidateIdentifier(e.source_item_id[k].value[1])
    /\ e.raw_record.record_index = index
    /\ e.raw_record.digest = RawRecordDigest(raws[index + 1])
    /\ \A k \in DOMAIN e.payload : /\ e.payload[k].name \in ValidNames
                                   /\ ValidateNormalizedValue(e.payload[k].field.value[1])

(* validate_trace.                                                         *)
ValidateTrace(trace, raws, decl) ==
    /\ ValidateResourceBudget(trace, raws, decl)
    /\ trace.compact <= Limits.compact_json
    /\ trace.schema = TraceSchema
    /\ ValidateBinding(trace.adapter) /\ trace.adapter = decl.adapter
    /\ ValidateBinding(trace.policy) /\ trace.policy = decl.policy
    /\ trace.raw_capture = decl.raw_capture
    /\ \A i \in DOMAIN raws : RejectDuplicateJsonKeys(raws[i].tokens) = "object"
    /\ trace.raw_capture = RawCaptureSeal(raws)
    /\ ValidateRequiredField(trace.run_id, raws, decl) /\ ValidateIdentifier(trace.run_id.value[1])
    /\ \A i \in DOMAIN trace.events : ValidateEvent(trace.events[i], i - 1, raws, decl)
    /\ NoRepeats([i \in DOMAIN trace.events |-> trace.events[i].event_id.value[1]])

-----------------------------------------------------------------------------
(* Canonical bytes.                                                        *)
CanonicalHeaderBytes(trace) ==
    <<trace.schema, trace.run_id, trace.adapter, trace.policy, trace.raw_capture, Len(trace.events)>>

CanonicalEventBytes(e) ==
    <<e.event_id, e.sequence_index, e.kind, e.source_item_id, e.raw_record, e.payload>>

CanonicalBytes(trace) ==
    <<CanonicalHeaderBytes(trace), [i \in DOMAIN trace.events |-> CanonicalEventBytes(trace.events[i])]>>

TrajectoryDigest(trace) == FramedSha256("trace", CanonicalBytes(trace))

-----------------------------------------------------------------------------
(* Replay candidates.                                                      *)
GenesisHead(trace) ==
    FramedSha256("replay.genesis",
        <<trace.schema, trace.adapter, trace.policy, trace.raw_capture,
          TrajectoryDigest(trace), Len(trace.events)>>)

ChainStep(previous, e) ==
    FramedSha256("replay.chain-step",
        <<previous, e.sequence_index.value[1], e.event_id.value[1], e.raw_record.digest,
          FramedSha256("replay.canonical-event", CanonicalEventBytes(e))>>)

(* trajectory_replay_candidate_v0.                                         *)
ReplayCandidate(trace) ==
    LET head[i \in 0..Len(trace.events)] ==
            IF i = 0 THEN GenesisHead(trace) ELSE ChainStep(head[i - 1], trace.events[i])
        record(i) == [sequence_index |-> trace.events[i].sequence_index.value[1],
                      event_id |-> trace.events[i].event_id.value[1],
                      raw_record_digest |-> trace.events[i].raw_record.digest,
                      canonical_event_digest |->
                          FramedSha256("replay.canonical-event", CanonicalEventBytes(trace.events[i])),
                      previous_head |-> head[i - 1], resulting_head |-> head[i]]
    IN [schema |-> trace.schema, adapter |-> trace.adapter, policy |-> trace.policy,
        raw_capture |-> trace.raw_capture, trajectory_digest |-> TrajectoryDigest(trace),
        record_count |-> Len(trace.events), genesis_head |-> head[0],
        records |-> [i \in DOMAIN trace.events |-> record(i)],
        final_head |-> head[Len(trace.events)]]

(* from_replay_candidate.                                                  *)
Anchor(c) ==
    [schema |-> c.schema, adapter |-> c.adapter, policy |-> c.policy, raw_capture |-> c.raw_capture,
     trajectory_digest |-> c.trajectory_digest, record_count |-> c.record_count,
     genesis_head |-> c.genesis_head, expected_final_head |-> c.final_head]

-----------------------------------------------------------------------------
(* The Rust types of a trace: what a value that decodes as one is.  A      *)
(* citation has exactly one locator; a derivation may have none.           *)
FieldIsTyped(f) ==
    /\ f.evidence.class = "cites" => f.evidence.inputs # <<>>
    /\ f.evidence.inputs \in Seq(ToSet(f.evidence.inputs))
    /\ \A i \in DOMAIN f.evidence.inputs : f.evidence.inputs[i].record_index \in Nat
    /\ f.evidence.class \in {"cites", "derived", "unavailable"}

EventIsTyped(e) ==
    /\ e = [event_id |-> e.event_id, sequence_index |-> e.sequence_index, kind |-> e.kind,
            source_item_id |-> e.source_item_id, raw_record |-> e.raw_record, payload |-> e.payload]
    /\ e.source_item_id \in Seq(ToSet(e.source_item_id)) /\ e.payload \in Seq(ToSet(e.payload))
    /\ \A k \in DOMAIN EventFields(e) : FieldIsTyped(EventFields(e)[k])

TraceIsTyped(t) ==
    /\ t = [schema |-> t.schema, run_id |-> t.run_id, adapter |-> t.adapter, policy |-> t.policy,
            raw_capture |-> t.raw_capture, compact |-> t.compact, events |-> t.events]
    /\ FieldIsTyped(t.run_id)
    /\ t.events \in Seq(ToSet(t.events)) /\ \A i \in DOMAIN t.events : EventIsTyped(t.events[i])

-----------------------------------------------------------------------------
(* JSON files: [size, line, tokens, shape, format, value]; line tells that *)
(* the bytes are one line ended by a newline, shape names the closed wire  *)
(* type the document decodes as (each refuses the fields of the others),   *)
(* format tells that the format and version strings are right.             *)
Good(v) == [code |-> "ok", value |-> v]
Bad(code) == [code |-> code, value |-> <<>>]

(* The ? operator: the value goes on, an error is returned.                *)
Then(r, Next(_)) == IF r.code = "ok" THEN Next(r.value) ELSE r

(* preflight_json_line and preflight_json_object.                          *)
PreflightJson(file, cap, limits, line) ==
    With(ScanJsonWithLimits(file.tokens, limits), LAMBDA root :
       CASE file.size > cap -> "input-too-large"
         [] file.size <= cap /\ line /\ ~file.line -> "json-framing"
         [] OTHER -> CASE root = "object" -> "ok"
                       [] root = "other" -> "json-shape"
                       [] root = "budget" -> "input-too-large"
                       [] OTHER -> "json-syntax")

Decoded(file, wire, preflight, parsed) ==
    IF preflight # "ok" THEN Bad(preflight)
    ELSE IF file.shape # wire THEN Bad("json-shape")
    ELSE IF ~file.format THEN Bad("unsupported-format")
    ELSE IF parsed THEN Good(file.value) ELSE Bad("json-shape")

(* TrajectoryTraceV0::from_json_slice.                                     *)
ReadTrace(file) ==
    IF file.size > Limits.trace_json THEN Bad("validation")
    ELSE IF RejectDuplicateJsonKeys(file.tokens) \in {"object", "other"} /\ file.shape = "trace"
    THEN Good(file.value)
    ELSE Bad("validation")

(* ExactRawRecordSetV0::from_json_slice.                                   *)
ReadRawRecordSet(file) ==
    With(    Decoded(file, "raws", PreflightJson(file, Limits.raw_set_json, ScanLimits, FALSE),
                     file.value # <<>> /\ Len(file.value) <= Limits.records), LAMBDA d :
       IF d.code # "ok" THEN d
       ELSE IF \/ \E i \in DOMAIN d.value : d.value[i].bytes > Limits.record_bytes
               \/ CaptureBytes(d.value) > Limits.capture_bytes
       THEN Bad("input-too-large") ELSE d)

(* DeclaredTrajectoryValidationContextV0::from_json_slice; the derivations *)
(* come as a list and must be distinct.                                    *)
ReadDeclaredContext(file) ==
    With(file.value, LAMBDA v :
    With(    Decoded(file, "declared-context", PreflightJson(file, Limits.context_json, ScanLimits, FALSE),
                     /\ ValidateBinding(v.adapter) /\ ValidateBinding(v.policy)
                     /\ IsDigest(v.raw_capture.digest)
                     /\ v.raw_capture.record_count \in 1..Limits.records
                     /\ Len(v.derivations) <= Limits.events
                     /\ \A k \in DOMAIN v.derivations : ValidateBinding(v.derivations[k])
                     /\ NoRepeats(v.derivations)), LAMBDA d :
       IF d.code # "ok" THEN d
       ELSE Good([adapter |-> v.adapter, policy |-> v.policy, raw_capture |-> v.raw_capture,
                  allowed_derivations |-> ToSet(v.derivations)])))

(* try_into_candidate: the shape of the chain, not its digests.            *)
CandidateIsChained(c) ==
    /\ ValidateBinding(c.schema) /\ ValidateBinding(c.adapter) /\ ValidateBinding(c.policy)
    /\ IsDigest(c.raw_capture.digest) /\ IsDigest(c.trajectory_digest)
    /\ IsDigest(c.genesis_head) /\ IsDigest(c.final_head)
    /\ c.records # <<>> /\ Len(c.records) <= Limits.events
    /\ Len(c.records) = c.record_count /\ c.raw_capture.record_count = c.record_count
    /\ \A i \in DOMAIN c.records :
          /\ c.records[i].sequence_index = i - 1
          /\ ValidateIdentifier(c.records[i].event_id)
          /\ IsDigest(c.records[i].raw_record_digest) /\ IsDigest(c.records[i].canonical_event_digest)
          /\ IsDigest(c.records[i].resulting_head)
          /\ c.records[i].previous_head = IF i = 1 THEN c.genesis_head
                                          ELSE c.records[i - 1].resulting_head
    /\ c.records[Len(c.records)].resulting_head = c.final_head

ReadCandidate(file) ==
    Decoded(file, "candidate", PreflightJson(file, Limits.replay_json, ScanLimits, TRUE),
            CandidateIsChained(file.value))

-----------------------------------------------------------------------------
(* Authority receipts: [issuer, algorithm, key_id, authority_epoch,        *)
(* anchor, signature]; trust policies: [issuer, algorithm, key_id,         *)
(* accepted_authority_epoch, verification_key].                            *)

SignatureMessage(r) == <<r.issuer, r.algorithm, r.key_id, r.authority_epoch, r.anchor>>

Sign(key, message) == <<key, message>>

(* issue_trajectory_replay_authority_receipt_v0.                           *)
IssueReceipt(trace, key, issuer, key_id, epoch) ==
    LET r == [issuer |-> issuer, algorithm |-> "ed25519", key_id |-> key_id,
              authority_epoch |-> epoch, anchor |-> Anchor(ReplayCandidate(trace)), signature |-> <<>>]
    IN IF issuer \notin ValidNames \/ key_id \notin ValidNames \/ epoch = 0 THEN Bad("json-shape")
       ELSE Good([r EXCEPT !.signature = Sign(key, SignatureMessage(r))])

(* try_into_anchor.                                                        *)
AnchorIsWellFormed(a) ==
    /\ a.record_count \in 1..Limits.events /\ a.raw_capture.record_count = a.record_count
    /\ IsDigest(a.raw_capture.digest) /\ IsDigest(a.trajectory_digest)
    /\ IsDigest(a.genesis_head) /\ IsDigest(a.expected_final_head)
    /\ ValidateBinding(a.schema) /\ ValidateBinding(a.adapter) /\ ValidateBinding(a.policy)

(* try_into_unverified.                                                    *)
ReadReceipt(file) ==
    With(file.value, LAMBDA r :
    With(Decoded(file, "receipt", PreflightJson(file, Limits.receipt_json, ScanLimits, TRUE), TRUE), LAMBDA d :
       IF d.code # "ok" THEN d
       ELSE IF r.issuer \notin ValidNames \/ r.key_id \notin ValidNames THEN Bad("json-shape")
       ELSE IF r.algorithm # "ed25519" \/ r.authority_epoch = 0 THEN Bad("unsupported-format")
       ELSE IF r.signature # <<>> /\ AnchorIsWellFormed(r.anchor) THEN Good(r) ELSE Bad("json-shape")))

(* try_into_policy.                                                        *)
ReadTrustPolicy(file) ==
    With(file.value, LAMBDA p :
    With(Decoded(file, "trust", PreflightJson(file, Limits.trust_json, ScanLimits, TRUE), TRUE), LAMBDA d :
       IF d.code # "ok" THEN d
       ELSE IF p.algorithm # "ed25519" THEN Bad("unsupported-format")
       ELSE IF /\ p.issuer \in ValidNames /\ p.key_id \in ValidNames
               /\ p.accepted_authority_epoch # 0
       THEN Good(p) ELSE Bad("json-shape")))

(* verify_replay_authority_receipt_v0.                                     *)
ReceiptIsTrusted(r, p) ==
    /\ r.issuer = p.issuer /\ r.algorithm = p.algorithm /\ r.key_id = p.key_id
    /\ r.authority_epoch = p.accepted_authority_epoch
    /\ r.signature = Sign(p.verification_key, SignatureMessage(r))

(* verify_trajectory_replay_v0.                                            *)
VerifyReplay(trace, supplied, receipt) ==
    LET recomputed == ReplayCandidate(trace)
    IN IF supplied # recomputed THEN Bad("replay-candidate-mismatch")
       ELSE IF receipt.anchor # Anchor(recomputed) THEN Bad("authority-receipt-binding-mismatch")
       ELSE Good([replay |-> recomputed, authority_receipt |-> receipt])
=============================================================================

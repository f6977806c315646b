---------------------------- MODULE CodexBundles ----------------------------
(***************************************************************************)
(* The privacy scan of public surfaces (sanitizer.rs), and adaptation of   *)
(* an authorized capture with the private and public bundles made of it    *)
(* (bundle.rs, bundle_wire.rs).                                            *)
(*                                                                         *)
(* The scan is that of text values, and the byte scan for fixed patterns,  *)
(* which works in chunks.  What a text looks like is its first element:    *)
(* plain, uuid7 (a thread id of the derived form), or one of the shapes    *)
(* the detectors find.                                                     *)
(*                                                                         *)
(* An adapted capture is [file, trace, declarations, commitment, class].   *)
(* A file that holds JSON is a document of Trajectory with exact, which    *)
(* tells that its bytes are the ones serialization gives for its value.    *)
(***************************************************************************)
EXTENDS CodexReceipts, CodexStream

CONSTANTS ChunkBytes,      \* PUBLIC_SCAN_CHUNK_BYTES_V0
          Patterns,        \* PUBLIC_SCAN_PATTERNS_V0, sequences of bytes
          MaxPattern,      \* PUBLIC_SCAN_MAX_PATTERN_BYTES_V0
          PrivateNames     \* names of artifacts that look private, such as an address

ASSUME PatternsFit == \A p \in Patterns : p # <<>> /\ Len(p) <= MaxPattern

(* The shapes that scan_text_value rejects, one for each test it makes     *)
(* (the detectors of the shapes themselves are not modelled).              *)
PrivateShapes ==
    {"control", "space", "pattern", "email", "ipv4", "ipv6", "url", "access-key", "jwt", "home-path", "uuid"}

(* scan_text_value.                                                        *)
ScanText(text, allowDerivedUuid) ==
    text = <<>> \/ (text[1] \notin PrivateShapes /\ (text[1] = "uuid7" => allowDerivedUuid))

(* The strings of an object outside its closed words.                      *)
ItemTexts(it) ==
    {it.text, it.output} \cup {it.changes[k].path : k \in DOMAIN it.changes}
      \cup {it.todos[k].text : k \in DOMAIN it.todos}

(* scan_json_value on one record.                                          *)
ScanRecord(json) ==
    /\ ScanText(json.thread, json.type = "thread.started") /\ ScanText(json.text, FALSE)
    /\ IsItem(json) => \A t \in ItemTexts(json.item) : ScanText(t, FALSE)

(* scan_public_child_jsonl; the pattern scan before it rejects with the    *)
(* same code what the text scan would.  A line that repeats a name is      *)
(* rejected here; the code rejects it a little later, when it is framed.   *)
ScanChild(file) ==
    /\ file.utf8
    /\ \A i \in DOMAIN file.lines :
          file.lines[i].bytes = 0
            \/ (ScanJsonWithLimits(file.lines[i].tokens, CodexLimits.scan) \in {"object", "budget"}
                  /\ ScanRecord(file.lines[i].text.json))

(* scan_bundle_value and scan_trace_value: the names, and the strings of   *)
(* the trace, of which only the observed thread id may be a UUID.          *)
ScanBundle(policy, trace) ==
    /\ policy.identity \notin PrivateNames
    /\ \A i \in DOMAIN trace.events : \A k \in DOMAIN trace.events[i].payload :
          LET p == trace.events[i].payload[k]
          IN p.name = "observed-thread-id" => ScanText(p.field.value[1].text, TRUE)

-----------------------------------------------------------------------------
(* The byte scan.                                                          *)
Lower(b) == IF b = "P" THEN "p" ELSE b

ContainsPattern(window) ==
    \E p \in Patterns : \E i \in 0..(Len(window) - Len(p)) :
        \A k \in DOMAIN p : Lower(window[i + k]) = p[k]

Chunks(surface) ==
    [k \in 1..((Len(surface) + ChunkBytes - 1) \div ChunkBytes) |->
        SubSeq(surface, (k - 1) * ChunkBytes + 1,
               IF k * ChunkBytes > Len(surface) THEN Len(surface) ELSE k * ChunkBytes)]

LastBytes(s, n) == IF Len(s) <= n THEN s ELSE SubSeq(s, Len(s) - n + 1, Len(s))

(* PUBLIC_SCAN_OVERLAP_BYTES_V0 of the window go on to the next chunk.     *)
Carried(window) == LastBytes(window, MaxPattern - 1)

(* scan_fixed_patterns_and_controls.                                       *)
ScanFixedPatterns(surface) ==
    LET step(s, chunk) ==
            LET window == s.carry \o [i \in DOMAIN chunk |-> Lower(chunk[i])]
            IN IF s.rejected THEN s
               ELSE IF "ctl" \in ToSet(chunk) \/ ContainsPattern(window)
               THEN [s EXCEPT !.rejected = TRUE]
               ELSE [s EXCEPT !.carry = Carried(window)]
    IN FoldLeft(step, [rejected |-> FALSE, carry |-> <<>>], Chunks(surface)).rejected

-----------------------------------------------------------------------------
(* Adaptation and bundles. *)

CONSTANTS ProjectedBytes(_)    \* trace as JSON and its canonical bytes in hex

ObjectTokens == <<[t |-> "object", key |-> <<>>, bytes |-> 0], [t |-> "end", key |-> <<>>, bytes |-> 0]>>
Document(shape, v, size) == [size |-> size, line |-> TRUE, tokens |-> ObjectTokens, shape |-> shape,
                             format |-> TRUE, exact |-> TRUE, value |-> v]

(* adapt_framed.                                                           *)
AdaptFramed(file, authority, trusted) ==
    With(Authorize(authority, file, trusted), LAMBDA auth :
    With(ReadStream(file, ProcessTermination(authority), authority.seal, trusted.policy), LAMBDA stream :
       IF auth # "ok" THEN Bad(auth)
       ELSE IF stream.code # "ok" THEN stream
       ELSE Good([file |-> file, trace |-> stream.value.trace, declarations |-> stream.value.declarations,
                  commitment |-> Commitment(authority), class |-> authority.class])))

(* adapt and adapt_owned.                                                  *)
Adapt(file, authority, trusted) ==
    With(Frame(file), LAMBDA framed :
         IF framed # "ok" THEN Bad(framed) ELSE AdaptFramed(file, authority, trusted))

(* adapt_public_sanitized_owned.                                           *)
AdaptPublic(file, seal, policy) ==
    With(FramedSha256("public-child-authority",
                      <<FullDigest(file), seal.digest, policy, Adapter.hash, SanitizerBinding.hash>>), LAMBDA commitment :
    With(Frame(file), LAMBDA framed :
    With(NewContext(commitment, policy), LAMBDA context :
    With(ReadStream(file, <<>>, seal, policy), LAMBDA stream :
       IF framed # "ok" THEN Bad(framed)
       ELSE IF context.code # "ok" THEN context
       ELSE IF stream.code # "ok" THEN stream
       ELSE Good([file |-> file, trace |-> stream.value.trace, declarations |-> stream.value.declarations,
                  commitment |-> commitment, class |-> "public-child"])))))

-----------------------------------------------------------------------------
(* components.                                                             *)
ManifestEntry(role, ordinal, bytes) ==
    [role |-> role, ordinal |-> ordinal, digest |-> FramedSha256(role, bytes)]

Components(adapted) ==
    LET json == Document("trace", adapted.trace, adapted.trace.compact)
        canonical == CanonicalBytes(adapted.trace)
    IN IF ~ValidateTrace(adapted.trace, adapted.file.lines, adapted.declarations) THEN Bad("validation")
       ELSE IF ProjectedBytes(adapted.trace) > CodexLimits.bundle THEN Bad("input-too-large")
       ELSE Good([trace_json |-> json, canonical |-> canonical, digest |-> TrajectoryDigest(adapted.trace),
                  manifest |-> <<ManifestEntry("official-trace-json", 0, json),
                                 ManifestEntry("canonical-trace", 1, canonical)>>])

(* private_transformation_receipt.                                         *)
TransformationReceipt(adapted, components) ==
    [commitment |-> adapted.commitment, seal |-> adapted.trace.raw_capture, adapter |-> Adapter,
     schema |-> TraceSchema, policy |-> adapted.declarations.policy,
     transformation |-> IF adapted.class = "sanitized-derived-capture" THEN SanitizerPolicyBinding
                        ELSE BindingFromRegistries("private-identity", <<"private-policy">>),
     digest |-> components.digest, manifest |-> components.manifest,
     sanitized_seal |-> IF adapted.class = "sanitized-derived-capture"
                        THEN <<adapted.trace.raw_capture>> ELSE <<>>]

(* serialize_line: the line and its newline.                               *)
SerializeLine(v, trace) ==
    IF ProjectedBytes(trace) + CodexLimits.envelope > CodexLimits.bundle - 1 THEN Bad("input-too-large")
    ELSE Good(Document("bundle", v, ProjectedBytes(trace) + CodexLimits.envelope + 1))

(* to_private_bundle and to_json_line.                                     *)
PrivateBundle(adapted) ==
    With(Components(adapted), LAMBDA c :
       IF c.code # "ok" THEN c
       ELSE SerializeLine(
                [class |-> adapted.class, commitment |-> adapted.commitment, schema |-> TraceSchema,
                 adapter |-> Adapter, policy |-> adapted.declarations.policy,
                 trace_json |-> c.value.trace_json, canonical |-> c.value.canonical,
                 digest |-> c.value.digest, manifest |-> c.value.manifest,
                 transformation |-> TransformationReceipt(adapted, c.value)], adapted.trace))

(* publication_fields.                                                     *)
PublicationFields(adapted, projection) ==
    With(Components(adapted), LAMBDA c :
       IF adapted.class # "sanitized-derived-capture" THEN Bad("public-shareability-denied")
       ELSE IF c.code # "ok" THEN c
       ELSE Good([receipt |-> projection, schema |-> TraceSchema, adapter |-> Adapter,
                  policy |-> adapted.declarations.policy, sanitizer |-> SanitizerBinding,
                  trace_json |-> c.value.trace_json, canonical |-> c.value.canonical,
                  digest |-> c.value.digest, manifest |-> c.value.manifest, format |-> TRUE,
                  transformation |-> [format |-> TRUE, adapter |-> Adapter, schema |-> TraceSchema,
                      policy |-> adapted.declarations.policy, sanitizer_policy |-> SanitizerPolicyBinding,
                      digest |-> c.value.digest, seal |-> adapted.trace.raw_capture,
                      manifest |-> c.value.manifest]]))

(* render_expected_publication_bytes.                                      *)
RenderPublication(adapted, authority) ==
    With(PublicDerivedProjection(authority), LAMBDA projection :
    With(PublicationFields(adapted, projection.value), LAMBDA fields :
    With(SerializeLine(fields.value, adapted.trace), LAMBDA line :
       IF projection.code # "ok" THEN projection
       ELSE IF fields.code # "ok" THEN fields
       ELSE IF line.code # "ok" THEN line
       ELSE IF ScanBundle(adapted.declarations.policy, adapted.trace) THEN line
       ELSE Bad("sanitizer-rejected"))))

-----------------------------------------------------------------------------
(* Reading bundles back.                                                   *)

(* preflight_bundle and the closed wire types.                             *)
InspectBundle(file) ==
    With(ScanJsonWithLimits(file.tokens, ScanLimits), LAMBDA root :
       IF file.size > CodexLimits.bundle \/ ~file.line THEN Bad("json-framing")
       ELSE IF root = "other" \/ (root = "object" /\ file.shape # "bundle") THEN Bad("json-shape")
       ELSE IF root = "budget" THEN Bad("json-budget")
       ELSE IF root = "invalid" THEN Bad("json-syntax") ELSE Good(file))

(* The trace a bundle carries, read and validated anew.                    *)
SuppliedTraceHolds(bundle, adapted) ==
    With(ReadTrace(bundle.value.trace_json), LAMBDA t :
       t.code = "ok" /\ ValidateTrace(t.value, adapted.file.lines, adapted.declarations))

(* Mutant: of the bundle made again only the trace is compared.            *)
RevalidatePrivateTrace(bundle, file, authority, trusted) ==
    With(Adapt(file, authority, trusted), LAMBDA adapted :
    With(PrivateBundle(adapted.value), LAMBDA again :
       IF ReadTrace(bundle.value.trace_json).code # "ok" THEN Bad("bundle-mismatch")
       ELSE IF adapted.code # "ok" THEN adapted
       ELSE IF ~SuppliedTraceHolds(bundle, adapted.value) THEN Bad("bundle-mismatch")
       ELSE IF again.code # "ok" THEN again
       ELSE IF bundle.value.trace_json = again.value.value.trace_json THEN adapted ELSE Bad("bundle-mismatch")))

(* InspectedPrivateAdapterBundleV0::revalidate.                            *)
RevalidatePrivate(bundle, file, authority, trusted) ==
    With(Adapt(file, authority, trusted), LAMBDA adapted :
    With(PrivateBundle(adapted.value), LAMBDA again :
       IF ReadTrace(bundle.value.trace_json).code # "ok" THEN Bad("bundle-mismatch")
       ELSE IF adapted.code # "ok" THEN adapted
       ELSE IF ~SuppliedTraceHolds(bundle, adapted.value) THEN Bad("bundle-mismatch")
       ELSE IF again.code # "ok" THEN again
       ELSE IF bundle.exact /\ bundle.value = again.value.value THEN adapted ELSE Bad("bundle-mismatch")))

(* revalidate_expected.                                                    *)
RevalidateExpected(bundle, adapted, expected) ==
    IF SuppliedTraceHolds(bundle, adapted) /\ bundle.exact /\ bundle.value = expected.value
    THEN Good(adapted) ELSE Bad("bundle-mismatch")

(* The bindings of a public bundle agree with each other.                  *)
PublicBindingsAgree(w) ==
    /\ w.format /\ w.receipt.format /\ w.transformation.format
    /\ w.receipt.policy = SanitizerPolicyBinding /\ w.receipt.artifact = SanitizerBinding
    /\ w.schema = TraceSchema /\ w.adapter = Adapter /\ w.sanitizer = SanitizerBinding
    /\ w.transformation.adapter = w.adapter /\ w.transformation.schema = w.schema
    /\ w.transformation.policy = w.policy
    /\ w.transformation.sanitizer_policy = w.receipt.policy
    /\ w.transformation.digest = w.digest /\ w.transformation.seal = w.receipt.seal
    /\ w.transformation.manifest = w.manifest

(* revalidate_public_projection.                                           *)
RevalidatePublic(bundle, file) ==
    With(bundle.value, LAMBDA w :
    With(AdaptPublic(file, w.receipt.seal, w.policy), LAMBDA adapted :
    With(Components(adapted.value), LAMBDA c :
       IF ~ScanChild(file) THEN Bad("sanitizer-rejected")
       ELSE IF ~PublicBindingsAgree(w) THEN Bad("bundle-mismatch")
       ELSE IF Frame(file) # "ok" THEN Bad(Frame(file))
       ELSE IF \/ w.receipt.length # file.size \/ w.receipt.digest # FullDigest(file)
               \/ w.receipt.seal # RawCaptureSeal(file.lines)
       THEN Bad("receipt-mismatch")
       ELSE IF adapted.code # "ok" THEN adapted
       ELSE IF ~SuppliedTraceHolds(bundle, adapted.value) THEN Bad("bundle-mismatch")
       ELSE IF w.trace_json.value # adapted.value.trace THEN Bad("bundle-mismatch")
       ELSE IF c.code # "ok" THEN c
       ELSE IF /\ w.trace_json = c.value.trace_json /\ w.canonical = c.value.canonical
               /\ w.digest = c.value.digest /\ w.manifest = c.value.manifest
       THEN adapted ELSE Bad("bundle-mismatch"))))
=============================================================================

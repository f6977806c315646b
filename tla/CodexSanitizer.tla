--------------------------- MODULE CodexSanitizer ---------------------------
(***************************************************************************)
(* The sanitizer (sanitizer.rs), the publication transaction               *)
(* (publication_authority.rs) and the owner-private lineage sidecar        *)
(* (lineage_sidecar.rs).                                                   *)
(*                                                                         *)
(* A sidecar file is [size, framed, fits, exact, child, authority,         *)
(* context, parent, nonce, lineage]: whether magic, version and lengths    *)
(* are right, whether each length is within its cap, whether authority and *)
(* context are spelled canonically, and its parts.                         *)
(***************************************************************************)
EXTENDS CodexBundles

CONSTANTS LineBytes(_)     \* length of a rewritten record

Slots == {"message", "reasoning", "diagnostic", "command", "output", "path", "todo"}
NoPseudonyms == [s \in Slots |-> <<>>]

(* PseudonymMapV0::get: a slot lists its texts in the order they came and  *)
(* the prefix each was first met with; the pseudonym is the prefix and the *)
(* number.                                                                 *)
Learn(map, text, prefix) ==
    IF \E k \in DOMAIN map : map[k][1] = text THEN map ELSE Append(map, <<text, prefix>>)
Pseudonym(map, text) ==
    LET k == CHOOSE i \in DOMAIN map : map[i][1] = text IN <<"plain", map[k][2], k - 1>>

LearnAll(map, texts, prefix) == FoldLeft(LAMBDA m, t : Learn(m, t, prefix), map, texts)

(* The slot and the prefix of the text of a record or an item.             *)
TextSlot(json) ==
    CASE json.type = "turn.failed" -> <<"diagnostic", "turn_error">>
      [] json.type = "error" -> <<"diagnostic", "stream_error">>
      [] IsItem(json) /\ json.item.type = "agent_message" -> <<"message", "message">>
      [] IsItem(json) /\ json.item.type = "reasoning" -> <<"reasoning", "reasoning_summary">>
      [] IsItem(json) /\ json.item.type = "error" -> <<"diagnostic", "item_error">>
      [] IsItem(json) /\ json.item.type = "command_execution" -> <<"command", "command">>
      [] OTHER -> <<>>

(* Mutant: the output of a failed command is kept.                         *)
RewrittenOutputFailedKept(maps, life, it) ==
    IF life = "started" \/ it.output = <<>> THEN <<>>
    ELSE IF it.status = "failed" THEN it.output ELSE Pseudonym(maps.output, it.output)

RewrittenOutput(maps, life, it) ==
    IF life = "started" \/ it.output = <<>> THEN <<>> ELSE Pseudonym(maps.output, it.output)

(* array.sort_by on the path, which is stable.                             *)
SortedChanges(changes) == SortSeq(changes, LAMBDA a, b : a.path[3] < b.path[3])

(* What the item teaches the maps, in the order of sanitize_item.          *)
LearnItem(maps, life, it) ==
    CASE it.type = "command_execution" /\ life # "started" /\ it.output # <<>> ->
            [maps EXCEPT !.output = Learn(@, it.output, "output")]
      [] it.type = "file_change" ->
            [maps EXCEPT !.path = LearnAll(@, [k \in DOMAIN it.changes |-> it.changes[k].path], "path")]
      [] it.type = "todo_list" ->
            [maps EXCEPT !.todo = LearnAll(@, [k \in DOMAIN it.todos |-> it.todos[k].text], "todo")]
      [] OTHER -> maps

LearnRecord(maps, json) ==
    LET slot == TextSlot(json)
        text == IF IsItem(json) THEN json.item.text ELSE json.text
        maps1 == IF slot = <<>> THEN maps ELSE [maps EXCEPT ![slot[1]] = Learn(@, text, slot[2])]
    IN IF IsItem(json) THEN LearnItem(maps1, Lifecycles[json.type], json.item) ELSE maps1

(* sanitize_item.                                                          *)
SanitizeItem(maps, json) ==
    LET it == json.item
        slot == TextSlot(json)
    IN CASE it.type = "file_change" ->
              [it EXCEPT !.changes = SortedChanges([k \in DOMAIN it.changes |->
                                         [it.changes[k] EXCEPT !.path = Pseudonym(maps.path, @)]])]
         [] it.type = "todo_list" ->
              [it EXCEPT !.todos = [k \in DOMAIN it.todos |->
                                        [it.todos[k] EXCEPT !.text = Pseudonym(maps.todo, @)]]]
         [] it.type = "command_execution" ->
              [it EXCEPT !.text = Pseudonym(maps.command, @),
                         !.output = RewrittenOutput(maps, Lifecycles[json.type], it)]
         [] OTHER -> [it EXCEPT !.text = Pseudonym(maps[slot[1]], @)]

(* sanitize_record, with the maps that know the record.                    *)
SanitizeRecord(maps, json, thread) ==
    CASE json.type = "thread.started" -> [json EXCEPT !.thread = thread]
      [] json.type \in {"turn.failed", "error"} ->
            [json EXCEPT !.text = Pseudonym(maps.diagnostic, @)]
      [] IsItem(json) -> [json EXCEPT !.item = SanitizeItem(maps, json)]
      [] OTHER -> json

(* sanitized_thread_id: a UUID of version 7 made of the nonce.             *)
SanitizedThreadId(nonce) == <<"uuid7", FramedSha256("thread-id", <<nonce.source, nonce.bytes>>)>>

(* The rewritten records; each line gets a trailing blank.                 *)
Rewrite(file, thread) ==
    LET step(s, line) ==
            With(LearnRecord(s.maps, line.text.json), LAMBDA maps :
            With(SanitizeRecord(maps, line.text.json, thread), LAMBDA json :
               [maps |-> maps,
                lines |-> Append(s.lines, [tokens |-> line.tokens, bytes |-> LineBytes(json),
                                           text |-> [json |-> json, pad |-> TRUE]])])) IN
    With(FoldLeft(step, [maps |-> NoPseudonyms, lines |-> <<>>], file.lines).lines, LAMBDA lines :
       [size |-> SumSeq(LAMBDA l : l.bytes + 1, lines), framed |-> lines # <<>>, utf8 |-> TRUE, lines |-> lines])

(* sanitize_capture_inner.                                                 *)
SanitizeInner(file, parent, trusted, nonce) ==
    With(Adapt(file, parent, trusted), LAMBDA adapted :
    With(Rewrite(file, SanitizedThreadId(nonce)), LAMBDA child :
    With(NewDerived(parent, file, child, nonce), LAMBDA authority :
    With(NewContext(Commitment(authority), trusted.policy), LAMBDA context :
    With(AdaptFramed(child, authority, context.value), LAMBDA derived :
       IF parent.class \notin {"synthetic-fixture", "genuine-process-capture"} THEN Bad("unsupported-authority")
       ELSE IF adapted.code # "ok" THEN adapted
       ELSE IF child.size > CodexLimits.jsonl THEN Bad("input-too-large")
       ELSE IF ~ScanChild(child) THEN Bad("sanitizer-rejected")
       ELSE IF Frame(child) # "ok" THEN Bad(Frame(child))
       ELSE IF AssertedParent(parent) = "none" THEN Bad("unsupported-authority")
       ELSE IF context.code # "ok" THEN context
       ELSE IF derived.code # "ok" THEN derived
       ELSE Good([adapted |-> derived.value, authority |-> authority, context |-> context.value]))))))

-----------------------------------------------------------------------------
(* publication_authority.                                                  *)

(* private_lineage_commitment.                                             *)
LineageCommitment(authority, policy, parent, nonce) ==
    FramedSha256("lineage", <<parent, nonce, authority.more.origin, authority.more.parent,
                              authority.source, policy, Adapter, TraceSchema,
                              SanitizerPolicyBinding, SanitizerBinding>>)

(* validate_attachment, against what was bound when the transaction began. *)
AttachmentHolds(s, b) ==
    /\ s.authority.more.parent_commitment = b.parent /\ Commitment(s.authority) = b.derived
    /\ s.adapted.file.size = b.length /\ FullDigest(s.adapted.file) = b.digest
    /\ s.authority.seal = b.seal /\ s.adapted.declarations.policy = b.policy
    /\ s.context.policy = b.policy
    /\ s.adapted.commitment = Commitment(s.authority) /\ s.adapted.class = s.authority.class

(* ProductionSanitizationTransactionV0::new: what it binds.                *)
Bindings(s, parent, trusted) ==
    [parent |-> Commitment(parent), derived |-> Commitment(s.authority),
     length |-> s.adapted.file.size, digest |-> FullDigest(s.adapted.file),
     seal |-> s.authority.seal, policy |-> trusted.policy]

(* sanitize_capture_v0 with the two nonces it draws.                       *)
SanitizeCapture(file, parent, trusted, nonce, reblinding) ==
    With(SanitizeInner(file, parent, trusted, nonce), LAMBDA s :
       IF nonce.bytes = <<0>> \/ reblinding.bytes \in {<<0>>, nonce.bytes} THEN Bad("entropy-unavailable")
       ELSE IF s.code # "ok" THEN s
       ELSE IF ~AttachmentHolds(s.value, Bindings(s.value, parent, trusted))
       THEN Bad("public-shareability-denied")
       ELSE Good([sanitized |-> s.value, parent |-> Commitment(parent), reblinding |-> reblinding.bytes]))

-----------------------------------------------------------------------------
(* lineage_sidecar.                                                        *)

(* decode.                                                                 *)
DecodeSidecar(file) ==
    With(DecodeAuthority(file.authority), LAMBDA authority :
    With(DecodeTrustedContext(file.context), LAMBDA context :
    With(Adapt(file.child, authority.value, context.value), LAMBDA adapted :
    With([child |-> file.child, authority |-> authority.value, context |-> context.value], LAMBDA decoded :
       IF file.size > CodexLimits.sidecar THEN Bad("input-too-large")
       ELSE IF ~file.framed THEN Bad("lineage-sidecar-shape")
       ELSE IF ~file.fits THEN Bad("input-too-large")
       ELSE IF authority.code # "ok" THEN authority
       ELSE IF authority.value.class # "sanitized-derived-capture" THEN Bad("lineage-sidecar-shape")
       ELSE IF context.code # "ok" THEN context
       ELSE IF \/ ~file.exact \/ file.parent # authority.value.more.parent_commitment
               \/ file.nonce = <<0>> \/ ~IsDigest(file.lineage)
       THEN Bad("lineage-sidecar-shape")
       ELSE IF adapted.code # "ok" THEN adapted
       ELSE IF LineageCommitment(authority.value, context.value.policy, file.parent, file.nonce) # file.lineage
       THEN Bad("lineage-sidecar-shape")
       ELSE Good(decoded)))))

(* build, which decodes what it has built.                                 *)
BuildSidecar(child, authority, context, parent, nonce, lineage) ==
    With(       [size |-> child.size + CodexLimits.envelope, framed |-> TRUE, fits |-> TRUE, exact |-> TRUE,
                 child |-> child, authority |-> Document("authority", authority, 1),
                 context |-> Document("trusted-context", context, 1),
                 parent |-> parent, nonce |-> nonce, lineage |-> lineage], LAMBDA file :
    With(DecodeSidecar(file), LAMBDA decoded :
       IF child.size > CodexLimits.jsonl THEN Bad("input-too-large")
       ELSE IF decoded.code # "ok" THEN decoded ELSE Good(file)))

(* revalidate_public_bundle.                                               *)
RevalidateWithSidecar(sidecar, bundle) ==
    With(Adapt(sidecar.child, sidecar.authority, sidecar.context), LAMBDA adapted :
    With(RenderPublication(adapted.value, sidecar.authority), LAMBDA expected :
       IF adapted.code # "ok" THEN adapted
       ELSE IF expected.code # "ok" THEN expected
       ELSE RevalidateExpected(bundle, adapted.value, expected.value)))

(* revalidate_public_bundle_for_jsonl.                                     *)
RevalidateForJsonl(sidecar, bundle, file) ==
    IF sidecar.child # file THEN Bad("receipt-mismatch") ELSE RevalidateWithSidecar(sidecar, bundle)

(* into_publication_pair: render_publication and the sidecar.              *)
PublicationPair(t) ==
    With(t.sanitized, LAMBDA s :
    With(RenderPublication(s.adapted, s.authority), LAMBDA bundle :
    With(LineageCommitment(s.authority, s.context.policy, t.parent, t.reblinding), LAMBDA lineage :
    With(BuildSidecar(s.adapted.file, s.authority, s.context, t.parent, t.reblinding, lineage), LAMBDA sidecar :
       IF \/ s.authority.more.parent_commitment # t.parent
          \/ s.adapted.declarations.policy # s.context.policy
       THEN Bad("public-shareability-denied")
       ELSE IF bundle.code # "ok" THEN bundle
       ELSE IF sidecar.code # "ok" THEN sidecar
       ELSE Good([sidecar |-> sidecar.value, bundle |-> bundle.value])))))

(* validate_semantic_pair of the command line.                             *)
ValidateSemanticPair(sidecar, bundle) ==
    With(InspectBundle(bundle), LAMBDA inspected :
    With(DecodeSidecar(sidecar), LAMBDA decoded :
       IF inspected.code # "ok" THEN inspected.code
       ELSE IF decoded.code # "ok" THEN decoded.code
       ELSE RevalidateWithSidecar(decoded.value, inspected.value).code))
=============================================================================

----------------------------- MODULE MCRecording -----------------------------
(* Three programs that share no state: the spawn handshake of a capture,   *)
(* the commands over what was recorded, and the audit of a governance      *)
(* graph.  An execution runs one of them; the variables of the others rest *)
(* in a state in which they have nothing to do.                            *)
EXTENDS CodexRuns, GraphAudit, CaptureSpawn

-----------------------------------------------------------------------------
(* Instance of the recorded-run pipeline: two private texts of a kind, two *)
(* paths whose order of appearance is not their order, two lists; captures *)
(* of four records with receipts, bundles and sidecars that belong to them *)
(* and some that do not.                                                   *)

MCKeyBytes(k) == 1
MCScanLimits == [max_depth |-> 3, max_nodes |-> 4, max_total_keys |-> 3, max_decoded_string_bytes |-> 4]
MCLimits ==
    [records |-> 9, events |-> 9, record_bytes |-> 9, capture_bytes |-> 99, fields_per_object |-> 9,
     fields_total |-> 99, content_bytes |-> 999, nodes |-> 99, depth |-> 2, array_items |-> 9,
     string_bytes |-> 3, string_scalars |-> 3, integer_digits |-> 2, locators |-> 999,
     derivation_inputs |-> 2, cited_bytes |-> 99, reason_bytes |-> 2, compact_json |-> 3,
     trace_json |-> 4, raw_set_json |-> 4, context_json |-> 4, replay_json |-> 4, receipt_json |-> 4,
     trust_json |-> 4, policy_bytes |-> 4]
MCCodexLimits ==
    [jsonl |-> 60, record |-> 6, records |-> 8, list |-> 2, scan |-> MCScanLimits, authority |-> 4,
     context |-> 4, bundle |-> 30, envelope |-> 10, sidecar |-> 60]
MCArgvLimits == [arguments |-> 3, bytes |-> 5, total |-> 10]
MCIsIdentifier(v) == v # <<>>
MCLocatedBytes(r, offset, length) == <<r.text, offset, length>>
MCProjectedBytes(trace) == 10
MCLineBytes(json) == IF json.type = "thread.started" THEN 6 ELSE 5

Binding(name) == [identity |-> name, version |-> "v0", hash |-> FramedSha256("artifact", name)]
MCSchema == Binding("schema")
MCAdapter == Binding("adapter")
MCPolicy == Binding("policy")
MCValidNames ==
    {"schema", "adapter", "policy", "private-policy", "run-id", "event-id", "source-position", "field-projection",
     "sanitizer", "fixture-spec", "capture-producer", "cli-publication", "sanitizer-policy",
     "capture-profile", "private-identity", "source-status", "exit-code", "change-count",
     "change-kinds", "todo-completed", "source-event", "observed-thread-id", "usage",
     "source-item-type", "source-lifecycle", "issuer", "key"}

-----------------------------------------------------------------------------
(* Records.                                                                *)
NoItem == [type |-> "none", decodes |-> TRUE, id |-> 0, text |-> <<>>, output |-> <<>>, exit |-> <<>>,
           status |-> "none", changes |-> <<>>, todos |-> <<>>]
Object(type) == [type |-> type, decodes |-> TRUE, thread |-> <<>>, usage |-> <<>>, text |-> <<>>, item |-> NoItem]
Thread == [Object("thread.started") EXCEPT !.thread = <<"uuid7", <<"observed", "mine">>>>]
Completed == [Object("turn.completed") EXCEPT !.usage = <<1, 2>>]
Said(type, text) == [Object(type) EXCEPT !.text = text]
Item(life, type, id) == [Object(life) EXCEPT !.item = [NoItem EXCEPT !.type = type, !.id = id]]
Spoke(type, id, text) == [Item("item.completed", type, id) EXCEPT !.item.text = text]
Began(id, text) == [Item("item.started", "command_execution", id) EXCEPT !.item.text = text, !.item.status = "in_progress"]
Ended(id, text, status, output) ==
    [Item("item.completed", "command_execution", id) EXCEPT !.item.text = text, !.item.status = status,
                                                        !.item.output = output, !.item.exit = <<0>>]
Changed(life, id, status, changes) ==
    [Item(life, "file_change", id) EXCEPT !.item.status = status, !.item.changes = changes]
Listed(life, id, todos) == [Item(life, "todo_list", id) EXCEPT !.item.todos = todos]

T1 == <<"email", "t1">>
T2 == <<"plain", "t2">>
MCAlias == [t \in {"t1", "t2", "pa", "pb"} |-> CASE t = "t1" -> "u1" [] t = "t2" -> "u2" [] t = "pa" -> "ua" [] t = "pb" -> "ub"]
PathA == <<"home-path", "pa", 1>>
PathB == <<"plain", "pb", 2>>
Change(path, kind) == [path |-> path, kind |-> kind]
Lists == {<<Change(PathB, "add")>>, <<Change(PathA, "update"), Change(PathB, "delete")>>}
Todos == {<<[text |-> T1, completed |-> FALSE]>>, <<[text |-> T1, completed |-> TRUE], [text |-> T2, completed |-> FALSE]>>}
Ids == {0, 1}

MCRecords ==
    {Thread, Object("turn.started"), Completed, Said("turn.failed", T1), Said("error", T2)}
      \cup {Spoke("agent_message", k, t) : k \in Ids, t \in {T1, <<>>}}
      \cup {Spoke("error", k, T1) : k \in Ids} \cup {Spoke("reasoning", 0, T2)}
      \cup {Began(k, T1) : k \in Ids}
      \cup {Ended(0, t, s, T2) : t \in {T1, T2}, s \in {"completed", "failed"}} \cup {Ended(1, T1, "declined", <<>>)}
      \cup {Changed("item.started", k, "in_progress", c) : k \in Ids, c \in Lists}
      \cup {Changed("item.completed", k, "completed", c) : k \in Ids, c \in Lists}
      \cup {Listed(l, k, t) : l \in DOMAIN Lifecycles, k \in Ids, t \in Todos}

-----------------------------------------------------------------------------
(* Files, by name.                                                         *)
RawA == CaptureOf(<<Thread, Object("turn.started"), Spoke("agent_message", 0, T1), Completed>>)
RawB == CaptureOf(<<Thread, Object("turn.started"), Said("error", T2), Completed>>)
Cut == CaptureOf(<<Thread, Object("turn.started"), Began(0, T1), Completed>>)
Nonce(k) == [source |-> "capture-random", bytes |-> <<k>>]
Synthetic(raw, k) == NewSynthetic(raw, FixtureSpecBinding, Nonce(k))
Observation(termination) ==
    [executable |-> Pinned.executable, executable_inode |-> 11, stdin |-> "prompt", stderr |-> "",
     termination |-> termination, tool_file |-> <<"sha256", "tool">>, tool_inode |-> 12]
Process == FromObservedProcess(Observation(<<"exited", 0>>), RawA, Nonce(3)).value
Killed == FromObservedProcess(Observation(<<"signaled", 9>>), RawA, Nonce(3)).value
ContextOf(receipt, policy) == [commitment |-> Commitment(receipt), policy |-> policy]
Sanitized == SanitizeCapture(RawA, Synthetic(RawA, 1), ContextOf(Synthetic(RawA, 1), MCPolicy), Nonce(5), Nonce(6)).value

(* A bundle and a sidecar that agree with each other, for the capture as   *)
(* it was recorded: a receipt names that capture as its own derived child. *)
Unsanitized ==
    With(NewDerived(Synthetic(RawA, 1), RawA, RawA, Nonce(5)), LAMBDA authority :
    With(ContextOf(authority, MCPolicy), LAMBDA context :
       PublicationPair([sanitized |-> [adapted |-> Adapt(RawA, authority, context).value,
                                       authority |-> authority, context |-> context],
                        parent |-> Commitment(Synthetic(RawA, 1)), reblinding |-> <<6>>]).value))

TraceA == Adapt(RawA, Synthetic(RawA, 1), ContextOf(Synthetic(RawA, 1), MCPolicy)).value.trace
Receipt(trace) == IssueReceipt(trace, "k1", "issuer", "key", 1).value
PolicyFile == [size |-> 1, text |-> "policy", utf8 |-> TRUE, toml |-> TRUE, identity |-> "policy",
               version |-> "v0", supported |-> TRUE, canonical |-> TRUE]
Trust == [issuer |-> "issuer", algorithm |-> "ed25519", key_id |-> "key",
          accepted_authority_epoch |-> 1, verification_key |-> "k1"]

CatalogOf(sanitized, pair, own, trace, process, killed) ==
    [rawA |-> RawA, rawB |-> RawB, cut |-> Cut, child |-> sanitized.adapted.file,
     authA |-> Document("authority", Synthetic(RawA, 1), 1), authA2 |-> Document("authority", Synthetic(RawA, 2), 1),
     authB |-> Document("authority", Synthetic(RawB, 1), 1), authCut |-> Document("authority", Synthetic(Cut, 1), 1),
     authP |-> Document("authority", process, 1), authK |-> Document("authority", killed, 1),
     authC |-> Document("authority", sanitized.authority, 1),
     ctxA |-> Document("trusted-context", ContextOf(Synthetic(RawA, 1), MCPolicy), 1),
     ctxA2 |-> Document("trusted-context", ContextOf(Synthetic(RawA, 2), MCPolicy), 1),
     ctxB |-> Document("trusted-context", ContextOf(Synthetic(RawB, 1), MCPolicy), 1),
     ctxCut |-> Document("trusted-context", ContextOf(Synthetic(Cut, 1), MCPolicy), 1),
     ctxP |-> Document("trusted-context", ContextOf(process, MCPolicy), 1), ctxK |-> Document("trusted-context", ContextOf(killed, MCPolicy), 1),
     ctxPrivate |-> Document("trusted-context", ContextOf(Synthetic(RawA, 1), Binding("private-policy")), 1),
     ctxReserved |-> Document("trusted-context", ContextOf(Synthetic(RawA, 1), Binding("adapter")), 1),
     pub |-> pair.bundle, swapped |-> [pair.bundle EXCEPT !.value.trace_json = Document("trace", trace, 1)],
     side |-> pair.sidecar, pubA |-> own.bundle, sideA |-> own.sidecar,
     replayA |-> Document("candidate", ReplayCandidate(trace), 1),
     replayChild |-> Document("candidate", ReplayCandidate(sanitized.adapted.trace), 1),
     receiptA |-> Document("receipt", Receipt(trace), 1), receiptChild |-> Document("receipt", Receipt(sanitized.adapted.trace), 1),
     trust |-> Document("trust", Trust, 1), policy |-> PolicyFile,
     odd |-> [PolicyFile EXCEPT !.canonical = FALSE], made |-> Document("made", 0, 1)]
Catalog ==
    With(Sanitized, LAMBDA t :
         CatalogOf(t.sanitized, PublicationPair(t).value, Unsanitized, TraceA, Process, Killed))
MCHeld(c) == Catalog[c]
MCSizeOf(c) ==
    CASE c \in {"rawA", "rawB", "cut", "child"} -> 25 [] c \in {"pub", "swapped", "pubA"} -> 21
      [] c \in {"side", "sideA"} -> 35 [] OTHER -> 1
ASSUME SizesAreTheFiles == \A c \in DOMAIN Catalog : MCSizeOf(c) = Catalog[c].size

MCFiles == {"raw", "authority", "context", "bundle", "sidecar", "replay", "receipt", "trust", "policy",
            "private-bundle", "result"}
MCCaps == [f \in MCFiles |-> 60]
MCLinks == {<<"result", "raw">>}
MCContents ==
    [f \in MCFiles |->
        CASE f = "raw" -> {"rawB"} [] f = "authority" -> {"authA2"} [] f = "context" -> {"ctxA2"}
          [] f = "policy" -> {"odd"} [] OTHER -> {}]

Scenario(raw, authority, context, bundle, sidecar, of) ==
    [f \in MCFiles |->
        CASE f = "raw" -> raw [] f = "authority" -> authority [] f = "context" -> context
          [] f = "bundle" -> bundle [] f = "sidecar" -> sidecar
          [] f = "replay" -> IF of = "A" THEN "replayA" ELSE "replayChild"
          [] f = "receipt" -> IF of = "A" THEN "receiptA" ELSE "receiptChild"
          [] f = "trust" -> "trust" [] f = "policy" -> "policy" [] OTHER -> "none"]
MCInitialFiles ==
    {Scenario("rawA", "authA", "ctxA", "pubA", "sideA", "A"), Scenario("child", "authC", "ctxA", "pub", "side", "child"),
     Scenario("child", "authC", "ctxA", "swapped", "side", "child"),
     Scenario("rawB", "authP", "ctxP", "pub", "side", "child"), Scenario("rawA", "authP", "ctxP", "none", "none", "A"),
     Scenario("rawA", "authK", "ctxK", "none", "none", "A"), Scenario("cut", "authCut", "ctxCut", "none", "none", "A"),
     Scenario("rawA", "authA", "ctxPrivate", "none", "none", "A"), Scenario("rawA", "authA", "ctxReserved", "none", "none", "A")}

MCDraws == {[reads |-> <<<<"ok", 2>>, <<"intr">>, <<"ok", 2>>>>, source |-> "capture-random", bytes |-> <<7>>],
            [reads |-> <<<<"ok", 4>>>>, source |-> "capture-random", bytes |-> <<8>>],
            [reads |-> <<<<"ok", 1>>, <<"ok", 0>>>>, source |-> "capture-random", bytes |-> <<8>>],
            [reads |-> <<<<"ok", 4>>>>, source |-> "capture-random", bytes |-> <<0>>]}
MCPatterns == {<<"p", "q", "p">>, <<"q", "q">>}

-----------------------------------------------------------------------------
(* The graphs audited: small ones over the kinds of node that differ in    *)
(* what they read, and claims that tell the gates apart.                   *)
Gate(kind, value, min, decision) == [kind |-> kind, value |-> value, min |-> min, decision |-> decision]
Binary(gates, default, combination) ==
    [kind |-> "binary", gates |-> gates, default |-> default, combination |-> combination]

EscalateAll == Binary(<<>>, "escalate", "first_match")
PeerReview == Binary(<<Gate("peer_relative", "strength", <<1, 2>>, "permit")>>, "deny", "any_must_pass")
RiskGate == Binary(<<Gate("threshold", "risk", 20, "deny"), Gate("exact", "act", 0, "escalate")>>,
                   "permit", "first_match")
StrictGate == Binary(<<Gate("prefix", "home", 0, "permit"), Gate("content", "ok", 0, "escalate")>>,
                     "deny", "all_must_pass")
RiskDenied == Binary(<<Gate("threshold", "risk", 20, "deny")>>, "escalate", "first_match")
LoadNode == [kind |-> "threshold", field |-> "load", min |-> 20]
SharesNode == [kind |-> "proportional"]
BlankGate == Binary(<<Gate("exact", "", 0, "permit")>>, "deny", "first_match")

MCNodeTemplates ==
    <<{EscalateAll, RiskGate, RiskDenied},
      {EscalateAll, PeerReview, StrictGate, LoadNode, SharesNode, BlankGate},
      {PeerReview}>>

MCTransforms == {[transform |-> "claim_modification", delta |-> 4]}

Claim(id, strength, class, path, action, metrics) ==
    [claimant_id |-> id, strength |-> strength, priority_class |-> class, path |-> path,
     action |-> action, content |-> path, metrics |-> metrics]

Alice == Claim(2, 8, <<"team">>, {"home"}, <<"act">>, [risk |-> 0, load |-> 40])
Bob == Claim(3, 18, <<"team">>, {"ok"}, <<>>, [risk |-> 20])
Carol == Claim(4, 5, <<>>, {"home", "ok"}, <<"act">>, [risk |-> 40])

Corpus(claims, provenance) == [claims |-> claims, provenance |-> provenance]

MCCorpora == {Corpus(<<>>, "user_supplied"), Corpus(<<Alice, Bob>>, "user_supplied"),
              Corpus(<<Carol, Bob>>, "user_supplied"),
              Corpus(<<Carol, Bob>>, "observed_runtime"), Corpus(<<Bob, Bob>>, "user_supplied")}

-----------------------------------------------------------------------------

VARIABLE program

SpawnRest ==
    /\ forked = "none" /\ errpipe = TRUE /\ packet = "none" /\ ack = FALSE
    /\ receiver = {} /\ sender = {} /\ keeper = "done" /\ ownership = "None"
    /\ spawner = "done" /\ spawned = "none" /\ outcome = "none"
CodexRest ==
    /\ stage = "surface" /\ emitted = <<>> /\ exposed = <<>>
    /\ CommandInit({[f \in Files |-> "none"]})

Init ==
    /\ program \in {"spawn", "codex", "graph"}
    /\ IF program = "spawn" THEN SpawnInit ELSE SpawnRest
    /\ IF program = "codex" THEN CodexInit ELSE CodexRest
    /\ GraphInit

vars == <<spawnVars, codexVars, graphVars, program>>
Run(name, next) == program = name /\ next /\ UNCHANGED program

(* A recorder may stop at any record, and a user after any command.        *)
Rest == program = "codex" /\ UNCHANGED vars

Next ==
    \/ Run("spawn", SpawnNext) /\ UNCHANGED <<codexVars, graphVars>>
    \/ Run("codex", CodexNext) /\ UNCHANGED <<spawnVars, graphVars>>
    \/ Run("graph", GraphNext) /\ UNCHANGED <<spawnVars, codexVars>>
    \/ Rest

(* The fairness of FairSpawnSpec.                                          *)
Scheduled(step) == Run("spawn", step) /\ UNCHANGED <<codexVars, graphVars>>
Spec ==
    /\ Init /\ [][Next]_vars
    /\ WF_vars(Scheduled(ParentStep)) /\ WF_vars(Scheduled(ThreadStep))
    /\ WF_vars(Scheduled(ChildStep)) /\ WF_vars(Scheduled(receiver = {} /\ ChildFails))
=============================================================================

------------------------------ MODULE CodexRuns ------------------------------
(***************************************************************************)
(* What is asked of the recorded-run pipeline: of the streams a recorder   *)
(* may write record by record, of the bytes a public surface may hold, and *)
(* of the commands over files that others change.  A behaviour looks at    *)
(* one of the three.                                                       *)
(***************************************************************************)
EXTENDS CodexCommands

CONSTANTS Records,         \* the objects a recorder may write
          MaxStream,
          Bytes, MaxSurface,
          StreamPolicy,    \* the policy the streams are mapped under
          Alias            \* other names for the names in the private texts

VARIABLES stage, emitted, exposed

codexVars == <<stage, emitted, exposed, commandVars>>

(* A capture with these objects, spelled without a trailing blank.         *)
CaptureOf(records) ==
    LET lines == [i \in DOMAIN records |->
                     [tokens |-> ObjectTokens, bytes |-> LineBytes(records[i]),
                      text |-> [json |-> records[i], pad |-> FALSE]]]
    IN [size |-> SumSeq(LAMBDA l : l.bytes + 1, lines), framed |-> lines # <<>>, utf8 |-> TRUE,
        lines |-> lines]

StreamIsOpen == RunStream(emitted).legal

(* The recorder writes one more record.                                    *)
Emit ==
    /\ stage = "stream" /\ Len(emitted) < MaxStream /\ StreamIsOpen
    /\ \E r \in Records : emitted' = Append(emitted, r)
    /\ UNCHANGED <<stage, exposed, commandVars>>

Extend ==
    /\ stage = "surface" /\ Len(exposed) < MaxSurface
    /\ \E b \in Bytes : exposed' = Append(exposed, b)
    /\ UNCHANGED <<stage, emitted, commandVars>>

StepCommand == stage = "commands" /\ CommandNext /\ UNCHANGED <<stage, emitted, exposed>>

CodexInit ==
    /\ stage \in {"stream", "surface", "commands"} /\ emitted = <<>> /\ exposed = <<>>
    /\ CommandInit(IF stage = "commands" THEN InitialFiles ELSE {[f \in Files |-> "none"]})

CodexNext == Emit \/ Extend \/ StepCommand

CodexSpec == CodexInit /\ [][CodexNext]_codexVars

-----------------------------------------------------------------------------
(* The command holds each of its inputs at most once and ends with a       *)
(* failure of one of the closed sets.                                      *)
CodexTypeOK ==
    /\ names \in [Files -> {Symlink, Absent} \cup DOMAIN inodes]
    /\ cmd.step \in {"idle", "next", "reading", "revalidate"} /\ commands \in 0..MaxCommands
    /\ Len(cmd.snaps) + Len(cmd.todo) <= 8
    /\ cmd.code \in {"none", "ok"} \cup AdapterErrorCodes \cup ReplayErrorCodes
                      \cup ReplayAuthorityErrorCodes \cup CompositionErrorCodes

-----------------------------------------------------------------------------
(* Streams.                                                                *)

ItemsAt(records) == {i \in DOMAIN records : IsItem(records[i])}
Occurrences(records, id) == {i \in ItemsAt(records) : records[i].item.id = id}
First(S) == CHOOSE i \in S : \A j \in S : i <= j
Final(S) == CHOOSE i \in S : \A j \in S : j <= i

(* One item of a whole stream, by the places where it occurs.              *)
ItemIsLegal(records, at) ==
    LET it(i) == records[i].item
        life(i) == Lifecycles[records[i].type]
        a == First(at)
        z == Final(at)
        before == {j \in at : j < z}
    IN /\ \A i \in at : it(i).type = it(a).type
       /\ CASE it(a).type \in Actions ->
                  /\ Cardinality(at) = 2 /\ life(a) = "started" /\ life(z) = "completed"
                  /\ it(a).text = it(z).text /\ it(a).changes = it(z).changes
            [] it(a).type = "todo_list" ->
                  /\ Cardinality(at) >= 2 /\ life(a) = "started" /\ life(z) = "completed"
                  /\ \A i \in at \ {a, z} : life(i) = "updated"
                  /\ it(z).todos = it(Final(before)).todos
                  /\ \A i \in (z + 1)..(Len(records) - 1) :
                        records[i].type = "item.completed" /\ it(i).type \in Actions
            [] OTHER -> Cardinality(at) = 1 /\ life(a) = "completed"

(* What a whole stream has to be, said without a state machine.            *)
LegalStream(records) ==
    LET n == Len(records)
        of(type) == {i \in 1..n : records[i].type = type}
        ids == {records[i].item.id : i \in ItemsAt(records)}
        firsts == {First(Occurrences(records, k)) : k \in ids}
    IN /\ of("thread.started") = {1}
       /\ of("turn.completed") \cup of("turn.failed") = {n}
       /\ Cardinality(of("turn.started")) = 1
       /\ \A i \in 2..n : \A t \in of("turn.started") :
             i < t => \/ records[i].type = "error"
                      \/ records[i].type = "item.completed" /\ records[i].item.type = "error"
       /\ \A i \in firsts : records[i].item.id = Cardinality({j \in firsts : j < i})
       /\ Cardinality({i \in firsts : records[i].item.type = "todo_list"}) <= 1
       /\ \A k \in ids : ItemIsLegal(records, Occurrences(records, k))

(* The state machine accepts exactly the whole streams: every action       *)
(* started is completed once and unchanged, item ids count up, a completed *)
(* list is the list last shown and only settles what is open, and nothing  *)
(* is left open or follows at the end (validate_stream).                   *)
StreamsAreLegal ==
    stage = "stream" => (ValidateStream(emitted, <<>>) = "ok" <=> LegalStream(emitted))

(* Whatever the state machine accepts has a trace that validation accepts: *)
(* no legal stream is lost to a mapping that gives two events one identity *)
(* or a value without evidence (map_records, validate_trace).              *)
MappedTracesValidate ==
    (stage = "stream" /\ ValidateStream(emitted, <<>>) = "ok") =>
        LET file == CaptureOf(emitted)
        IN ReadStream(file, <<>>, RawCaptureSeal(file.lines), StreamPolicy).code = "ok"

FixedNonce == [source |-> "fixed-test", bytes |-> <<7>>]
Child(records) == Rewrite(CaptureOf(records), SanitizedThreadId(FixedNonce))
ChildRecords(records) ==
    With(Child(records), LAMBDA child :
        [i \in DOMAIN child.lines |-> child.lines[i].text.json])

(* Sanitizing commutes with reading: as long as the parent is legal, every *)
(* rewritten record still parses (paths stay sorted under their new names) *)
(* and the rewritten stream is as far and as open as the parent, so a      *)
(* completed item still equals the one started (sanitize_record).          *)
SanitizedStaysLegal ==
    (stage = "stream" /\ StreamIsOpen) =>
        With(ChildRecords(emitted), LAMBDA child :
        With(RunStream(emitted), LAMBDA s :
        With(RunStream(child), LAMBDA c :
           /\ \A i \in DOMAIN child : ParseRecord(child[i]) = "ok"
           /\ c.legal /\ c.terminal = s.terminal /\ DOMAIN c.active = DOMAIN s.active)))

Renamed(text) == IF text = <<>> THEN text ELSE [text EXCEPT ![1] = "email", ![2] = Alias[@]]
RenamedItem(it) ==
    [it EXCEPT !.text = Renamed(@), !.output = Renamed(@),
               !.changes = [k \in DOMAIN @ |-> [@[k] EXCEPT !.path = Renamed(@)]],
               !.todos = [k \in DOMAIN @ |-> [@[k] EXCEPT !.text = Renamed(@)]]]
RenamedRecord(json) ==
    [json EXCEPT !.text = Renamed(@), !.thread = IF @ = <<>> THEN @ ELSE <<"uuid7", <<"observed", "other">>>>,
                 !.item = IF IsItem(json) THEN RenamedItem(@) ELSE @]

(* The child says nothing of the private texts but which are equal within  *)
(* their slot (and in which order paths come): other texts in the parent   *)
(* give the same child, byte for byte (sanitize_capture_inner).            *)
SanitizedRevealsNothing ==
    (stage = "stream" /\ StreamIsOpen) =>
        Child(emitted) = Child([i \in DOMAIN emitted |-> RenamedRecord(emitted[i])])

-----------------------------------------------------------------------------
(* Surfaces: a pattern is found wherever it lies, also across two or three *)
(* chunks, in either case, and so is a control byte                        *)
(* (scan_fixed_patterns_and_controls).                                     *)
ScanSeesAcrossChunks ==
    stage = "surface" =>
        (ScanFixedPatterns(exposed) <=>
            ("ctl" \in ToSet(exposed) \/ ContainsPattern(exposed)))

-----------------------------------------------------------------------------
(* Commands.                                                               *)

(* The captures the published compositions were evaluated from.            *)
EvaluatedRaw == Table({e.raw : e \in evaluated}, Held)

(* A published composition is of the attached capture, under whichever     *)
(* authority it was evaluated: its trace seals exactly the records that    *)
(* were read (evaluate, revalidate_public_bundle_for_jsonl).               *)
EvaluatedIsBound == \A e \in evaluated : e.seal = RawCaptureSeal(EvaluatedRaw[e.raw].lines)

(* A composition published for a public bundle alone is of a capture the   *)
(* privacy scan passes, even when the bundle agrees with itself for a      *)
(* capture that was never sanitized (revalidate_public_projection).  With  *)
(* a sidecar nothing is claimed: revalidate_public_bundle compares the     *)
(* capture with the sidecar's child, which nobody scans again.             *)
EvaluatedPublicIsClean ==
    \A e \in evaluated : e.public /\ ~e.sidecar => ScanChild(EvaluatedRaw[e.raw])

(* All inputs of a published composition stood side by side at one moment, *)
(* though they are read one after the other (publish_set, revalidate).     *)
InputsCoexisted == \A e \in evaluated : e.coexisted

AdaptedFrom(p, Hold(_)) ==
    Adapt(Hold(p.raw), DecodeAuthority(Hold(p.authority)).value, DecodeTrustedContext(Hold(p.context)).value)

BindsAuthority(p, Hold(_)) ==
    \A r \in Contents["raw"] \cup {p.raw} :
        \A a \in Contents["authority"] \cup {p.authority} : \A c \in Contents["context"] \cup {p.context} :
            With(PrivateBundle(AdaptedFrom(p, Hold).value).value, LAMBDA bundle :
            With(DecodeAuthority(Hold(a)), LAMBDA authority :
            With(DecodeTrustedContext(Hold(c)), LAMBDA trusted :
               (authority.code = "ok" /\ trusted.code = "ok") =>
                  (RevalidatePrivate(bundle, Hold(r), authority.value, trusted.value).code = "ok"
                      <=> <<r, a, c>> = <<p.raw, p.authority, p.context>>))))

(* A private bundle is taken back only with the capture, the receipt and   *)
(* the context it was made with, though other receipts vouch for the same  *)
(* capture and lead to the same trace (InspectedPrivateAdapterBundleV0::   *)
(* revalidate).                                                            *)
PrivateBundleBindsAuthority == \A p \in privates : BindsAuthority(p, Held)

(* The denial that is reported is the earliest there is: in no shorter     *)
(* prefix is an event outranked by more than half of the events, and in    *)
(* the prefix reported the event named is the first that is                *)
(* (classify_temporal_composition_v0).                                     *)
Outranked(i, k) == 2 * Cardinality({j \in 0..(k - 1) : j > i}) > k

DenialIsEarliest ==
    \A e \in evaluated :
        LET bad == {k \in 1..e.events : \E i \in 0..(k - 1) : Outranked(i, k)}
        IN IF bad = {} THEN e.temporal.kind = "safe"
           ELSE /\ e.temporal.kind = "violation" /\ e.temporal.prefix = First(bad)
                /\ e.temporal.occurrence = <<First({i \in 0..(First(bad) - 1) : Outranked(i, First(bad))})>>

(* The machine accepts the streams a recorder can have produced and no     *)
(* other, and what it accepts stays valid: when it is mapped to a trace,   *)
(* and when the sanitizer has rewritten it (fsm.rs, mapping.rs).           *)
StreamsAreExact ==
    /\ StreamsAreLegal
    /\ MappedTracesValidate
    /\ SanitizedStaysLegal

(* Nothing private reaches a public artifact: not through the rewriting,   *)
(* not across the chunks of the scan, not through a bundle that nobody     *)
(* sanitized and that is evaluated without a sidecar (sanitizer.rs,        *)
(* revalidate_public_projection).                                          *)
NothingPrivateLeaks ==
    /\ SanitizedRevealsNothing
    /\ ScanSeesAcrossChunks
    /\ EvaluatedPublicIsClean

(* What is evaluated is one recorded run: the capture, the bundle and the  *)
(* authority belong together and existed together, although the files are  *)
(* read one after the other, and the denial reported is the earliest.      *)
EvaluatedIsGenuine ==
    /\ CodexTypeOK
    /\ EvaluatedIsBound
    /\ InputsCoexisted
    /\ PrivateBundleBindsAuthority
    /\ DenialIsEarliest
=============================================================================

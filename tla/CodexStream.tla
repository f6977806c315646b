----------------------------- MODULE CodexStream -----------------------------
(***************************************************************************)
(* The event stream of a recorded run (codex_exec_v0): framing into        *)
(* records, the closed set of records, the state machine a stream has to   *)
(* follow, and the mapping to a trajectory.                                *)
(*                                                                         *)
(* A capture file is [size, framed, utf8, lines]; framed tells that it is  *)
(* not empty, ends with a newline and holds no carriage return.  A line is *)
(* a raw record of Trajectory whose text is [json, pad]: the decoded       *)
(* object and whether a blank follows it.  An object is [type, decodes,    *)
(* thread, usage, text, item], an item [type, decodes, id, text, output,   *)
(* exit, status, changes, todos]; decodes tells that the closed wire type  *)
(* of that name accepts it.  A text is <<>> when it is blank, otherwise a  *)
(* tuple with what the privacy scan makes of it first; the k-th item id is *)
(* k.  A path is <<class, name, rank>>, ranks ordered as the strings are.  *)
(***************************************************************************)
EXTENDS Trajectory

CONSTANTS CodexLimits,     \* MAX_CODEX_..._V0: [jsonl, record, records, list, scan]
          Adapter          \* codex_exec_adapter_binding_v0()

(* The first failure of a sequence of codes.                               *)
FirstFailure(codes) ==
    LET bad == {i \in DOMAIN codes : codes[i] # "ok"}
    IN IF bad = {} THEN "ok" ELSE codes[CHOOSE i \in bad : \A j \in bad : i <= j]

FullDigest(file) == FramedSha256("full-jsonl", file)

(* One line of FramedCaptureV0::parse_owned; index counts from 0.          *)
FrameLine(line, index) ==
    With(ScanJsonWithLimits(line.tokens, CodexLimits.scan), LAMBDA root :
       IF line.bytes = 0 THEN "json-framing"
       ELSE IF line.bytes > CodexLimits.record \/ index = CodexLimits.records THEN "input-too-large"
       ELSE CASE root = "object" -> "ok" [] root = "other" -> "json-shape"
              [] root = "budget" -> "json-budget" [] root = "invalid" -> "json-syntax")

Frame(file) ==
    IF file.size > CodexLimits.jsonl THEN "input-too-large"
    ELSE IF ~file.framed THEN "json-framing"
    ELSE IF ~file.utf8 THEN "json-syntax"
    ELSE FirstFailure([i \in DOMAIN file.lines |-> FrameLine(file.lines[i], i - 1)])

-----------------------------------------------------------------------------
(* Records.                                                                *)
ItemTypes == {"agent_message", "reasoning", "error", "command_execution", "file_change", "todo_list"}
Actions == {"command_execution", "file_change"}
Lifecycles == [t \in {"item.started", "item.updated", "item.completed"} |->
                  CASE t = "item.started" -> "started" [] t = "item.updated" -> "updated"
                    [] t = "item.completed" -> "completed"]

(* parse_item.                                                             *)
ParseItem(it) ==
    IF it.type = "missing" THEN "json-shape"
    ELSE IF it.type \notin ItemTypes THEN "unsupported-record"
    ELSE IF ~it.decodes THEN "json-shape"
    ELSE IF \/ it.type = "reasoning" /\ it.text = <<>>
            \/ /\ it.type = "command_execution"
               /\ it.status \notin {"in_progress", "completed", "failed", "declined"}
            \/ /\ it.type = "file_change"
               /\ \/ Len(it.changes) > CodexLimits.list
                  \/ \E k \in 1..(Len(it.changes) - 1) :
                        it.changes[k].path[3] >= it.changes[k + 1].path[3]
                  \/ \E k \in DOMAIN it.changes : it.changes[k].kind \notin {"add", "delete", "update"}
                  \/ it.status \notin {"in_progress", "completed", "failed"}
            \/ it.type = "todo_list" /\ Len(it.todos) > CodexLimits.list
    THEN "json-shape" ELSE "ok"

(* validate_lifecycle.                                                     *)
LifecycleIsLegal(life, it) ==
    CASE it.type \in {"agent_message", "reasoning", "error"} -> life = "completed"
      [] it.type = "command_execution" ->
            \/ life = "started" /\ it.status = "in_progress" /\ it.output = <<>> /\ it.exit = <<>>
            \/ life = "completed" /\ it.status # "in_progress"
      [] it.type = "file_change" -> life = IF it.status = "in_progress" THEN "started" ELSE "completed"
      [] it.type = "todo_list" -> TRUE

IsItem(json) == json.type \in DOMAIN Lifecycles

(* parse_record.                                                           *)
ParseRecord(json) ==
    IF json.type = "missing" THEN "json-shape"
    ELSE IF json.type \notin {"thread.started", "turn.started", "turn.completed", "turn.failed", "error"}
                               \cup DOMAIN Lifecycles THEN "unsupported-record"
    ELSE IF ~json.decodes THEN "json-shape"
    ELSE IF json.type = "thread.started" /\ json.thread[1] # "uuid7" THEN "json-shape"
    ELSE IF json.type = "turn.completed" /\ \E k \in DOMAIN json.usage : json.usage[k] < 0
    THEN "json-shape"
    ELSE IF ~IsItem(json) THEN "ok"
    ELSE IF ParseItem(json.item) # "ok" THEN ParseItem(json.item)
    ELSE IF LifecycleIsLegal(Lifecycles[json.type], json.item) THEN "ok" ELSE "stream-state"

-----------------------------------------------------------------------------
(* The state machine of a stream.                                          *)
NoEntries == [x \in {} |-> x]

InitialStream ==
    [index |-> 0, turn_started |-> FALSE, terminal |-> "none", next_item |-> 0, seen |-> NoEntries,
     active |-> NoEntries, todo |-> <<>>, reconciling |-> FALSE, legal |-> TRUE]

Without(f, k) == [x \in DOMAIN f \ {k} |-> f[x]]

(* same_active_item.                                                       *)
SameActiveItem(started, it) ==
    /\ it.type = "command_execution" => it.status # "in_progress" /\ it.text = started.text
    /\ it.type = "file_change" => it.status # "in_progress" /\ it.changes = started.changes

(* Mutant: the list that is completed need not be the last one shown.      *)
SeenItemAnyTodo(s, life, it) ==
    IF \/ s.seen[it.id] # it.type \/ it.id \notin DOMAIN s.active
       \/ ~SameActiveItem(s.active[it.id], it)
    THEN [s EXCEPT !.legal = FALSE]
    ELSE CASE it.type = "todo_list" /\ life = "updated" -> [s EXCEPT !.todo = it.todos]
           [] it.type = "todo_list" /\ life = "completed" ->
                 [s EXCEPT !.active = Without(@, it.id), !.reconciling = TRUE]
           [] it.type \in Actions /\ life = "completed" -> [s EXCEPT !.active = Without(@, it.id)]
           [] OTHER -> [s EXCEPT !.legal = FALSE]

(* validate_item_id, an id that was seen.                                  *)
SeenItem(s, life, it) ==
    IF \/ s.seen[it.id] # it.type \/ it.id \notin DOMAIN s.active
       \/ ~SameActiveItem(s.active[it.id], it)
    THEN [s EXCEPT !.legal = FALSE]
    ELSE CASE it.type = "todo_list" /\ life = "updated" -> [s EXCEPT !.todo = it.todos]
           [] it.type = "todo_list" /\ life = "completed" /\ s.todo = it.todos ->
                 [s EXCEPT !.active = Without(@, it.id), !.reconciling = TRUE]
           [] it.type \in Actions /\ life = "completed" -> [s EXCEPT !.active = Without(@, it.id)]
           [] OTHER -> [s EXCEPT !.legal = FALSE]

(* validate_item_id, an id that is new.                                    *)
NewItem(s, life, it) ==
    LET first == IF it.type \in Actions \cup {"todo_list"} THEN "started" ELSE "completed"
        seen == [s EXCEPT !.next_item = @ + 1, !.seen = (it.id :> it.type) @@ @]
    IN IF \/ it.id # s.next_item \/ life # first
          \/ it.type = "todo_list" /\ \E k \in DOMAIN s.seen : s.seen[k] = "todo_list"
       THEN [s EXCEPT !.legal = FALSE]
       ELSE IF first = "completed" THEN seen
       ELSE [seen EXCEPT !.active = (it.id :> it) @@ @,
                         !.todo = IF it.type = "todo_list" THEN it.todos ELSE @]

(* One record of validate_stream.                                          *)
StreamStep(s, json) ==
    LET it == json.item
        ends == json.type \in {"turn.completed", "turn.failed"}
        reconciles == ends \/ (json.type = "item.completed" /\ it.type \in Actions)
        out == CASE json.type = "thread.started" -> [s EXCEPT !.legal = s.index = 0]
                 [] json.type = "turn.started" ->
                       [s EXCEPT !.turn_started = TRUE, !.legal = ~s.turn_started /\ s.index > 0]
                 [] json.type = "error" -> s
                 [] ends -> [s EXCEPT !.terminal = json.type,
                                      !.legal = s.turn_started /\ DOMAIN s.active = {}]
                 [] IsItem(json) ->
                       IF ~s.turn_started /\ ~(json.type = "item.completed" /\ it.type = "error")
                       THEN [s EXCEPT !.legal = FALSE]
                       ELSE IF it.id \in DOMAIN s.seen THEN SeenItem(s, Lifecycles[json.type], it)
                       ELSE NewItem(s, Lifecycles[json.type], it)
    IN IF \/ s.index = 0 /\ json.type # "thread.started"
          \/ s.terminal # "none" \/ (s.reconciling /\ ~reconciles) \/ ~s.legal
       THEN [s EXCEPT !.legal = FALSE, !.index = @ + 1]
       ELSE [out EXCEPT !.index = @ + 1]

RunStream(records) == FoldLeft(StreamStep, InitialStream, records)

(* validate_termination; <<>> when there is no process.                    *)
ValidateTermination(terminal, termination) ==
    IF termination = <<>> THEN "ok"
    ELSE IF termination[1] = "signaled" THEN "unsupported-profile"
    ELSE IF termination[2] \in IF terminal = "turn.completed" THEN {0, 1} ELSE {1} THEN "ok"
    ELSE "illegal-termination"

(* validate_stream.                                                        *)
ValidateStream(records, termination) ==
    With(RunStream(records), LAMBDA s :
       IF ~s.legal \/ s.terminal = "none" THEN "stream-state"
       ELSE ValidateTermination(s.terminal, termination))

-----------------------------------------------------------------------------
(* The mapping.  All derivations cite whole records.                       *)
Rule(name) == [identity |-> name, version |-> "v0", hash |-> FramedSha256("artifact", name)]
RunRule == Rule("run-id")
EventRule == Rule("event-id")
PositionRule == Rule("source-position")
FieldRule == Rule("field-projection")

WholeRecord(raws, i) ==
    [record_index |-> i, byte_offset |-> 0, byte_length |-> raws[i + 1].bytes,
     digest |-> SourceLocatorDigest(raws[i + 1], 0, raws[i + 1].bytes)]
DerivedFrom(v, rule, inputs) ==
    [value |-> <<v>>, evidence |-> [class |-> "derived", rule |-> rule, inputs |-> inputs, reason |-> 0]]

(* A normalized value: a scalar of one node, or a list of scalars.         *)
Scalar(v) == [nodes |-> 1, depth |-> 1, keys |-> {}, object_width |-> 0, array_width |-> 0, bytes |-> 1,
              string_bytes |-> 1, scalars |-> 1, digits |-> 1, canonical |-> TRUE, text |-> v]
List(vs) == [Scalar(vs) EXCEPT !.nodes = 1 + Len(vs), !.depth = 2, !.array_width = Len(vs), !.bytes = Len(vs)]

(* add_item_payload: no text of the source but its closed words.           *)
ItemPayload(it) ==
    CASE it.type = "command_execution" ->
            <<<<"source-status", Scalar(<<it.status>>)>>, <<"exit-code", Scalar(it.exit)>>>>
      [] it.type = "file_change" ->
            <<<<"source-status", Scalar(<<it.status>>)>>, <<"change-count", Scalar(<<Len(it.changes)>>)>>,
              <<"change-kinds", List([k \in DOMAIN it.changes |-> it.changes[k].kind])>>>>
      [] it.type = "todo_list" ->
            <<<<"todo-completed", List([k \in DOMAIN it.todos |-> it.todos[k].completed])>>>>
      [] OTHER -> <<>>

RecordPayload(json) ==
    <<<<"source-event", Scalar(<<json.type>>)>>>>
      \o (IF json.type = "thread.started" THEN <<<<"observed-thread-id", Scalar(json.thread)>>>> ELSE <<>>)
      \o (IF json.type = "turn.completed" THEN <<<<"usage", List(json.usage)>>>> ELSE <<>>)
      \o (IF IsItem(json) THEN <<<<"source-item-type", Scalar(<<json.item.type>>)>>,
                                 <<"source-lifecycle", Scalar(<<Lifecycles[json.type]>>)>>>>
                                 \o ItemPayload(json.item)
          ELSE <<>>)

(* normalized_kind; "none" cannot be mapped.                               *)
NormalizedKind(json) ==
    IF json.type = "error" THEN "observation"
    ELSE IF ~IsItem(json) \/ json.item.type = "todo_list" THEN "lifecycle"
    ELSE IF json.item.type \in Actions
    THEN CASE json.type = "item.started" -> "action-request"
           [] json.type = "item.completed" -> "action-result"
           [] OTHER -> "none"
    ELSE IF json.type # "item.completed" THEN "none"
    ELSE IF json.item.type = "error" THEN "observation" ELSE "message"

(* The identity of an event.                                               *)
EventId(run_id, index, raw) == FramedSha256("event-id", <<run_id, index, RawRecordDigest(raw)>>)

(* map_event; index counts from 0.                                         *)
MapEvent(raws, index, run_id) ==
    LET raw == raws[index + 1]
        json == raw.text.json
        source == <<WholeRecord(raws, index)>>
        payload == RecordPayload(json)
    IN [event_id |-> DerivedFrom(EventId(run_id, index, raw), EventRule,
                                 IF index = 0 THEN source ELSE <<WholeRecord(raws, 0)>> \o source),
        sequence_index |-> DerivedFrom(index, PositionRule, source),
        kind |-> DerivedFrom(NormalizedKind(json), FieldRule, source),
        source_item_id |-> IF IsItem(json) THEN <<DerivedFrom(<<json.item.id>>, FieldRule, source)>> ELSE <<>>,
        raw_record |-> [record_index |-> index, digest |-> RawRecordDigest(raw)],
        payload |-> [k \in DOMAIN payload |->
                        [name |-> payload[k][1], field |-> DerivedFrom(payload[k][2], FieldRule, source)]]]

(* map_records: the trace and the declarations it is validated against.    *)
MapRecords(raws, seal, policy) ==
    With(FramedSha256("run-id", <<RawRecordDigest(raws[1]), raws[1].text.json.thread>>), LAMBDA run_id :
    With(        [schema |-> TraceSchema, run_id |-> DerivedFrom(run_id, RunRule, <<WholeRecord(raws, 0)>>),
                  adapter |-> Adapter, policy |-> policy, raw_capture |-> seal, compact |-> 1,
                  events |-> [i \in DOMAIN raws |-> MapEvent(raws, i - 1, run_id)]], LAMBDA trace :
       IF \E i \in DOMAIN raws : NormalizedKind(raws[i].text.json) = "none" THEN Bad("mapping")
       ELSE Good([trace |-> trace,
                  declarations |-> [adapter |-> Adapter, policy |-> policy, raw_capture |-> seal,
                                    allowed_derivations |-> {RunRule, EventRule, PositionRule, FieldRule}]])))

(* The part of adaptation that is the same for every authority.            *)
ReadStream(file, termination, seal, policy) ==
    With([i \in DOMAIN file.lines |-> file.lines[i].text.json], LAMBDA json :
    With(FirstFailure([i \in DOMAIN json |-> ParseRecord(json[i])]), LAMBDA parsed :
    With(ValidateStream(json, termination), LAMBDA stream :
    With(MapRecords(file.lines, seal, policy), LAMBDA mapped :
       IF parsed # "ok" THEN Bad(parsed)
       ELSE IF stream # "ok" THEN Bad(stream)
       ELSE IF mapped.code # "ok" THEN mapped
       ELSE IF ValidateTrace(mapped.value.trace, file.lines, mapped.value.declarations) THEN mapped
       ELSE Bad("validation")))))
=============================================================================

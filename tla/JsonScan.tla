------------------------------ MODULE JsonScan ------------------------------
(***************************************************************************)
(* The streaming JSON preflight of the trajectory readers                  *)
(* (src/trajectory/duplicate_json.rs).  A document is the sequence of its  *)
(* tokens as the deserializer delivers them: [t, key, bytes], where t is   *)
(* "object" or "array" (opened), "end" (closed), "string", "scalar" or     *)
(* "garbage" (a value that does not parse), key is the                     *)
(* object key in front of a value (<<>> elsewhere) and bytes the decoded   *)
(* length of a string.                                                     *)
(***************************************************************************)
EXTENDS Integers, Sequences, FiniteSets, SequencesExt, Values

CONSTANTS MaxJsonKeysPerObject, MaxJsonKeyBytesPerObject,
          KeyBytes(_),      \* decoded length of a key
          ScanLimits        \* the limits the examined reader uses

(* ScanState and the visitors on the stack: one frame for each container   *)
(* that is open.                                                           *)
InitialScan ==
    [stack |-> <<>>, nodes |-> 0, total_keys |-> 0, strings |-> 0,
     root |-> "none", verdict |-> "open"]

Fails(s, how) == [s EXCEPT !.verdict = how]

(* Mutant: one set of keys serves every object that is open.               *)
VisitKeyShared(s, limits, key) ==
    IF \E i \in DOMAIN s.stack : key \in s.stack[i].keys THEN Fails(s, "invalid")
    ELSE IF \/ Cardinality(s.stack[Len(s.stack)].keys) + 1 > MaxJsonKeysPerObject
            \/ s.stack[Len(s.stack)].bytes + KeyBytes(key) > MaxJsonKeyBytesPerObject
            \/ s.total_keys + 1 > limits.max_total_keys
            \/ s.strings + KeyBytes(key) > limits.max_decoded_string_bytes
    THEN Fails(s, "budget")
    ELSE [s EXCEPT !.stack[Len(s.stack)] = [@ EXCEPT !.keys = @ \cup {key},
                                                     !.bytes = @ + KeyBytes(key)],
                   !.total_keys = @ + 1, !.strings = @ + KeyBytes(key)]

(* visit_map, one key: repeated keys first, then the limits of the object, *)
(* then those of the document.                                             *)
VisitKey(s, limits, key) ==
    LET frame == s.stack[Len(s.stack)]
        b == KeyBytes(key)
    IN IF key \in frame.keys THEN Fails(s, "invalid")
       ELSE IF \/ Cardinality(frame.keys) + 1 > MaxJsonKeysPerObject
               \/ frame.bytes + b > MaxJsonKeyBytesPerObject
               \/ s.total_keys + 1 > limits.max_total_keys
               \/ s.strings + b > limits.max_decoded_string_bytes
       THEN Fails(s, "budget")
       ELSE [s EXCEPT !.stack[Len(s.stack)] = [@ EXCEPT !.keys = @ \cup {key}, !.bytes = @ + b],
                      !.total_keys = @ + 1, !.strings = @ + b]

(* enter_node: the depth of the root is one.                               *)
EnterNode(s, limits) ==
    IF Len(s.stack) + 1 > limits.max_depth \/ s.nodes + 1 > limits.max_nodes
    THEN Fails(s, "budget") ELSE [s EXCEPT !.nodes = @ + 1]

AddString(s, limits, b) ==
    IF s.strings + b > limits.max_decoded_string_bytes THEN Fails(s, "budget")
    ELSE [s EXCEPT !.strings = @ + b]

(* A value is complete: at the root the document must end here.            *)
Settle(s) == IF s.verdict = "open" /\ s.stack = <<>> THEN Fails(s, "done") ELSE s

(* deserialize and the visitors, one value, which has been entered before  *)
(* it is parsed.                                                           *)
VisitEntered(s, limits, tok) ==
    IF s.verdict # "open" THEN s
    ELSE CASE tok.t \in {"object", "array"} ->
                [s EXCEPT !.stack = Append(@, [t |-> tok.t, keys |-> {}, bytes |-> 0])]
           [] tok.t = "string" -> Settle(AddString(s, limits, tok.bytes))
           [] tok.t = "scalar" -> Settle(s)
           [] tok.t = "garbage" -> Fails(s, "invalid")

Rooted(s, tok) ==
    IF s.root = "none" /\ s.verdict = "open"
    THEN [s EXCEPT !.root = IF tok.t = "object" THEN "object" ELSE "other"] ELSE s

VisitValue(s, limits, tok) == VisitEntered(Rooted(EnterNode(s, limits), tok), limits, tok)

InObject(s) == s.stack # <<>> /\ s.stack[Len(s.stack)].t = "object"

ScanToken(s, limits, tok) ==
    IF s.verdict \in {"budget", "invalid"} THEN s
    ELSE IF \/ s.verdict = "done"
            \/ tok.t = "end" /\ s.stack = <<>>
            \/ tok.t # "end" /\ (tok.key # <<>>) # InObject(s)
    THEN Fails(s, "invalid")
    ELSE IF tok.t = "end" THEN Settle([s EXCEPT !.stack = Front(@)])
    ELSE LET keyed == IF InObject(s) THEN VisitKey(s, limits, tok.key[1]) ELSE s
         IN IF keyed.verdict = "open" THEN VisitValue(keyed, limits, tok) ELSE keyed

(* scan_json_with_limits: "object", "other", "budget" or "invalid".        *)
ScanTokens(tokens, limits) ==
    FoldLeft(LAMBDA acc, tok : ScanToken(acc, limits, tok), InitialScan, tokens)
ScanResult(s) ==
    IF s.verdict = "done" THEN s.root
    ELSE IF s.verdict = "budget" THEN "budget" ELSE "invalid"
ScanJsonWithLimits(tokens, limits) == ScanResult(ScanTokens(tokens, limits))

(* reject_duplicate_json_keys: no limit but those of a single object.      *)
Unbounded == [max_depth |-> 1000, max_nodes |-> 1000, max_total_keys |-> 1000,
              max_decoded_string_bytes |-> 1000]
RejectDuplicateJsonKeys(tokens) == ScanJsonWithLimits(tokens, Unbounded)
=============================================================================

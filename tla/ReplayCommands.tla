--------------------------- MODULE ReplayCommands ---------------------------
(***************************************************************************)
(* The trajectory replay commands (cli/trajectory_replay.rs): canonicalize *)
(* a trace, build its replay candidate, issue an authority receipt for it  *)
(* and verify candidate and receipt, over files that change meanwhile.     *)
(*                                                                         *)
(* Beside them, every document over a set of tokens for the scan of        *)
(* JsonScan that their readers start with.                                 *)
(***************************************************************************)
EXTENDS Trajectory, Snapshots, JsonScan

CONSTANTS Tokens,           \* the tokens of the examined documents
          MaxTokens

VARIABLE doc                \* the document scanned so far

DepthBefore(d, i) ==
    Cardinality({j \in 1..(i - 1) : d[j].t \in {"object", "array"}})
      - Cardinality({j \in 1..(i - 1) : d[j].t = "end"})

SameContainer(d, i, j) ==
    /\ i < j /\ DepthBefore(d, i) = DepthBefore(d, j)
    /\ \A m \in i..j : DepthBefore(d, m) >= DepthBefore(d, i)

RepeatsKey(d) ==
    \E i, j \in DOMAIN d : /\ d[i].t # "end" /\ d[j].t # "end"
                           /\ SameContainer(d, i, j) /\ d[i].key = d[j].key /\ d[i].key # <<>>

SumOver(d, S, f(_)) == FoldLeft(LAMBDA acc, i : acc + f(i), 0, SetToSeq(S \cap DOMAIN d))

WithinLimits(d, limits) ==
    LET values == {i \in DOMAIN d : d[i].t # "end"}
        keyed == {i \in values : d[i].key # <<>>}
    IN /\ \A i \in values : DepthBefore(d, i) + 1 <= limits.max_depth
       /\ Cardinality(values) <= limits.max_nodes
       /\ Cardinality(keyed) <= limits.max_total_keys
       /\ SumOver(d, keyed, LAMBDA i : KeyBytes(d[i].key[1])) + SumOver(d, values, LAMBDA i : d[i].bytes)
            <= limits.max_decoded_string_bytes
       /\ \A i \in keyed :
             LET siblings == {i} \cup {j \in keyed : SameContainer(d, i, j)}
             IN /\ Cardinality(siblings) <= MaxJsonKeysPerObject
                /\ SumOver(d, siblings, LAMBDA j : KeyBytes(d[j].key[1])) <= MaxJsonKeyBytesPerObject

(* The beginning of one value, which closes nothing it did not open, with  *)
(* a key in front of every member of an object and nowhere else; and the   *)
(* whole of it.                                                            *)
Enclosing(d, i) ==
    Max({j \in 1..(i - 1) : /\ d[j].t \in {"object", "array"}
                            /\ DepthBefore(d, j) = DepthBefore(d, i) - 1})

Begins(d) ==
    /\ \A i \in DOMAIN d : d[i].t # "garbage"
    /\ \A i \in 2..Len(d) : DepthBefore(d, i) > 0
    /\ d # <<>> => d[1].t # "end" /\ d[1].key = <<>>
    /\ \A i \in 2..Len(d) :
          d[i].t # "end" => (d[i].key # <<>> <=> d[Enclosing(d, i)].t = "object")

WellFormed(d) == d # <<>> /\ Begins(d) /\ DepthBefore(d, Len(d) + 1) = 0

(* Documents grow token by token, as long as the scan goes on or the       *)
(* beginning is that of a document which ought to be accepted.             *)
ScanInit == doc = <<>>
ScanNext ==
    /\ Len(doc) < MaxTokens
    /\ \/ ScanTokens(doc, ScanLimits).verdict \in {"open", "done"}
       \/ Begins(doc) /\ WithinLimits(doc, ScanLimits) /\ ~RepeatsKey(doc)
    /\ \E tok \in Tokens : doc' = Append(doc, tok)

(* A document is accepted exactly when it is well formed, within every     *)
(* limit and no object of it, at any depth, repeats a key; the answer      *)
(* names the kind of its root; and a refusal is blamed on a limit only     *)
(* when a limit is exceeded (duplicate_json.rs, scan_json_with_limits).    *)
AcceptedIsUnambiguous ==
    With(ScanJsonWithLimits(doc, ScanLimits), LAMBDA answer :
       /\ (answer \in {"object", "other"})
             <=> (WellFormed(doc) /\ WithinLimits(doc, ScanLimits) /\ ~RepeatsKey(doc))
       /\ answer = "object" => doc[1].t = "object"
       /\ answer = "other" => doc[1].t # "object"
       /\ answer = "budget" => ~WithinLimits(doc, ScanLimits))

-----------------------------------------------------------------------------
(* The replay commands. *)

CONSTANTS Caps,            \* [Files -> Nat], the caps of the readers
          IssueArgs,       \* [issuer, key_id, epoch] of the issuing command
          InitialFiles,    \* the contents a name may have at first; <<>> for none
          EarlierReceipts, \* receipts issued before, as [trace, receipt]
          EarlierBuilt,    \* candidates published before, as [trace, candidate]
          MaxCommands

VARIABLES commands,        \* commands started
          issued,          \* history: receipts this key holder signed
          verified,        \* history: what verify has published
          built            \* history: candidates build has published

history == <<issued, verified, built>>
vars == <<doc, names, inodes, edits, cmd, commands, issued, verified, built>>

JsonTokens == <<[t |-> "object", key |-> <<>>, bytes |-> 0], [t |-> "end", key |-> <<>>, bytes |-> 0]>>
Json(shape, v) == [size |-> 1, line |-> TRUE, tokens |-> JsonTokens, shape |-> shape, format |-> TRUE,
                   value |-> v]
NoJson(size, v) == [size |-> size, line |-> FALSE, tokens |-> <<[t |-> "garbage", key |-> <<>>, bytes |-> 0]>>,
                    shape |-> "none", format |-> FALSE, value |-> v]

Input(f) == [file |-> f, cap |-> Caps[f]]
Validation == <<Input("trace"), Input("raw"), Input("context")>>

(* with_validated, once the three inputs are held.                         *)
WithValidated ==
    With(ReadTrace(Snap("trace")), LAMBDA trace :
    With(ReadRawRecordSet(Snap("raw")), LAMBDA raws :
    With(ReadDeclaredContext(Snap("context")), LAMBDA context :
       IF trace.code # "ok" THEN trace
       ELSE IF raws.code # "ok" THEN raws
       ELSE IF context.code # "ok" THEN context
       ELSE IF ValidateTrace(trace.value, raws.value, context.value)
       THEN Good([trace |-> trace.value, raws |-> raws.value, context |-> context.value])
       ELSE Bad("validation"))))

HoldsAll == cmd.step = "next" /\ cmd.todo = <<>>

Refuse(code) == EndCommand(code) /\ UNCHANGED <<files, history>>

(* publish: the single output, refused when the name is taken.             *)
Publish(f, content) ==
    \/ Occupied(f) = "ok" /\ Published(f, content) /\ EndCommand("ok")
    \/ EndCommand(IF Occupied(f) = "ok" THEN "output-publish" ELSE Occupied(f)) /\ UNCHANGED files

Succeeds == cmd'.code = "ok"

Canonicalize ==
    /\ HoldsAll /\ cmd.op = "canonicalize"
    /\ IF DuplicateInodes(cmd.snaps) THEN Refuse("input-alias")
       ELSE \E v \in {WithValidated} :
          IF v.code # "ok" THEN Refuse(v.code)
          ELSE /\ Publish("canonical", NoJson(1, CanonicalBytes(v.value.trace)))
               /\ UNCHANGED history

BuildCandidate ==
    /\ HoldsAll /\ cmd.op = "build"
    /\ IF DuplicateInodes(cmd.snaps) THEN Refuse("input-alias")
       ELSE \E v \in {WithValidated} :
          IF v.code # "ok" THEN Refuse(v.code)
          ELSE \E c \in {ReplayCandidate(v.value.trace)} :
                  /\ Publish("replay", Json("candidate", c))
                  /\ built' = IF Succeeds THEN built \cup {[trace |-> v.value.trace, candidate |-> c]}
                              ELSE built
                  /\ UNCHANGED <<issued, verified>>

(* issue_authority_receipt, first part: the key is read only once the      *)
(* trace has been validated.                                               *)
IssueValidated ==
    /\ HoldsAll /\ cmd.op = "issue" /\ Len(cmd.snaps) = 3
    /\ IF DuplicateInodes(cmd.snaps) THEN Refuse("input-alias")
       ELSE \E v \in {WithValidated} :
          IF v.code # "ok" THEN Refuse(v.code)
          ELSE cmd' = [cmd EXCEPT !.todo = <<Input("key")>>] /\ UNCHANGED <<files, history>>

(* The rest of it, with the key.                                           *)
IssueReceiptFile ==
    /\ HoldsAll /\ cmd.op = "issue" /\ Len(cmd.snaps) = 4
    /\ LET key == Snap("key")  a == cmd.args
       IN IF ~cmd.snaps[4].private THEN Refuse("unsupported-input-profile")
          ELSE IF DuplicateInodes(cmd.snaps) THEN Refuse("input-alias")
          ELSE IF key.size # 32 THEN Refuse("authority-signing-key")
          ELSE \E t \in {WithValidated.value.trace} :
               \E r \in {IssueReceipt(t, key.value, a.issuer, a.key_id, a.epoch)} :
                  IF r.code # "ok" THEN Refuse(r.code)
                  ELSE /\ Publish("receipt", Json("receipt", r.value))
                       /\ issued' = IF Succeeds THEN issued \cup {[trace |-> t, receipt |-> r.value]}
                                    ELSE issued
                       /\ UNCHANGED <<verified, built>>

(* verify.                                                                 *)
VerifyWork ==
    With(WithValidated, LAMBDA v :
    With(ReadCandidate(Snap("replay")), LAMBDA inspected :
    With(ReadReceipt(Snap("receipt")), LAMBDA receipt :
    With(ReadTrustPolicy(Snap("trust")), LAMBDA policy :
       IF v.code # "ok" THEN v
       ELSE IF inspected.code # "ok" THEN inspected
       ELSE IF receipt.code # "ok" THEN receipt
       ELSE IF policy.code # "ok" THEN policy
       ELSE IF ~ReceiptIsTrusted(receipt.value, policy.value) THEN Bad("authority-receipt-rejected")
       ELSE With(VerifyReplay(v.value.trace, inspected.value, receipt.value), LAMBDA replay :
               IF replay.code # "ok" THEN replay
               ELSE Good([trace |-> v.value.trace, raws |-> v.value.raws, context |-> v.value.context,
                          verified |-> replay.value, policy |-> policy.value]))))))

Verify ==
    /\ HoldsAll /\ cmd.op = "verify"
    /\ IF DuplicateInodes(cmd.snaps) THEN Refuse("input-alias")
       ELSE \E w \in {VerifyWork} :
          IF w.code # "ok" THEN Refuse(w.code)
          ELSE /\ Publish("verified", Json("verified", w.value.verified))
               /\ verified' = IF Succeeds THEN verified \cup {w.value} ELSE verified
               /\ UNCHANGED <<issued, built>>

-----------------------------------------------------------------------------
Start ==
    /\ cmd.step = "idle" /\ commands < MaxCommands /\ commands' = commands + 1
    /\ \/ StartCommand("canonicalize", <<>>, Validation)
       \/ StartCommand("build", <<>>, Validation)
       \/ \E a \in IssueArgs : StartCommand("issue", a, Validation)
       \/ StartCommand("verify", <<>>,
                       Validation \o <<Input("replay"), Input("receipt"), Input("trust")>>)
    /\ UNCHANGED <<files, history, doc>>

Command ==
    /\ Canonicalize \/ BuildCandidate \/ IssueValidated \/ IssueReceiptFile \/ Verify
    /\ UNCHANGED <<doc, commands>>

ReadInput == (OpenGate \/ FinishRead) /\ UNCHANGED <<doc, commands, history>>

(* Files change only while a command runs: what they are before it starts  *)
(* is in the initial states.                                               *)
ChangeFile == cmd.step # "idle" /\ Others /\ UNCHANGED <<doc, commands, history>>

(* The preflight of one document, examined on its own.                     *)
Scan == commands = 0 /\ names = [f \in Files |-> Absent] /\ ScanNext
          /\ UNCHANGED <<names, inodes, edits, cmd, commands, issued, verified, built>>

FilesOf(contents) ==
    LET present == SetToSeq({f \in Files : contents[f] # <<>>})
    IN /\ inodes = [i \in DOMAIN present |-> [content |-> contents[present[i]], stamp |-> 0, private |-> TRUE]]
       /\ names = [f \in Files |-> IF contents[f] = <<>> THEN Absent
                                   ELSE CHOOSE i \in DOMAIN present : present[i] = f]

(* What the program did not write itself: the files it finds and those     *)
(* that others put there.                                                  *)
FoundAs(f) == Contents[f] \cup {contents[f] : contents \in {c \in InitialFiles : c[f] # <<>>}}
Known(wire) == UNION {{c.value : c \in {d \in FoundAs(f) : d.shape = wire}} : f \in Files}
KnownTraces == Known("trace") \cup {b.trace : b \in EarlierBuilt}

(* The files of the commands have names, and what is decoded as a trace or *)
(* as raw records has their type.  The length of a trace's compact JSON    *)
(* depends on nothing but the trace.                                       *)
ASSUME FilesAssumption ==
    /\ IsFiniteSet(Files) /\ {MaxCommands, MaxEdits} \subseteq Nat
    /\ {"trace", "raw", "context", "key", "replay", "receipt", "trust", "canonical", "verified"} \subseteq Files
    /\ \A t \in KnownTraces : TraceIsTyped(t)
    /\ \A s, t \in KnownTraces : CanonicalBytes(s) = CanonicalBytes(t) => s.compact = t.compact
    /\ \A raws \in Known("raws") : raws \in Seq(ToSet(raws))

(* Signatures cannot be forged: a receipt that others left behind, that a  *)
(* trusted key verifies and that is anchored to a trace of theirs was      *)
(* issued by the key's holder.  Earlier receipts and candidates are what   *)
(* these commands compute.                                                 *)
ASSUME AuthorityAssumption ==
    /\ \A r \in Known("receipt"), p \in Known("trust"), t \in Known("trace") :
          /\ r.signature = Sign(p.verification_key, SignatureMessage(r))
          /\ r.anchor = Anchor(ReplayCandidate(t))
          => \E i \in EarlierReceipts : i.receipt = r
    /\ \A i \in EarlierReceipts : i.receipt.anchor = Anchor(ReplayCandidate(i.trace))
    /\ \A b \in EarlierBuilt : b.candidate = ReplayCandidate(b.trace)

Init ==
    /\ ScanInit /\ edits = 0 /\ cmd = IdleCommand /\ commands = 0
    /\ issued = EarlierReceipts /\ verified = {} /\ built = EarlierBuilt
    /\ \E contents \in InitialFiles : FilesOf(contents)

Next == Start \/ ReadInput \/ Command \/ ChangeFile \/ Scan

Spec == Init /\ [][Next]_vars

-----------------------------------------------------------------------------
(* The command holds each of its inputs at most once and ends with a       *)
(* failure of one of the closed sets.                                      *)
TypeOK ==
    /\ names \in [Files -> {Symlink, Absent} \cup DOMAIN inodes]
    /\ cmd.step \in {"idle", "next", "reading"} /\ commands \in 0..MaxCommands
    /\ Len(cmd.snaps) + Len(cmd.todo) <= 6
    /\ cmd.code \in {"none", "ok", "validation"} \cup AdapterErrorCodes \cup ReplayErrorCodes
                      \cup ReplayAuthorityErrorCodes

(* A verified replay was signed for: under the key and the epoch the trust *)
(* policy accepts, the key holder has issued a receipt for a trace with    *)
(* the same canonical bytes, whatever happened to the files on the way     *)
(* (verify_replay_authority_receipt_v0, signature_message).                *)
VerifiedWasIssued ==
    \A v \in verified :
        \E i \in issued :
            /\ v.policy.verification_key = i.receipt.signature[1]
            /\ i.receipt.authority_epoch = v.policy.accepted_authority_epoch
            /\ CanonicalBytes(i.trace) = CanonicalBytes(v.trace)

(* A verified replay is the chain of the very trace that was validated     *)
(* against these records: every link of it can be recomputed from them     *)
(* (verify_trajectory_replay_v0).                                          *)
VerifiedIsRecomputed ==
    \A v \in verified :
        /\ v.verified.replay = ReplayCandidate(v.trace)
        /\ \A k \in DOMAIN v.raws :
              v.verified.replay.records[k].raw_record_digest = RawRecordDigest(v.raws[k])

(* The digest of a candidate stands for one trace only: whoever compares   *)
(* digests compares traces (trajectory_digest, canonical_bytes).           *)
DigestBindsTrace ==
    \A a, b \in built : a.candidate.trajectory_digest = b.candidate.trajectory_digest
                          => a.trace = b.trace

(* No value enters a published artifact without evidence in the records:   *)
(* each field of a verified trace cites bytes of a raw record, directly or *)
(* through an allowed derivation (validate_required_field).                *)
ValuesAreEvidenced ==
    \A b \in verified :
        \A k \in DOMAIN AllFields(b.trace) :
            LET inputs == AllFields(b.trace)[k].evidence.inputs
            IN \E i \in DOMAIN inputs : inputs[i].record_index + 1 \in DOMAIN b.raws

(* A replay that is verified is genuine: it was signed for under the       *)
(* trusted key and epoch, its chain can be recomputed from the very        *)
(* records it was checked against, its digest stands for one trace, its    *)
(* values are evidenced, and each file was read as it was at one moment,   *)
(* although the files change between the reads (verify_trajectory_replay,  *)
(* read_snapshot).                                                         *)
ReplayIsGenuine ==
    /\ TypeOK
    /\ VerifiedIsRecomputed
    /\ DigestBindsTrace
    /\ ValuesAreEvidenced
    /\ VerifiedWasIssued
    /\ SnapshotsAreWhole
=============================================================================

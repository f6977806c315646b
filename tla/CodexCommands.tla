---------------------------- MODULE CodexCommands ----------------------------
(***************************************************************************)
(* The commands over recorded runs (cli/trajectory.rs,                     *)
(* cli/trajectory_composition.rs): adapt a capture to a private bundle,    *)
(* sanitize it to a public bundle with its private sidecar, and evaluate   *)
(* the composition of a capture under either authority, over files that    *)
(* change meanwhile.                                                       *)
(***************************************************************************)
EXTENDS CodexSanitizer, TrajectoryComposition, Snapshots

CONSTANTS Caps,            \* [Files -> Nat], the caps of the readers
          Draws,           \* what the two nonces may come out as: [reads, source, bytes]
          OutputModes,     \* how evaluate is told its outputs
          Held(_),         \* the content a file holds, by the name Contents has for it
          InitialFiles,    \* the contents names may have at first, or "none"
          MaxCommands

VARIABLES commands,        \* commands started
          privates,        \* history: private bundles published, with what they were made of
          pairs,           \* history: public bundles and sidecars published
          evaluated        \* history: compositions published

history == <<privates, pairs, evaluated>>
commandVars == <<names, inodes, edits, cmd, commands, privates, pairs, evaluated>>

Input(f) == [file |-> f, cap |-> Caps[f]]
Inputs(fs) == [i \in DOMAIN fs |-> Input(fs[i])]
Read(held, f) == held[Snap(f)]
HoldsAll == cmd.step = "next" /\ cmd.todo = <<>>
Has(f) == \E k \in DOMAIN cmd.snaps : cmd.snaps[k].file = f
Refuse(code) == EndCommand(code) /\ UNCHANGED <<files, history>>

(* The receipt and the context of the run command.                         *)
Authorities(held) ==
    IF DuplicateInodes(cmd.snaps) THEN Bad("input-alias")
    ELSE Then(DecodeAuthority(Read(held, "authority")), LAMBDA authority :
         Then(DecodeTrustedContext(Read(held, "context")), LAMBDA trusted :
              Good([authority |-> authority, trusted |-> trusted])))

(* run with output type private.                                           *)
PrivateOutput(held) ==
    Then(Authorities(held), LAMBDA a :
    Then(Adapt(Read(held, "raw"), a.authority, a.trusted), PrivateBundle))

RunPrivate(held) ==
    /\ HoldsAll /\ cmd.op = "private"
    /\ \E bundle \in {PrivateOutput(held)} :
          IF bundle.code # "ok" THEN Refuse(bundle.code)
          ELSE IF Occupied("private-bundle") # "ok" THEN Refuse(Occupied("private-bundle"))
          ELSE /\ \/ /\ Published("private-bundle", "made") /\ EndCommand("ok")
                     /\ privates' = privates \cup {[raw |-> Snap("raw"), authority |-> Snap("authority"),
                                                    context |-> Snap("context")]}
                  \/ EndCommand("output-publish") /\ UNCHANGED <<files, privates>>
               /\ UNCHANGED <<pairs, evaluated>>

(* run with output type shareable-sanitized; publish_pair checks the pair  *)
(* before either name appears.                                             *)
ShareableOutput(held, nonce, reblinding) ==
    Then(Authorities(held), LAMBDA a :
         LET drawn == FirstFailure(<<FillRandom(nonce.reads, 4, nonce.bytes = <<0>>),
                                     FillRandom(reblinding.reads, 4, reblinding.bytes = <<0>>)>>)
         IN IF cmd.args = <<>> THEN Bad("public-shareability-denied")
            ELSE IF drawn # "ok" THEN Bad(drawn)
            ELSE Then(SanitizeCapture(Read(held, "raw"), a.authority, a.trusted, nonce, reblinding),
                      PublicationPair))

RunShareable(held) ==
    /\ HoldsAll /\ cmd.op = "shareable"
    /\ \E nonce, reblinding \in Draws : \E pair \in {ShareableOutput(held, nonce, reblinding)} :
          IF pair.code # "ok" THEN Refuse(pair.code)
          ELSE \E refused \in {FirstFailure(<<Occupied("sidecar"), Occupied("bundle"),
                                   ValidateSemanticPair(pair.value.sidecar, pair.value.bundle)>>)} :
               IF refused # "ok" THEN Refuse(refused)
               ELSE /\ \/ /\ inodes' = inodes \o <<[content |-> "made", stamp |-> 0, private |-> TRUE],
                                                   [content |-> "made", stamp |-> 0, private |-> FALSE]>>
                          /\ names' = [names EXCEPT !["sidecar"] = Len(inodes) + 1, !["bundle"] = Len(inodes) + 2]
                          /\ EndCommand("ok") /\ UNCHANGED edits
                          /\ pairs' = pairs \cup {[raw |-> Snap("raw"), nonce |-> nonce, bundle |-> pair.value.bundle.value]}
                       \/ EndCommand("output-publish") /\ UNCHANGED <<files, pairs>>
                    /\ UNCHANGED <<privates, evaluated>>

-----------------------------------------------------------------------------
(* evaluate.                                                               *)

(* The trace, by the authority that was given for it.                      *)
EvaluatedCapture(held) ==
    IF Has("authority") /\ Has("context") /\ ~Has("bundle")
    THEN IF Has("sidecar") THEN Bad("unsupported-authority")
         ELSE Then(DecodeAuthority(Read(held, "authority")), LAMBDA authority :
              Then(DecodeTrustedContext(Read(held, "context")), LAMBDA trusted :
                   Adapt(Read(held, "raw"), authority, trusted)))
    ELSE IF Has("bundle") /\ ~Has("authority") /\ ~Has("context")
    THEN Then(InspectBundle(Read(held, "bundle")), LAMBDA inspected :
              IF ~Has("sidecar") THEN RevalidatePublic(inspected, Read(held, "raw"))
              ELSE Then(DecodeSidecar(Read(held, "sidecar")), LAMBDA sidecar :
                        RevalidateForJsonl(sidecar, inspected, Read(held, "raw"))))
    ELSE Bad("unsupported-authority")

(* materialize.                                                            *)
Materialize(held, trace) ==
    Then(ReadCandidate(Read(held, "replay")), LAMBDA inspected :
    Then(ReadReceipt(Read(held, "receipt")), LAMBDA receipt :
    Then(ReadTrustPolicy(Read(held, "trust")), LAMBDA trust :
         IF ~ReceiptIsTrusted(receipt, trust) THEN Bad("authority-receipt-rejected")
         ELSE Then(VerifyReplay(trace, inspected, receipt), LAMBDA verified :
                   EvaluateComposition(trace, verified.replay, Read(held, "policy"))))))

Evaluation(held) ==
    IF DuplicateInodes(cmd.snaps) THEN Bad("input-alias")
    ELSE IF cmd.args = "aliased" THEN Bad("cross-output-alias")
    ELSE Then(EvaluatedCapture(held), LAMBDA capture :
         Then(Materialize(held, capture.trace), LAMBDA result :
              IF cmd.args = "mixed" THEN Bad("unsafe-output-path")
              ELSE Good([trace |-> capture.trace, result |-> result])))

Current(snap) == Fingerprint(snap.fingerprint[1]) = snap.fingerprint

Evaluate(held) ==
    /\ HoldsAll /\ cmd.op = "evaluate"
    /\ \E e \in {Evaluation(held)} :
          IF e.code # "ok" THEN Refuse(e.code)
          ELSE /\ cmd' = [cmd EXCEPT !.step = "revalidate",
                      !.gate = [next |-> 1,
                                out |-> [raw |-> Snap("raw"), seal |-> e.value.trace.raw_capture,
                                         events |-> Len(e.value.trace.events),
                                         temporal |-> e.value.result.temporal,
                                         public |-> Has("bundle"), sidecar |-> Has("sidecar"),
                                         coexisted |-> \A k \in DOMAIN cmd.snaps : Current(cmd.snaps[k])]]]
               /\ UNCHANGED <<files, history>>

(* The inputs are looked at again, one by one, before anything is          *)
(* published.                                                              *)
RevalidateInput ==
    /\ cmd.step = "revalidate" /\ cmd.gate.next <= Len(cmd.snaps)
    /\ IF Revalidates(cmd.snaps[cmd.gate.next])
       THEN cmd' = [cmd EXCEPT !.gate.next = @ + 1]
       ELSE EndCommand("input-changed")
    /\ UNCHANGED <<files, history>>

(* publish_set or publish_directory_set: everything or nothing.            *)
PublishEvaluation ==
    /\ cmd.step = "revalidate" /\ cmd.gate.next > Len(cmd.snaps)
    /\ IF Occupied("result") # "ok" THEN Refuse(Occupied("result"))
       ELSE /\ \/ /\ Published("result", "made") /\ EndCommand("ok")
                  /\ evaluated' = evaluated \cup {cmd.gate.out}
               \/ EndCommand("output-publish") /\ UNCHANGED <<files, evaluated>>
            /\ UNCHANGED <<privates, pairs>>

-----------------------------------------------------------------------------
Replayed == <<"replay", "receipt", "trust", "policy">>

Start ==
    /\ cmd.step = "idle" /\ commands < MaxCommands /\ commands' = commands + 1
    /\ \/ StartCommand("private", <<>>, Inputs(<<"raw", "authority", "context">>))
       \/ \E to \in {<<>>, <<"sidecar">>} :
             StartCommand("shareable", to, Inputs(<<"raw", "authority", "context">>))
       \/ \E route \in {<<"raw", "authority", "context">>, <<"raw", "bundle">>,
                        <<"raw", "bundle", "sidecar">>, <<"raw", "authority", "context", "sidecar">>,
                        <<"raw", "authority", "bundle">>} :
             \E mode \in OutputModes : StartCommand("evaluate", mode, Inputs(route \o Replayed))
    /\ UNCHANGED <<files, history>>

ReadInput == (OpenGate \/ FinishRead) /\ UNCHANGED <<commands, history>>

(* What the snapshots hold.                                                *)
SnapshotContents == Table({cmd.snaps[k].content : k \in DOMAIN cmd.snaps}, Held)

Command ==
    /\ \/ \E held \in {SnapshotContents} : RunPrivate(held) \/ RunShareable(held) \/ Evaluate(held)
       \/ RevalidateInput \/ PublishEvaluation
    /\ UNCHANGED commands

ChangeFile == cmd.step # "idle" /\ Others /\ UNCHANGED <<commands, history>>

CommandInit(starts) ==
    /\ edits = 0 /\ cmd = IdleCommand /\ commands = 0 /\ privates = {} /\ pairs = {} /\ evaluated = {}
    /\ \E contents \in starts :
          LET present == FoldSet(LAMBDA f, s : Append(s, f), <<>>, {f \in Files : contents[f] # "none"})
          IN /\ inodes = [i \in DOMAIN present |->
                             [content |-> contents[present[i]], stamp |-> 0, private |-> TRUE]]
             /\ names = [f \in Files |-> IF contents[f] = "none" THEN Absent
                                         ELSE CHOOSE i \in DOMAIN present : present[i] = f]

CommandNext == Start \/ ReadInput \/ Command \/ ChangeFile
=============================================================================

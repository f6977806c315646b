---------------------------- MODULE CodexReceipts ----------------------------
(***************************************************************************)
(* Input authority receipts and trusted contexts (receipt*.rs), and the    *)
(* nonces they are blinded with.                                           *)
(*                                                                         *)
(* A receipt is [class, format, emitter, length, digest, count, seal,      *)
(* source, nonce, more].  length, digest, count and seal are of the JSONL  *)
(* it vouches for (a process seals its standard output under plain SHA-256 *)
(* and a derived receipt counts only in its seal); format tells that the   *)
(* format, version and class strings are right; more has what the class    *)
(* adds.  A nonce is <<>> when it is not 64 lower hex digits, <<0>> when   *)
(* it is all zero.  A workspace entry is [ordinal, role, path, sha256,     *)
(* inode] with path <<relative, rank>>.                                    *)
(***************************************************************************)
EXTENDS CodexStream

CONSTANTS ReservedNames,   \* identities in RESERVED_POLICY_NAMESPACES_V0
          ArgvLimits,      \* [arguments, bytes, total]
          MaxManifest      \* MAX_CAPTURE_MANIFEST_ENTRIES_V0

(* binding_from_registries: a digest over all the sources of a registry.   *)
BindingFromRegistries(identity, sources) ==
    [identity |-> identity, version |-> "v0", hash |-> FramedSha256(identity, sources)]
SanitizerBinding == BindingFromRegistries("sanitizer", <<"adapter-core", "sanitizer-only">>)
FixtureSpecBinding == BindingFromRegistries("fixture-spec", <<"source-manifest">>)
CaptureProducerBinding == BindingFromRegistries("capture-producer", <<"adapter-core", "capture-producer">>)
SanitizerPolicyBinding == BindingFromRegistries("sanitizer-policy", <<"policy">>)
CaptureProfileBinding == BindingFromRegistries("capture-profile", <<"profile">>)

PinnedEmitter == "pinned-emitter"
Pinned == [executable |-> <<"sha256", "codex">>, disciplines |-> "held", argv |-> <<5, 4>>,
           release |-> "pinned-release"]

StandardSha256(bytes) == FramedSha256("sha256", bytes)

(* The canonical bytes of a receipt, class by class: all that a commitment *)
(* binds.  The fields are named and length-prefixed.                       *)
EncodeSynthetic(r) ==
    <<"synthetic-fixture", r.format, r.emitter, r.length, r.digest, r.count, r.seal, r.more.manifest,
      r.source, r.nonce>>
EncodeProcess(r) ==
    LET p == r.more
    IN <<"process-capture", r.format, r.emitter, p.executable, p.executable_inode, p.disciplines, p.argv,
         p.stdin, p.termination, r.length, r.digest, p.stderr, r.count, r.seal, p.tool, p.tool_file,
         p.tool_inode, p.profile, p.workspace, p.tree, p.release, p.verification, r.source, r.nonce>>
EncodeDerived(r) ==
    LET p == r.more
    IN <<"sanitized-derived-capture", r.format, p.parent, p.origin, p.parent_commitment, p.parent_length,
         p.parent_digest, p.parent_seal, p.policy, p.artifact, r.length, r.digest, r.seal, r.source, r.nonce>>

Commitment(r) ==
    FramedSha256("authority-commitment",
        CASE r.class = "synthetic-fixture" -> EncodeSynthetic(r)
          [] r.class = "genuine-process-capture" -> EncodeProcess(r)
          [] r.class = "sanitized-derived-capture" -> EncodeDerived(r))

(* fill_random over the results of the reads, of n bytes in all; read      *)
(* results are lengths, "intr" or "error".                                 *)
FillRandom(reads, n, zero) ==
    LET step(s, r) ==
            IF s.failed \/ s.offset = n \/ r = <<"intr">> THEN s
            ELSE IF r[1] = "error" \/ r[2] = 0 \/ r[2] > n - s.offset THEN [s EXCEPT !.failed = TRUE]
            ELSE [s EXCEPT !.offset = @ + r[2]]
        s == FoldLeft(step, [failed |-> FALSE, offset |-> 0], reads)
    IN IF s.failed \/ zero THEN "entropy-unavailable" ELSE IF s.offset = n THEN "ok" ELSE "reading"

-----------------------------------------------------------------------------
(* Validation, with the failures in the order of the code.                 *)
Require(holds, code) == IF holds THEN "ok" ELSE code

(* ArgvBytesV0::decoded: the counts are those of the arguments, each of    *)
(* which is given by its length.                                           *)
ArgvDecodes(argv) ==
    /\ argv.lower_hex /\ argv.count = Len(argv.arguments) /\ argv.count <= ArgvLimits.arguments
    /\ \A i \in DOMAIN argv.arguments : argv.arguments[i] <= ArgvLimits.bytes
    /\ argv.total = SumSeq(LAMBDA a : a, argv.arguments) /\ argv.total <= ArgvLimits.total

(* CaptureManifestEntryV0::validate.                                       *)
ManifestEntryIsValid(e) == e.role = "fixture-input" /\ IsDigest(e.sha256) /\ e.path[1] = "relative"

(* validate_order; ordinals count from 0.                                  *)
ManifestIsOrdered(entries) ==
    \A i \in DOMAIN entries :
        /\ ManifestEntryIsValid(entries[i]) /\ entries[i].ordinal = i - 1
        /\ i > 1 => entries[i - 1].path[2] < entries[i].path[2]
        /\ \A j \in 1..(i - 1) : entries[j].inode # entries[i].inode

WorkspaceTreeDigest(entries) == FramedSha256("workspace-tree", entries)

NonceIsValid(nonce, source) == nonce # <<>> /\ (source = "capture-random" => nonce # <<0>>)

(* validate_termination_domain.                                            *)
TerminationInDomain(t) ==
    CASE t[1] = "exited" -> t[2] <= 125 [] t[1] = "signaled" -> t[2] \in 1..64

ValidateSynthetic(r) ==
    FirstFailure(<<Require(r.format /\ r.count = r.seal.record_count, "receipt-shape"),
                   Require(r.emitter = PinnedEmitter, "receipt-mismatch"),
                   Require(IsDigest(r.digest) /\ IsDigest(r.seal.digest)
                             /\ ValidateBinding(r.more.manifest), "receipt-shape"),
                   Require(r.more.manifest = FixtureSpecBinding, "receipt-mismatch"),
                   Require(NonceIsValid(r.nonce, r.source), "receipt-shape")>>)

(* The three files a process capture names are three inodes.               *)
InodesAreDistinct(p) ==
    /\ p.executable_inode # p.tool_inode
    /\ \A i \in DOMAIN p.workspace : p.workspace[i].inode \notin {p.executable_inode, p.tool_inode}

ValidateProcess(r) ==
    LET p == r.more
    IN FirstFailure(
        <<Require(r.format /\ r.source = "capture-random" /\ r.count = r.seal.record_count, "receipt-shape"),
          Require(r.emitter = PinnedEmitter, "receipt-mismatch"),
          Require(IsDigest(p.executable), "receipt-shape"),
          Require(p.executable = Pinned.executable, "receipt-mismatch"),
          Require(p.disciplines = Pinned.disciplines, "unsupported-profile"),
          Require(ArgvDecodes(p.argv), "receipt-shape"),
          Require(p.argv.arguments = Pinned.argv /\ p.stdin # <<>>, "unsupported-profile"),
          Require(/\ IsDigest(p.stdin) /\ IsDigest(r.digest) /\ IsDigest(p.stderr)
                  /\ IsDigest(r.seal.digest) /\ ValidateBinding(p.tool) /\ IsDigest(p.tool_file),
                  "receipt-shape"),
          Require(p.tool = CaptureProducerBinding, "receipt-mismatch"),
          Require(ValidateBinding(p.profile), "receipt-shape"),
          Require(p.profile = CaptureProfileBinding, "unsupported-profile"),
          Require(Len(p.workspace) <= MaxManifest /\ ManifestIsOrdered(p.workspace), "receipt-shape"),
          Require(InodesAreDistinct(p), "receipt-mismatch"),
          Require(IsDigest(p.tree), "receipt-shape"),
          Require(/\ p.tree = WorkspaceTreeDigest(p.workspace) /\ p.release = Pinned.release
                  /\ p.verification \in {"verified", "unverified"}, "receipt-mismatch"),
          Require(NonceIsValid(r.nonce, "capture-random"), "receipt-shape"),
          Require(TerminationInDomain(p.termination), "illegal-termination")>>)

(* The pairs of origin and parent a derived receipt may assert.            *)
OriginIsPossible(origin, parent, source) ==
    \/ origin = "synthetic-fixture" /\ parent \in {"synthetic-random", "synthetic-fixed"}
    \/ origin = "genuine-process-capture" /\ parent = "process-random" /\ source = "capture-random"

ValidateDerived(r) ==
    LET p == r.more
    IN FirstFailure(
        <<Require(r.format /\ OriginIsPossible(p.origin, p.parent, r.source), "receipt-shape"),
          Require(/\ IsDigest(p.parent_commitment) /\ IsDigest(p.parent_digest)
                  /\ IsDigest(p.parent_seal.digest) /\ IsDigest(r.digest) /\ IsDigest(r.seal.digest)
                  /\ ValidateBinding(p.policy) /\ ValidateBinding(p.artifact), "receipt-shape"),
          Require(p.policy = SanitizerPolicyBinding /\ p.artifact = SanitizerBinding, "receipt-mismatch"),
          Require(NonceIsValid(r.nonce, r.source), "receipt-shape")>>)

ValidateReceipt(r) ==
    CASE r.class = "synthetic-fixture" -> ValidateSynthetic(r)
      [] r.class = "genuine-process-capture" -> ValidateProcess(r)
      [] r.class = "sanitized-derived-capture" -> ValidateDerived(r)

-----------------------------------------------------------------------------
(* Construction.                                                           *)
CommonReceipt(class, file, digest, nonce) ==
    [class |-> class, format |-> TRUE, emitter |-> PinnedEmitter, length |-> file.size,
     digest |-> digest, count |-> Len(file.lines), seal |-> RawCaptureSeal(file.lines),
     source |-> nonce.source, nonce |-> nonce.bytes]

WithMore(receipt, more) == receipt @@ ("more" :> more)

NewSynthetic(file, manifest, nonce) ==
    WithMore(CommonReceipt("synthetic-fixture", file, FullDigest(file), nonce), [manifest |-> manifest])

(* from_observed_process; the workspace manifest is empty.                 *)
FromObservedProcess(o, file, nonce) ==
    LET r == WithMore(CommonReceipt("genuine-process-capture", file, StandardSha256(file), nonce),
                [executable |-> o.executable, executable_inode |-> o.executable_inode,
                 disciplines |-> Pinned.disciplines,
                 argv |-> [lower_hex |-> TRUE, count |-> Len(Pinned.argv), arguments |-> Pinned.argv,
                           total |-> SumSeq(LAMBDA a : a, Pinned.argv)],
                 stdin |-> StandardSha256(o.stdin), stderr |-> StandardSha256(o.stderr),
                 termination |-> o.termination, tool |-> CaptureProducerBinding,
                 tool_file |-> o.tool_file, tool_inode |-> o.tool_inode,
                 profile |-> CaptureProfileBinding, workspace |-> <<>>,
                 tree |-> WorkspaceTreeDigest(<<>>), release |-> Pinned.release,
                 verification |-> "unverified"])
    IN IF Frame(file) # "ok" THEN Bad(Frame(file))
       ELSE IF ValidateReceipt(r) # "ok" THEN Bad(ValidateReceipt(r)) ELSE Good(r)

(* asserted_parent_receipt; "none" is unsupported.                         *)
AssertedParent(r) ==
    CASE r.class = "synthetic-fixture" ->
            IF r.source = "capture-random" THEN "synthetic-random" ELSE "synthetic-fixed"
      [] r.class = "genuine-process-capture" /\ r.source = "capture-random" -> "process-random"
      [] OTHER -> "none"

(* SanitizedDerivedCaptureReceiptV0::new, from the parent and its JSONL.   *)
NewDerived(parent, parentFile, child, nonce) ==
    [WithMore(CommonReceipt("sanitized-derived-capture", child, FullDigest(child), nonce),
        [origin |-> parent.class, parent |-> AssertedParent(parent),
         parent_commitment |-> Commitment(parent), parent_length |-> parentFile.size,
         parent_digest |-> FullDigest(parentFile), parent_seal |-> RawCaptureSeal(parentFile.lines),
         policy |-> SanitizerPolicyBinding, artifact |-> SanitizerBinding])
     EXCEPT !.emitter = <<>>, !.count = 0]

(* TrustedAdaptationContextV0::new.                                        *)
NewContext(commitment, policy) ==
    IF ~IsDigest(commitment) \/ ~ValidateBinding(policy) THEN Bad("receipt-shape")
    ELSE IF policy.identity \in ReservedNames THEN Bad("reserved-policy")
    ELSE Good([commitment |-> commitment, policy |-> policy])

(* preflight of receipt_wire.                                              *)
PreflightReceipt(file, cap) ==
    With(ScanJsonWithLimits(file.tokens, ScanLimits), LAMBDA root :
       IF file.size > cap THEN "input-too-large"
       ELSE CASE root = "object" -> "ok" [] root = "other" -> "receipt-shape"
              [] root = "budget" -> "json-budget" [] root = "invalid" -> "json-syntax")

DecodeAuthority(file) ==
    With(PreflightReceipt(file, CodexLimits.authority), LAMBDA preflight :
       IF preflight # "ok" THEN Bad(preflight)
       ELSE IF file.shape # "authority" THEN Bad("receipt-shape")
       ELSE IF ValidateReceipt(file.value) # "ok" THEN Bad(ValidateReceipt(file.value))
       ELSE Good(file.value))

DecodeTrustedContext(file) ==
    With(PreflightReceipt(file, CodexLimits.context), LAMBDA preflight :
       IF preflight # "ok" THEN Bad(preflight)
       ELSE IF file.shape # "trusted-context" \/ ~file.format THEN Bad("receipt-shape")
       ELSE NewContext(file.value.commitment, file.value.policy))

-----------------------------------------------------------------------------
(* Authorization of a framed capture.                                      *)

(* reject_dynamic_policy_substitution.                                     *)
PolicySubstitutesRole(r, policy) ==
    policy.identity \in CASE r.class = "synthetic-fixture" -> {r.more.manifest.identity}
                          [] r.class = "genuine-process-capture" -> {r.more.tool.identity, r.more.profile.identity}
                          [] r.class = "sanitized-derived-capture" -> {r.more.policy.identity, r.more.artifact.identity}

(* What a receipt says of the bytes.                                       *)
VouchesFor(r, file) ==
    /\ r.length = file.size /\ r.seal = RawCaptureSeal(file.lines)
    /\ r.digest = IF r.class = "genuine-process-capture" THEN StandardSha256(file) ELSE FullDigest(file)
    /\ r.class # "sanitized-derived-capture" => r.count = Len(file.lines)

(* authorize.                                                              *)
Authorize(r, file, trusted) ==
    FirstFailure(<<ValidateReceipt(r),
                   Require(/\ trusted.policy.identity \notin ReservedNames
                           /\ ~PolicySubstitutesRole(r, trusted.policy), "reserved-policy"),
                   Require(Commitment(r) = trusted.commitment, "trusted-context-mismatch"),
                   Require(VouchesFor(r, file), "receipt-mismatch")>>)

ProcessTermination(r) == IF r.class = "genuine-process-capture" THEN r.more.termination ELSE <<>>

(* public_derived_projection.                                              *)
PublicDerivedProjection(r) ==
    IF r.class # "sanitized-derived-capture" THEN Bad("unsupported-authority")
    ELSE Good([length |-> r.length, digest |-> r.digest, seal |-> r.seal,
               policy |-> r.more.policy, artifact |-> r.more.artifact, format |-> TRUE])
=============================================================================

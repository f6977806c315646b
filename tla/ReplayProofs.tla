---------------------------- MODULE ReplayProofs ----------------------------
(***************************************************************************)
(* Proofs about the replay commands: whatever files a command finds, and   *)
(* whatever others do to them meanwhile, what it verifies is genuine.      *)
(***************************************************************************)
EXTENDS ReplayCommands, SequenceTheorems, FiniteSetTheorems, NaturalsInduction,
        WellFoundedInduction, TLAPS

-----------------------------------------------------------------------------
(* The readers.                                                            *)

PreflightCodes == {"ok", "input-too-large", "json-framing", "json-shape", "json-syntax"}

LEMMA PreflightAnswers ==
    ASSUME NEW file, NEW cap, NEW limits, NEW line
    PROVE  PreflightJson(file, cap, limits, line) \in PreflightCodes
<1>1. PICK root : root = ScanJsonWithLimits(file.tokens, limits)
  OBVIOUS
<1>2. QED
  BY <1>1 DEF PreflightJson, With, PreflightCodes

LEMMA TraceReader ==
    ASSUME NEW file
    PROVE  /\ ReadTrace(file).code \in {"ok", "validation"}
           /\ ReadTrace(file).code = "ok" => file.shape = "trace" /\ ReadTrace(file).value = file.value
BY DEF ReadTrace, Good, Bad

LEMMA DecodedAnswers ==
    ASSUME NEW file, NEW wire, NEW preflight \in PreflightCodes, NEW parsed
    PROVE  LET d == Decoded(file, wire, preflight, parsed)
           IN /\ d.code \in PreflightCodes \cup {"unsupported-format"}
              /\ d.code = "ok" => file.shape = wire /\ d.value = file.value
BY DEF Decoded, Good, Bad, PreflightCodes

ReaderCodes == PreflightCodes \cup {"unsupported-format"}

(* A reader answers one of its codes, and lets only its wire type pass.    *)
Reads(d, file, wire) ==
    /\ d.code \in ReaderCodes
    /\ d.code = "ok" => file.shape = wire

LEMMA RawReader ==
    ASSUME NEW file
    PROVE  /\ Reads(ReadRawRecordSet(file), file, "raws")
           /\ ReadRawRecordSet(file).code = "ok" => ReadRawRecordSet(file).value = file.value
<1>1. PICK p : p = PreflightJson(file, Limits.raw_set_json, ScanLimits, FALSE)
  OBVIOUS
<1>2. PICK d : d = Decoded(file, "raws", p, file.value # <<>> /\ Len(file.value) <= Limits.records)
  OBVIOUS
<1>3. p \in PreflightCodes
  BY <1>1, PreflightAnswers
<1>4. /\ d.code \in PreflightCodes \cup {"unsupported-format"}
      /\ d.code = "ok" => file.shape = "raws" /\ d.value = file.value
  BY <1>2, <1>3, DecodedAnswers
<1>5. \/ ReadRawRecordSet(file) = d
      \/ ReadRawRecordSet(file) = Bad("input-too-large")
  BY <1>1, <1>2, Zenon DEF ReadRawRecordSet, With
<1>6. Bad("input-too-large").code = "input-too-large"
  BY DEF Bad
<1>7. QED
  BY <1>4, <1>5, <1>6 DEF Reads, ReaderCodes, PreflightCodes

LEMMA ContextReader ==
    ASSUME NEW file
    PROVE  Reads(ReadDeclaredContext(file), file, "declared-context")
<1>1. PICK p : p = PreflightJson(file, Limits.context_json, ScanLimits, FALSE)
  OBVIOUS
<1> DEFINE v == file.value
           parsed == /\ ValidateBinding(v.adapter) /\ ValidateBinding(v.policy)
                     /\ IsDigest(v.raw_capture.digest)
                     /\ v.raw_capture.record_count \in 1..Limits.records
                     /\ Len(v.derivations) <= Limits.events
                     /\ \A k \in DOMAIN v.derivations : ValidateBinding(v.derivations[k])
                     /\ NoRepeats(v.derivations)
<1>2. PICK d : d = Decoded(file, "declared-context", p, parsed)
  OBVIOUS
<1>3. p \in PreflightCodes
  BY <1>1, PreflightAnswers
<1>4. /\ d.code \in PreflightCodes \cup {"unsupported-format"}
      /\ d.code = "ok" => file.shape = "declared-context" /\ d.value = file.value
  <2> HIDE DEF parsed
  <2> QED BY <1>2, <1>3, DecodedAnswers
<1>5. PICK g : g = [adapter |-> v.adapter, policy |-> v.policy, raw_capture |-> v.raw_capture,
                    allowed_derivations |-> ToSet(v.derivations)]
  OBVIOUS
<1>6. ReadDeclaredContext(file) = IF d.code # "ok" THEN d ELSE Good(g)
  BY <1>1, <1>2, <1>5, Zenon DEF ReadDeclaredContext, With
<1>7. QED
  BY <1>4, <1>6 DEF Reads, ReaderCodes, PreflightCodes, Good

LEMMA CandidateReader ==
    ASSUME NEW file
    PROVE  /\ Reads(ReadCandidate(file), file, "candidate")
           /\ ReadCandidate(file).code = "ok" => ReadCandidate(file).value = file.value
<1>1. PICK p : p = PreflightJson(file, Limits.replay_json, ScanLimits, TRUE)
  OBVIOUS
<1>2. p \in PreflightCodes
  BY <1>1, PreflightAnswers
<1>3. ReadCandidate(file) = Decoded(file, "candidate", p, CandidateIsChained(file.value))
  BY <1>1 DEF ReadCandidate
<1>4. QED
  BY <1>2, <1>3, DecodedAnswers DEF Reads, ReaderCodes

LEMMA ReceiptReader ==
    ASSUME NEW file
    PROVE  /\ Reads(ReadReceipt(file), file, "receipt")
           /\ ReadReceipt(file).code = "ok" => ReadReceipt(file).value = file.value
<1>1. PICK p : p = PreflightJson(file, Limits.receipt_json, ScanLimits, TRUE)
  OBVIOUS
<1>2. PICK d : d = Decoded(file, "receipt", p, TRUE)
  OBVIOUS
<1>3. p \in PreflightCodes
  BY <1>1, PreflightAnswers
<1>4. /\ d.code \in PreflightCodes \cup {"unsupported-format"}
      /\ d.code = "ok" => file.shape = "receipt" /\ d.value = file.value
  BY <1>2, <1>3, DecodedAnswers
<1>5. \/ d.code # "ok" /\ ReadReceipt(file) = d
      \/ ReadReceipt(file) \in {Bad("json-shape"), Bad("unsupported-format")}
      \/ d.code = "ok" /\ ReadReceipt(file) = Good(file.value)
  BY <1>1, <1>2 DEF ReadReceipt, With
<1>6. QED
  BY <1>4, <1>5 DEF Reads, ReaderCodes, PreflightCodes, Good, Bad

LEMMA TrustReader ==
    ASSUME NEW file
    PROVE  /\ Reads(ReadTrustPolicy(file), file, "trust")
           /\ ReadTrustPolicy(file).code = "ok" => ReadTrustPolicy(file).value = file.value
<1>1. PICK p : p = PreflightJson(file, Limits.trust_json, ScanLimits, TRUE)
  OBVIOUS
<1>2. PICK d : d = Decoded(file, "trust", p, TRUE)
  OBVIOUS
<1>3. p \in PreflightCodes
  BY <1>1, PreflightAnswers
<1>4. /\ d.code \in PreflightCodes \cup {"unsupported-format"}
      /\ d.code = "ok" => file.shape = "trust" /\ d.value = file.value
  BY <1>2, <1>3, DecodedAnswers
<1>5. \/ d.code # "ok" /\ ReadTrustPolicy(file) = d
      \/ ReadTrustPolicy(file) \in {Bad("json-shape"), Bad("unsupported-format")}
      \/ d.code = "ok" /\ ReadTrustPolicy(file) = Good(file.value)
  BY <1>1, <1>2 DEF ReadTrustPolicy, With
<1>6. QED
  BY <1>4, <1>5 DEF Reads, ReaderCodes, PreflightCodes, Good, Bad

-----------------------------------------------------------------------------
(* The invariant.                                                          *)

IsSeq(s) == s \in Seq(ToSet(s))

(* What a file can hold: something that was found, or an output of these   *)
(* commands; of these only receipts are read back, and each was issued.    *)
Foreign(c) == \E f \in Files : c \in FoundAs(f)
Output(c) == \/ c.shape \in {"none", "candidate", "verified"}
             \/ c.shape = "receipt" /\ \E i \in issued : c.value = i.receipt
ContentOK(c) == Output(c) \/ Foreign(c)

InodeOK(n) ==
    /\ n = [content |-> n.content, stamp |-> n.stamp, private |-> n.private]
    /\ n.stamp \in Nat /\ ContentOK(n.content)

FilesInv ==
    /\ IsSeq(inodes) /\ \A i \in DOMAIN inodes : InodeOK(inodes[i])
    /\ names \in [Files -> {Symlink, Absent} \cup DOMAIN inodes]

(* The files a command reads, in their order.                              *)
Inputs == [op \in {"canonicalize", "build", "issue", "verify"} |->
             CASE op = "issue" -> <<"trace", "raw", "context", "key">>
               [] op = "verify" -> <<"trace", "raw", "context", "replay", "receipt", "trust">>
               [] OTHER -> <<"trace", "raw", "context">>]

(* The next inputs are those after the ones that are held; the key of an   *)
(* issue is asked for later than its other inputs.                         *)
Plan(op, snaps, todo) ==
    /\ op \in DOMAIN Inputs
    /\ \/ Len(snaps) + Len(todo) = Len(Inputs[op])
       \/ op = "issue" /\ Len(snaps) + Len(todo) = 3
    /\ \A i \in 1..Len(snaps) : snaps[i].file = Inputs[op][i]
    /\ \A i \in 1..Len(todo) : todo[i].file = Inputs[op][Len(snaps) + i]
PlanInv == Plan(cmd.op, cmd.snaps, cmd.todo)

(* Since the gate was opened, the stamp of the inode that is read has      *)
(* moved or its content is the one that was read first.                    *)
GateInv ==
    LET ino == cmd.gate.fingerprint[1]  stamp == cmd.gate.fingerprint[2]
    IN /\ cmd.todo # <<>>
       /\ cmd.gate.fingerprint = <<ino, stamp>> /\ ino \in DOMAIN inodes /\ stamp \in Nat
       /\ stamp <= inodes[ino].stamp
       /\ stamp = inodes[ino].stamp => cmd.gate.first = inodes[ino].content

SnapOK(s) == ContentOK(s.content) /\ s.first = s.content

CommandInv ==
    /\ cmd = [op |-> cmd.op, args |-> cmd.args, step |-> cmd.step, todo |-> cmd.todo, gate |-> cmd.gate,
              snaps |-> cmd.snaps, code |-> cmd.code]
    /\ cmd.step \in {"idle", "next", "reading"}
    /\ IsSeq(cmd.snaps) /\ IsSeq(cmd.todo)
    /\ \A i \in DOMAIN cmd.snaps : SnapOK(cmd.snaps[i])
    /\ cmd.step = "idle" => cmd.snaps = <<>> /\ cmd.todo = <<>>
    /\ cmd.step # "idle" => PlanInv
    /\ cmd.step = "reading" => GateInv

Codes == {"none", "ok", "validation"} \cup AdapterErrorCodes \cup ReplayErrorCodes \cup ReplayAuthorityErrorCodes
CountInv == commands \in 0..MaxCommands /\ cmd.code \in Codes

HistoryInv ==
    /\ EarlierReceipts \subseteq issued
    /\ \A i \in issued : i.receipt.anchor = Anchor(ReplayCandidate(i.trace))
    /\ \A b \in built : b.candidate = ReplayCandidate(b.trace) /\ b.trace \in KnownTraces
    /\ VerifiedIsRecomputed /\ ValuesAreEvidenced /\ VerifiedWasIssued

ReplayInv == FilesInv /\ CommandInv /\ CountInv /\ HistoryInv

-----------------------------------------------------------------------------
(* Sequences.                                                              *)

LEMMA AnySeq ==
    ASSUME NEW S, NEW s \in Seq(S)
    PROVE  IsSeq(s) /\ Len(s) \in Nat /\ DOMAIN s = 1..Len(s)
<1>1. Len(s) \in Nat /\ DOMAIN s = 1..Len(s)
  BY LenProperties
<1>2. \A i \in 1..Len(s) : s[i] \in ToSet(s)
  BY <1>1 DEF ToSet
<1>3. s \in [1..Len(s) -> ToSet(s)]
  BY <1>1, <1>2, LenProperties
<1>4. QED
  BY <1>1, <1>3, SeqDef DEF IsSeq

LEMMA SeqFacts ==
    ASSUME NEW s, IsSeq(s)
    PROVE  Len(s) \in Nat /\ DOMAIN s = 1..Len(s)
BY AnySeq DEF IsSeq

LEMMA SeqOfFunction ==
    ASSUME NEW n \in Nat, NEW s, s = [i \in 1..n |-> s[i]]
    PROVE  IsSeq(s) /\ Len(s) = n /\ DOMAIN s = 1..n
<1>1. DOMAIN s = 1..n
  OBVIOUS
<1>2. \A i \in 1..n : s[i] \in ToSet(s)
  BY <1>1 DEF ToSet
<1>3. s \in [1..n -> ToSet(s)]
  BY <1>1, <1>2
<1>4. s \in Seq(ToSet(s))
  BY <1>3, SeqDef
<1>5. Len(s) \in Nat /\ 1..Len(s) = 1..n
  BY <1>1, <1>4, LenProperties
<1>6. QED
  BY <1>1, <1>4, <1>5 DEF IsSeq

LEMMA SeqAppend ==
    ASSUME NEW s, IsSeq(s), NEW e
    PROVE  /\ IsSeq(Append(s, e)) /\ Len(Append(s, e)) = Len(s) + 1
           /\ DOMAIN Append(s, e) = 1..(Len(s) + 1)
           /\ \A i \in 1..Len(s) : Append(s, e)[i] = s[i]
           /\ Append(s, e)[Len(s) + 1] = e
<1>1. PICK S : S = ToSet(s) \cup {e}
  OBVIOUS
<1>2. s \in Seq(S) /\ e \in S
  BY <1>1, SeqMonotonic DEF IsSeq
<1>3. /\ Append(s, e) \in Seq(S) /\ Len(Append(s, e)) = Len(s) + 1
      /\ \A i \in 1..Len(s) : Append(s, e)[i] = s[i]
      /\ Append(s, e)[Len(s) + 1] = e
  BY <1>2, AppendProperties
<1>4. IsSeq(Append(s, e)) /\ DOMAIN Append(s, e) = 1..Len(Append(s, e))
  BY <1>3, AnySeq, Zenon
<1>5. QED
  BY <1>3, <1>4, Zenon

LEMMA SeqExcept ==
    ASSUME NEW s, IsSeq(s), NEW i \in DOMAIN s, NEW e
    PROVE  /\ IsSeq([s EXCEPT ![i] = e]) /\ DOMAIN [s EXCEPT ![i] = e] = DOMAIN s
           /\ Len([s EXCEPT ![i] = e]) = Len(s)
           /\ [s EXCEPT ![i] = e][i] = e
           /\ \A j \in DOMAIN s : j # i => [s EXCEPT ![i] = e][j] = s[j]
<1>1. PICK S : S = ToSet(s) \cup {e}
  OBVIOUS
<1>2. s \in Seq(S) /\ e \in S /\ i \in 1..Len(s)
  BY <1>1, SeqMonotonic, SeqFacts DEF IsSeq
<1>3. [s EXCEPT ![i] = e] \in Seq(S) /\ Len([s EXCEPT ![i] = e]) = Len(s)
  BY <1>2, ExceptSeq
<1>4. QED
  BY <1>2, <1>3, AnySeq

LEMMA SeqTail ==
    ASSUME NEW s, IsSeq(s), s # <<>>
    PROVE  /\ IsSeq(Tail(s)) /\ Len(Tail(s)) = Len(s) - 1 /\ Len(s) > 0
           /\ \A i \in 1..(Len(s) - 1) : Tail(s)[i] = s[i + 1]
<1>1. PICK S : S = ToSet(s) /\ s \in Seq(S)
  BY DEF IsSeq
<1>2. Tail(s) \in Seq(S) /\ Len(Tail(s)) = Len(s) - 1
      /\ \A i \in 1..Len(Tail(s)) : Tail(s)[i] = s[i + 1]
  BY <1>1, HeadTailProperties
<1>3. Len(s) > 0
  BY <1>1, EmptySeq
<1>4. QED
  BY <1>2, <1>3, AnySeq

LEMMA SeqConcat ==
    ASSUME NEW s, IsSeq(s), NEW t, IsSeq(t)
    PROVE  /\ IsSeq(s \o t) /\ Len(s \o t) = Len(s) + Len(t)
           /\ DOMAIN (s \o t) = 1..(Len(s) + Len(t))
           /\ \A k \in 1..Len(s) : (s \o t)[k] = s[k]
           /\ \A k \in 1..Len(t) : (s \o t)[Len(s) + k] = t[k]
           /\ \A k \in 1..(Len(s) + Len(t)) :
                 \/ k \in 1..Len(s) /\ (s \o t)[k] = s[k]
                 \/ k - Len(s) \in 1..Len(t) /\ (s \o t)[k] = t[k - Len(s)]
<1>1. PICK S : S = ToSet(s) \cup ToSet(t)
  OBVIOUS
<1>2. s \in Seq(S) /\ t \in Seq(S)
  BY <1>1, SeqMonotonic DEF IsSeq
<1>3. Len(s) \in Nat /\ Len(t) \in Nat
  BY SeqFacts
<1>4. /\ s \o t \in Seq(S) /\ Len(s \o t) = Len(s) + Len(t)
      /\ \A k \in 1..(Len(s) + Len(t)) : (s \o t)[k] = IF k <= Len(s) THEN s[k] ELSE t[k - Len(s)]
  BY <1>2, ConcatProperties
<1>5. \A k \in 1..Len(t) : (s \o t)[Len(s) + k] = t[k]
  <2> TAKE k \in 1..Len(t)
  <2>1. PICK m : m = Len(s) + k
    OBVIOUS
  <2>2. m \in 1..(Len(s) + Len(t)) /\ ~(m <= Len(s)) /\ m - Len(s) = k
    BY <2>1, <1>3
  <2>3. QED
    BY <2>1, <2>2, <1>4
<1>6. IsSeq(s \o t) /\ DOMAIN (s \o t) = 1..Len(s \o t)
  BY <1>4, AnySeq, Zenon
<1>7. \A k \in 1..Len(s) : (s \o t)[k] = s[k]
  BY <1>3, <1>4
<1>8. \A k \in 1..(Len(s) + Len(t)) :
         \/ k \in 1..Len(s) /\ (s \o t)[k] = s[k]
         \/ k - Len(s) \in 1..Len(t) /\ (s \o t)[k] = t[k - Len(s)]
  BY <1>3, <1>4
<1>9. QED
  BY <1>4, <1>5, <1>6, <1>7, <1>8, Zenon

LEMMA SeqEmpty == IsSeq(<<>>) /\ Len(<<>>) = 0 /\ DOMAIN <<>> = {}
<1>1. <<>> \in Seq({})
  BY EmptySeq
<1>2. IsSeq(<<>>) /\ DOMAIN <<>> = 1..Len(<<>>) /\ Len(<<>>) = 0
  BY <1>1, AnySeq, EmptySeq, Zenon
<1>3. QED
  BY <1>2

(* Induction over the naturals, for a set of them.                         *)
LEMMA SetInduction ==
    ASSUME NEW T, 0 \in T, \A n \in Nat : n \in T => n + 1 \in T
    PROVE  Nat \subseteq T
<1> DEFINE out == Nat \ T
<1> SUFFICES ASSUME out # {} PROVE FALSE
  OBVIOUS
<1>1. PICK n \in out : \A j \in out : ~(<<j, n>> \in OpToRel(<, Nat))
  BY WFMin, NatLessThanWellFounded, Zenon
<1>2. n \in Nat /\ n # 0 /\ n - 1 \in Nat /\ n - 1 < n
  OBVIOUS
<1>3. n - 1 \notin out
  BY <1>1, <1>2 DEF OpToRel
<1>4. QED
  BY <1>2, <1>3

(* The prefixes that Flatten joins exist.                                  *)
LEMMA FlatExists ==
    ASSUME NEW ss
    PROVE  \A n \in Nat : \E g : g = [i \in 0..n |-> IF i = 0 THEN <<>> ELSE g[i - 1] \o ss[i]]
<1> DEFINE good(n) == \E g : g = [i \in 0..n |-> IF i = 0 THEN <<>> ELSE g[i - 1] \o ss[i]]
           T == {n \in Nat : good(n)}
<1>1. 0 \in T
  <2>1. PICK g : g = [i \in 0..0 |-> <<>>]
    OBVIOUS
  <2>2. g = [i \in 0..0 |-> IF i = 0 THEN <<>> ELSE g[i - 1] \o ss[i]]
    BY <2>1
  <2>3. QED
    BY <2>2
<1>2. ASSUME NEW n \in Nat, n \in T PROVE n + 1 \in T
  <2>1. PICK g : g = [i \in 0..n |-> IF i = 0 THEN <<>> ELSE g[i - 1] \o ss[i]]
    BY <1>2
  <2>2. PICK last : last = g[n] \o ss[n + 1]
    OBVIOUS
  <2>3. PICK h : h = [i \in 0..(n + 1) |-> IF i = n + 1 THEN last ELSE g[i]]
    OBVIOUS
  <2>4. \A i \in 0..(n + 1) : h[i] = IF i = 0 THEN <<>> ELSE h[i - 1] \o ss[i]
    <3> TAKE i \in 0..(n + 1)
    <3>1. CASE i = 0
      BY <3>1, <2>1, <2>3
    <3>2. CASE i \in 1..n
      <4>1. i - 1 \in 0..n /\ i \in 0..n /\ i # n + 1 /\ i - 1 # n + 1 /\ i - 1 \in 0..(n + 1)
        BY <3>2
      <4>2. h[i] = g[i] /\ h[i - 1] = g[i - 1]
        BY <4>1, <2>3
      <4>3. QED
        BY <4>1, <4>2, <2>1, <3>2
    <3>3. CASE i = n + 1
      <4>1. i - 1 = n /\ h[n] = g[n] /\ h[i] = last /\ i # 0
        BY <3>3, <2>3
      <4>2. QED
        BY <4>1, <3>3, <2>2
    <3>4. QED
      BY <3>1, <3>2, <3>3
  <2>5. h = [i \in 0..(n + 1) |-> IF i = 0 THEN <<>> ELSE h[i - 1] \o ss[i]]
    BY <2>3, <2>4
  <2>6. QED
    BY <2>5
<1>3. Nat \subseteq T
  <2> HIDE DEF T
  <2> QED BY <1>1, <1>2, SetInduction
<1>4. QED
  BY <1>3

(* Every element of a flattened sequence is an element of a part.          *)
LEMMA FlattenParts ==
    ASSUME NEW ss, IsSeq(ss), \A i \in DOMAIN ss : IsSeq(ss[i])
    PROVE  /\ IsSeq(Flatten(ss))
           /\ \A k \in DOMAIN Flatten(ss) :
                 \E i \in DOMAIN ss : \E m \in DOMAIN ss[i] : Flatten(ss)[k] = ss[i][m]
<1> DEFINE n == Len(ss)
           F == CHOOSE flat : flat = [i \in 0..n |-> IF i = 0 THEN <<>> ELSE flat[i - 1] \o ss[i]]
           inPart(x) == \E i \in DOMAIN ss : \E m \in DOMAIN ss[i] : x = ss[i][m]
           good(s) == IsSeq(s) /\ \A k \in DOMAIN s : inPart(s[k])
           T == {i \in Nat : i <= n => good(F[i])}
<1>1. n \in Nat /\ DOMAIN ss = 1..n
  BY SeqFacts
<1>2. F = [i \in 0..n |-> IF i = 0 THEN <<>> ELSE F[i - 1] \o ss[i]]
  <2>1. PICK g : g = [i \in 0..n |-> IF i = 0 THEN <<>> ELSE g[i - 1] \o ss[i]]
    BY <1>1, FlatExists
  <2>2. QED
    BY <2>1, Zenon
<1>3. Flatten(ss) = F[n]
  BY Zenon DEF Flatten
<1> HIDE DEF F
<1>4. 0 \in T
  <2>1. F[0] = <<>>
    BY <1>1, <1>2
  <2>2. QED
    BY <2>1, SeqEmpty
<1>5. ASSUME NEW i \in Nat, i \in T PROVE i + 1 \in T
  <2> SUFFICES ASSUME i + 1 <= n PROVE good(F[i + 1])
    OBVIOUS
  <2>1. PICK j : j = i + 1
    OBVIOUS
  <2>2. j \in 0..n /\ j # 0 /\ j - 1 = i /\ i <= n /\ j \in DOMAIN ss
    BY <2>1, <1>1
  <2>3. F[j] = F[i] \o ss[j]
    BY <2>2, <1>2
  <2>4. PICK s, t : s = F[i] /\ t = ss[j]
    OBVIOUS
  <2>5. IsSeq(s) /\ IsSeq(t) /\ \A k \in DOMAIN s : inPart(s[k])
    BY <2>2, <2>4, <1>5
  <2>6. \A m \in DOMAIN t : inPart(t[m])
    BY <2>2, <2>4
  <2>7. DOMAIN s = 1..Len(s) /\ DOMAIN t = 1..Len(t)
    BY <2>5, SeqFacts
  <2>8. /\ IsSeq(s \o t) /\ DOMAIN (s \o t) = 1..(Len(s) + Len(t))
        /\ \A k \in 1..(Len(s) + Len(t)) :
              \/ k \in 1..Len(s) /\ (s \o t)[k] = s[k]
              \/ k - Len(s) \in 1..Len(t) /\ (s \o t)[k] = t[k - Len(s)]
    BY <2>5, SeqConcat
  <2>9. \A k \in DOMAIN (s \o t) : inPart((s \o t)[k])
    <3> HIDE DEF inPart
    <3> QED BY <2>5, <2>6, <2>7, <2>8
  <2>10. PICK r : r = s \o t
    OBVIOUS
  <2>11. good(r)
    BY <2>8, <2>9, <2>10
  <2>12. F[i + 1] = r
    BY <2>1, <2>3, <2>4, <2>10
  <2>13. QED
    BY <2>11, <2>12
<1>6. Nat \subseteq T
  <2> HIDE DEF T
  <2> QED BY <1>4, <1>5, SetInduction
<1>7. good(F[n])
  BY <1>1, <1>6
<1>8. QED
  BY <1>3, <1>7

-----------------------------------------------------------------------------
(* Traces.                                                                 *)

LEMMA EventFieldsSeq ==
    ASSUME NEW e, EventIsTyped(e)
    PROVE  IsSeq(EventFields(e))
<1>1. PICK a : a = <<e.event_id, e.sequence_index, e.kind>>
  OBVIOUS
<1>2. PICK b : b = e.source_item_id
  OBVIOUS
<1>3. PICK c : c = [k \in DOMAIN e.payload |-> e.payload[k].field]
  OBVIOUS
<1>4. IsSeq(a)
  <2>1. a \in Seq({e.event_id, e.sequence_index, e.kind})
    BY <1>1
  <2>2. QED
    BY <2>1, AnySeq
<1>5. IsSeq(b)
  BY <1>2 DEF EventIsTyped, IsSeq
<1>6. IsSeq(c)
  <2>1. IsSeq(e.payload)
    BY DEF EventIsTyped, IsSeq
  <2>2. Len(e.payload) \in Nat /\ DOMAIN e.payload = 1..Len(e.payload)
    BY <2>1, SeqFacts
  <2>3. c = [k \in 1..Len(e.payload) |-> c[k]]
    BY <1>3, <2>2
  <2>4. QED
    BY <2>2, <2>3, SeqOfFunction
<1>7. IsSeq(a \o b)
  BY <1>4, <1>5, SeqConcat
<1>8. IsSeq((a \o b) \o c)
  BY <1>6, <1>7, SeqConcat
<1>9. QED
  BY <1>1, <1>2, <1>3, <1>8 DEF EventFields

LEMMA AllFieldsParts ==
    ASSUME NEW t, TraceIsTyped(t)
    PROVE  \A k \in DOMAIN AllFields(t) :
              \/ AllFields(t)[k] = t.run_id
              \/ \E i \in DOMAIN t.events :
                    \E m \in DOMAIN EventFields(t.events[i]) : AllFields(t)[k] = EventFields(t.events[i])[m]
<1>1. PICK ss : ss = [i \in DOMAIN t.events |-> EventFields(t.events[i])]
  OBVIOUS
<1>2. IsSeq(t.events) /\ \A i \in DOMAIN t.events : EventIsTyped(t.events[i])
  BY DEF TraceIsTyped, IsSeq
<1>3. Len(t.events) \in Nat /\ DOMAIN t.events = 1..Len(t.events)
  BY <1>2, SeqFacts
<1>4. IsSeq(ss) /\ DOMAIN ss = DOMAIN t.events
  <2>1. ss = [i \in 1..Len(t.events) |-> ss[i]]
    BY <1>1, <1>3
  <2>2. QED
    BY <1>3, <2>1, SeqOfFunction
<1>5. \A i \in DOMAIN ss : ss[i] = EventFields(t.events[i]) /\ IsSeq(ss[i])
  BY <1>1, <1>2, EventFieldsSeq
<1>6. PICK r : r = Flatten(ss)
  OBVIOUS
<1>7. IsSeq(r) /\ \A k \in DOMAIN r : \E i \in DOMAIN ss : \E m \in DOMAIN ss[i] : r[k] = ss[i][m]
  BY <1>4, <1>5, <1>6, FlattenParts
<1>8. PICK first : first = <<t.run_id>>
  OBVIOUS
<1>9. IsSeq(first) /\ Len(first) = 1 /\ first[1] = t.run_id
  <2>1. first \in Seq({t.run_id})
    BY <1>8
  <2>2. QED
    BY <1>8, <2>1, AnySeq
<1>10. PICK all : all = first \o r
  OBVIOUS
<1>11. AllFields(t) = all
  BY <1>1, <1>6, <1>8, <1>10 DEF AllFields
<1>12. ASSUME NEW k \in DOMAIN all
       PROVE  all[k] = t.run_id \/ \E i \in DOMAIN ss : \E m \in DOMAIN ss[i] : all[k] = ss[i][m]
  <2>1. DOMAIN r = 1..Len(r)
    BY <1>7, SeqFacts
  <2>2. \/ k \in 1..Len(first) /\ all[k] = first[k]
        \/ k - Len(first) \in 1..Len(r) /\ all[k] = r[k - Len(first)]
    <3>1. /\ DOMAIN (first \o r) = 1..(Len(first) + Len(r))
          /\ \A j \in 1..(Len(first) + Len(r)) :
                \/ j \in 1..Len(first) /\ (first \o r)[j] = first[j]
                \/ j - Len(first) \in 1..Len(r) /\ (first \o r)[j] = r[j - Len(first)]
      BY <1>7, <1>9, SeqConcat, Zenon
    <3>2. QED
      BY <3>1, <1>10, Zenon
  <2>3. ASSUME k \in 1..Len(first), all[k] = first[k] PROVE all[k] = t.run_id
    BY <1>9, <2>3
  <2>4. PICK d : d = k - Len(first)
    OBVIOUS
  <2>5. ASSUME d \in 1..Len(r), all[k] = r[d]
        PROVE  \E i \in DOMAIN ss : \E m \in DOMAIN ss[i] : all[k] = ss[i][m]
    BY <1>7, <2>1, <2>5, Zenon
  <2>6. QED
    BY <2>2, <2>3, <2>4, <2>5
<1>13. QED
  BY <1>4, <1>5, <1>11, <1>12

(* A field that passes validation cites a byte range of a record.          *)
LEMMA FieldIsEvidenced ==
    ASSUME NEW f, FieldIsTyped(f), NEW raws, IsSeq(raws), NEW decl, ValidateRequiredField(f, raws, decl)
    PROVE  \E i \in DOMAIN f.evidence.inputs : f.evidence.inputs[i].record_index + 1 \in DOMAIN raws
<1>1. PICK inputs : inputs = f.evidence.inputs
  OBVIOUS
<1>2. inputs # <<>>
  BY <1>1 DEF FieldIsTyped, ValidateRequiredField
<1>3. IsSeq(inputs)
  BY <1>1 DEF FieldIsTyped, IsSeq
<1>4. 1 \in DOMAIN inputs
  <2>1. Len(inputs) > 0
    BY <1>2, <1>3, SeqTail
  <2>2. QED
    BY <1>3, <2>1, SeqFacts
<1>5. PICK l : l = inputs[1]
  OBVIOUS
<1>6. l.record_index \in Nat
  BY <1>1, <1>4, <1>5 DEF FieldIsTyped
<1>7. l.record_index < Len(raws)
  BY <1>1, <1>4, <1>5 DEF ValidateRequiredField, ValidateLocator
<1>8. l.record_index + 1 \in DOMAIN raws
  <2>1. Len(raws) \in Nat /\ DOMAIN raws = 1..Len(raws)
    BY SeqFacts
  <2>2. QED
    BY <1>6, <1>7, <2>1
<1>9. QED
  BY <1>1, <1>4, <1>5, <1>8

(* Each field of a valid trace is evidenced, and each event is bound to    *)
(* its raw record.                                                         *)
Evidenced(t, raws) ==
    \A k \in DOMAIN AllFields(t) :
        LET inputs == AllFields(t)[k].evidence.inputs
        IN \E i \in DOMAIN inputs : inputs[i].record_index + 1 \in DOMAIN raws

LEMMA ValidTrace ==
    ASSUME NEW t, TraceIsTyped(t), NEW raws, IsSeq(raws), NEW decl, ValidateTrace(t, raws, decl)
    PROVE  /\ Evidenced(t, raws)
           /\ DOMAIN raws = DOMAIN t.events
           /\ \A k \in DOMAIN raws : t.events[k].raw_record.digest = RawRecordDigest(raws[k])
<1>1. Len(t.events) = Len(raws)
  BY DEF ValidateTrace, ValidateResourceBudget
<1>2. IsSeq(t.events)
  BY DEF TraceIsTyped, IsSeq
<1>3. Len(raws) \in Nat /\ DOMAIN raws = 1..Len(raws) /\ DOMAIN t.events = 1..Len(t.events)
  BY <1>2, SeqFacts
<1>4. \A i \in DOMAIN t.events : EventIsTyped(t.events[i]) /\ ValidateEvent(t.events[i], i - 1, raws, decl)
  BY Zenon DEF TraceIsTyped, ValidateTrace
<1>5. ASSUME NEW k \in DOMAIN raws PROVE t.events[k].raw_record.digest = RawRecordDigest(raws[k])
  <2>1. k \in DOMAIN t.events /\ (k - 1) + 1 = k
    BY <1>1, <1>3
  <2>2. PICK j : j = k - 1
    OBVIOUS
  <2>3. ValidateEvent(t.events[k], j, raws, decl) /\ j + 1 = k
    BY <1>4, <2>1, <2>2
  <2>4. QED
    BY <2>3, Zenon DEF ValidateEvent
<1>6. Evidenced(t, raws)
  <2> DEFINE cites(f) == \E i \in DOMAIN f.evidence.inputs : f.evidence.inputs[i].record_index + 1 \in DOMAIN raws
  <2>1. cites(t.run_id)
    <3>1. FieldIsTyped(t.run_id) /\ ValidateRequiredField(t.run_id, raws, decl)
      BY Zenon DEF TraceIsTyped, ValidateTrace
    <3>2. QED
      BY <3>1, FieldIsEvidenced
  <2>2. ASSUME NEW i \in DOMAIN t.events, NEW m \in DOMAIN EventFields(t.events[i])
        PROVE  cites(EventFields(t.events[i])[m])
    <3>1. FieldIsTyped(EventFields(t.events[i])[m])
      BY <1>4, Zenon DEF EventIsTyped
    <3>2. ValidateRequiredField(EventFields(t.events[i])[m], raws, decl)
      BY <1>4, Zenon DEF ValidateEvent
    <3>3. QED
      BY <3>1, <3>2, FieldIsEvidenced
  <2>3. ASSUME NEW k \in DOMAIN AllFields(t) PROVE cites(AllFields(t)[k])
    <3> HIDE DEF cites
    <3> QED BY <2>1, <2>2, AllFieldsParts
  <2>4. QED
    BY <2>3 DEF Evidenced
<1>7. QED
  BY <1>1, <1>3, <1>5, <1>6

(* What the commands need to know of a candidate: it names the digest of   *)
(* its trace and the digest of each raw record.                            *)
LEMMA CandidateBinds ==
    ASSUME NEW t
    PROVE  /\ ReplayCandidate(t).trajectory_digest = TrajectoryDigest(t)
           /\ \A k \in DOMAIN t.events :
                 ReplayCandidate(t).records[k].raw_record_digest = t.events[k].raw_record.digest
           /\ Anchor(ReplayCandidate(t)).trajectory_digest = TrajectoryDigest(t)
<1>1. PICK head : head = CHOOSE g : g = [i \in 0..Len(t.events) |->
                            IF i = 0 THEN GenesisHead(t) ELSE ChainStep(g[i - 1], t.events[i])]
  OBVIOUS
<1>2. PICK records : records = [i \in DOMAIN t.events |->
         [sequence_index |-> t.events[i].sequence_index.value[1],
          event_id |-> t.events[i].event_id.value[1],
          raw_record_digest |-> t.events[i].raw_record.digest,
          canonical_event_digest |->
              FramedSha256("replay.canonical-event", CanonicalEventBytes(t.events[i])),
          previous_head |-> head[i - 1], resulting_head |-> head[i]]]
  OBVIOUS
<1>3. ReplayCandidate(t) =
        [schema |-> t.schema, adapter |-> t.adapter, policy |-> t.policy,
         raw_capture |-> t.raw_capture, trajectory_digest |-> TrajectoryDigest(t),
         record_count |-> Len(t.events), genesis_head |-> head[0], records |-> records,
         final_head |-> head[Len(t.events)]]
  BY <1>1, <1>2, Zenon DEF ReplayCandidate
<1>4. \A k \in DOMAIN t.events : records[k].raw_record_digest = t.events[k].raw_record.digest
  BY <1>2
<1>5. QED
  BY <1>3, <1>4 DEF Anchor

LEMMA DigestsBind ==
    ASSUME NEW s, NEW t, TrajectoryDigest(s) = TrajectoryDigest(t)
    PROVE  CanonicalBytes(s) = CanonicalBytes(t)
BY DEF TrajectoryDigest, FramedSha256

(* The canonical bytes determine a trace but for the length of its JSON.   *)
LEMMA CanonicalBytesBind ==
    ASSUME NEW s, NEW t, TraceIsTyped(s), TraceIsTyped(t), s.compact = t.compact,
           CanonicalBytes(s) = CanonicalBytes(t)
    PROVE  s = t
<1>1. /\ s.schema = t.schema /\ s.run_id = t.run_id /\ s.adapter = t.adapter /\ s.policy = t.policy
      /\ s.raw_capture = t.raw_capture /\ Len(s.events) = Len(t.events)
  BY DEF CanonicalBytes, CanonicalHeaderBytes
<1>2. PICK cs, ct : /\ cs = [i \in DOMAIN s.events |-> CanonicalEventBytes(s.events[i])]
                    /\ ct = [i \in DOMAIN t.events |-> CanonicalEventBytes(t.events[i])]
  OBVIOUS
<1>3. cs = ct
  BY <1>2 DEF CanonicalBytes
<1>4. /\ IsSeq(s.events) /\ \A i \in DOMAIN s.events : EventIsTyped(s.events[i])
      /\ IsSeq(t.events) /\ \A i \in DOMAIN t.events : EventIsTyped(t.events[i])
  BY Zenon DEF TraceIsTyped, IsSeq
<1>5. DOMAIN s.events = DOMAIN t.events
  BY <1>1, <1>4, SeqFacts
<1>6. ASSUME NEW i \in DOMAIN s.events PROVE s.events[i] = t.events[i]
  <2>1. PICK a, b : a = s.events[i] /\ b = t.events[i]
    OBVIOUS
  <2>2. CanonicalEventBytes(a) = CanonicalEventBytes(b)
    BY <1>2, <1>3, <1>5, <2>1, Zenon
  <2>3. /\ a.event_id = b.event_id /\ a.sequence_index = b.sequence_index /\ a.kind = b.kind
        /\ a.source_item_id = b.source_item_id /\ a.raw_record = b.raw_record /\ a.payload = b.payload
    BY <2>2 DEF CanonicalEventBytes
  <2>4. EventIsTyped(a) /\ EventIsTyped(b)
    BY <1>4, <1>5, <2>1
  <2>5. /\ a = [event_id |-> a.event_id, sequence_index |-> a.sequence_index, kind |-> a.kind,
                source_item_id |-> a.source_item_id, raw_record |-> a.raw_record, payload |-> a.payload]
        /\ b = [event_id |-> b.event_id, sequence_index |-> b.sequence_index, kind |-> b.kind,
                source_item_id |-> b.source_item_id, raw_record |-> b.raw_record, payload |-> b.payload]
    BY <2>4, Zenon DEF EventIsTyped
  <2>6. a = b
    BY <2>3, <2>5, Zenon
  <2>7. QED
    BY <2>1, <2>6
<1>7. s.events = t.events
  <2>1. PICK S : S = ToSet(s.events) \cup ToSet(t.events)
    OBVIOUS
  <2>2. s.events \in Seq(S) /\ t.events \in Seq(S)
    BY <2>1, <1>4, SeqMonotonic DEF IsSeq
  <2>3. \A i \in 1..Len(s.events) : s.events[i] = t.events[i]
    BY <1>4, <1>6, SeqFacts
  <2>4. QED
    BY <1>1, <2>2, <2>3, SeqEqual
<1>8. /\ s = [schema |-> s.schema, run_id |-> s.run_id, adapter |-> s.adapter, policy |-> s.policy,
              raw_capture |-> s.raw_capture, compact |-> s.compact, events |-> s.events]
      /\ t = [schema |-> t.schema, run_id |-> t.run_id, adapter |-> t.adapter, policy |-> t.policy,
              raw_capture |-> t.raw_capture, compact |-> t.compact, events |-> t.events]
  BY Zenon DEF TraceIsTyped
<1>9. QED
  BY <1>1, <1>7, <1>8, Zenon

(* The digest of a candidate stands for one of the known traces.           *)
LEMMA DigestStandsForOneTrace ==
    ASSUME NEW s \in KnownTraces, NEW t \in KnownTraces,
           ReplayCandidate(s).trajectory_digest = ReplayCandidate(t).trajectory_digest
    PROVE  s = t
<1>1. CanonicalBytes(s) = CanonicalBytes(t)
  BY CandidateBinds, DigestsBind
<1>2. TraceIsTyped(s) /\ TraceIsTyped(t) /\ s.compact = t.compact
  BY <1>1, FilesAssumption, Zenon
<1>3. QED
  BY <1>1, <1>2, CanonicalBytesBind

-----------------------------------------------------------------------------
(* What the commands compute from the files they hold.                     *)

LEMMA FoundIsKnown ==
    ASSUME NEW f \in Files, NEW c \in FoundAs(f)
    PROVE  c.value \in Known(c.shape)
<1>1. PICK wire, v : wire = c.shape /\ v = c.value
  OBVIOUS
<1>2. PICK S : S = {d \in FoundAs(f) : d.shape = wire}
  OBVIOUS
<1>3. c \in S
  BY <1>1, <1>2
<1>4. PICK V : V = {d.value : d \in S}
  OBVIOUS
<1>5. v \in V
  BY <1>1, <1>3, <1>4
<1>6. V \in {{d.value : d \in {e \in FoundAs(g) : e.shape = wire}} : g \in Files}
  BY <1>2, <1>4
<1>7. v \in Known(wire)
  BY <1>5, <1>6, Zenon DEF Known
<1>8. QED
  BY <1>1, <1>7

(* Only receipts are both found and written by the commands.               *)
LEMMA FoundContent ==
    ASSUME NEW c, ContentOK(c), c.shape \in {"trace", "raws", "trust"}
    PROVE  c.value \in Known(c.shape)
<1>1. ~Output(c)
  BY DEF Output
<1>2. PICK f \in Files : c \in FoundAs(f)
  BY <1>1 DEF ContentOK, Foreign
<1>3. QED
  BY <1>2, FoundIsKnown

LEMMA ReceiptContent ==
    ASSUME NEW c, ContentOK(c), c.shape = "receipt"
    PROVE  c.value \in Known("receipt") \/ \E i \in issued : c.value = i.receipt
<1>1. ASSUME Foreign(c) PROVE c.value \in Known("receipt")
  <2>1. PICK f \in Files : c \in FoundAs(f)
    BY <1>1 DEF Foreign
  <2>2. QED
    BY <2>1, FoundIsKnown
<1>2. QED
  BY <1>1 DEF ContentOK, Output

LEMMA SnapIsHeld ==
    ASSUME CommandInv, NEW k \in DOMAIN cmd.snaps
    PROVE  ContentOK(Snap(cmd.snaps[k].file))
<1>1. PICK f : f = cmd.snaps[k].file
  OBVIOUS
<1>2. PICK i : i = CHOOSE j \in DOMAIN cmd.snaps : cmd.snaps[j].file = f
  OBVIOUS
<1>3. i \in DOMAIN cmd.snaps
  BY <1>1, <1>2, Zenon
<1>4. Snap(f) = cmd.snaps[i].content
  BY <1>2, Zenon DEF Snap
<1>5. QED
  BY <1>1, <1>3, <1>4, Zenon DEF CommandInv, SnapOK

(* The files that are held when the inputs have been read.                 *)
LEMMA HeldInputs ==
    ASSUME CommandInv, HoldsAll
    PROVE  /\ ContentOK(Snap("trace")) /\ ContentOK(Snap("raw")) /\ ContentOK(Snap("context"))
           /\ cmd.op = "verify" => /\ ContentOK(Snap("replay")) /\ ContentOK(Snap("receipt"))
                                   /\ ContentOK(Snap("trust"))
<1>1. PlanInv /\ IsSeq(cmd.snaps) /\ cmd.todo = <<>>
  BY DEF CommandInv, HoldsAll
<1>2. /\ cmd.op \in {"canonicalize", "build", "issue", "verify"}
      /\ \/ Len(cmd.snaps) + Len(cmd.todo) = Len(Inputs[cmd.op])
         \/ cmd.op = "issue" /\ Len(cmd.snaps) + Len(cmd.todo) = 3
      /\ \A i \in 1..Len(cmd.snaps) : cmd.snaps[i].file = Inputs[cmd.op][i]
  <2>1. DOMAIN Inputs = {"canonicalize", "build", "issue", "verify"}
    BY DEF Inputs
  <2>2. QED
    BY <1>1, <2>1 DEF PlanInv, Plan
<1>3. Len(cmd.todo) = 0 /\ Len(cmd.snaps) \in Nat /\ DOMAIN cmd.snaps = 1..Len(cmd.snaps)
  BY <1>1, SeqFacts, SeqEmpty
<1>4. /\ Inputs["canonicalize"] = <<"trace", "raw", "context">>
      /\ Inputs["build"] = <<"trace", "raw", "context">>
      /\ Inputs["issue"] = <<"trace", "raw", "context", "key">>
      /\ Inputs["verify"] = <<"trace", "raw", "context", "replay", "receipt", "trust">>
  BY DEF Inputs
<1>5. {1, 2, 3} \subseteq DOMAIN cmd.snaps /\ (cmd.op = "verify" => {4, 5, 6} \subseteq DOMAIN cmd.snaps)
  <2>1. \/ Len(cmd.snaps) + 0 = Len(Inputs[cmd.op])
        \/ cmd.op = "issue" /\ Len(cmd.snaps) + 0 = 3
    BY <1>2, <1>3, Zenon
  <2>2. /\ Len(Inputs["canonicalize"]) = 3 /\ Len(Inputs["build"]) = 3
        /\ Len(Inputs["issue"]) = 4 /\ Len(Inputs["verify"]) = 6
    BY <1>4
  <2>3. PICK n, op : n = Len(cmd.snaps) /\ op = cmd.op
    OBVIOUS
  <2>4. n \in Nat /\ op \in {"canonicalize", "build", "issue", "verify"}
    BY <1>2, <1>3, <2>3, Zenon
  <2>5. n + 0 = Len(Inputs[op]) \/ (op = "issue" /\ n + 0 = 3)
    BY <2>1, <2>3, Zenon
  <2>6. n >= 3 /\ (op = "verify" => n = 6)
    <3>1. CASE op = "canonicalize"
      BY <3>1, <2>2, <2>4, <2>5
    <3>2. CASE op = "build"
      BY <3>2, <2>2, <2>4, <2>5
    <3>3. CASE op = "issue"
      BY <3>3, <2>2, <2>4, <2>5
    <3>4. CASE op = "verify"
      BY <3>4, <2>2, <2>4, <2>5
    <3>5. QED
      BY <2>4, <3>1, <3>2, <3>3, <3>4
  <2>7. {1, 2, 3} \subseteq 1..n /\ (op = "verify" => {4, 5, 6} \subseteq 1..n)
    BY <2>4, <2>6
  <2>8. QED
    BY <1>3, <2>3, <2>7, Zenon
<1>6. /\ cmd.snaps[1].file = "trace" /\ cmd.snaps[2].file = "raw" /\ cmd.snaps[3].file = "context"
      /\ cmd.op = "verify" => /\ cmd.snaps[4].file = "replay" /\ cmd.snaps[5].file = "receipt"
                              /\ cmd.snaps[6].file = "trust"
  <2>1. \A i \in DOMAIN cmd.snaps : cmd.snaps[i].file = Inputs[cmd.op][i]
    BY <1>2, <1>3
  <2>2. PICK op : op = cmd.op
    OBVIOUS
  <2>3. Inputs[op][1] = "trace" /\ Inputs[op][2] = "raw" /\ Inputs[op][3] = "context"
    <3>1. op \in {"canonicalize", "build", "issue", "verify"}
      BY <1>2, <2>2
    <3>2. QED
      BY <3>1, <1>4
  <2>4. op = "verify" => Inputs[op][4] = "replay" /\ Inputs[op][5] = "receipt" /\ Inputs[op][6] = "trust"
    BY <1>4
  <2>5. QED
    BY <1>5, <2>1, <2>2, <2>3, <2>4
<1>7. \A k \in DOMAIN cmd.snaps : ContentOK(Snap(cmd.snaps[k].file))
  BY SnapIsHeld
<1>8. ContentOK(Snap("trace")) /\ ContentOK(Snap("raw")) /\ ContentOK(Snap("context"))
  <2>1. 1 \in DOMAIN cmd.snaps /\ 2 \in DOMAIN cmd.snaps /\ 3 \in DOMAIN cmd.snaps
    BY <1>5
  <2>2. QED
    BY <1>6, <1>7, <2>1, Zenon
<1>9. ASSUME cmd.op = "verify"
      PROVE  ContentOK(Snap("replay")) /\ ContentOK(Snap("receipt")) /\ ContentOK(Snap("trust"))
  <2>1. 4 \in DOMAIN cmd.snaps /\ 5 \in DOMAIN cmd.snaps /\ 6 \in DOMAIN cmd.snaps
    BY <1>5, <1>9
  <2>2. QED
    BY <1>6, <1>7, <1>9, <2>1, Zenon
<1>10. QED
  BY <1>8, <1>9

LEMMA CodesKnown ==
    ReaderCodes \subseteq Codes /\ AdapterErrorCodes \subseteq Codes
      /\ {"none", "ok", "validation", "authority-receipt-rejected", "authority-signing-key",
          "replay-candidate-mismatch", "authority-receipt-binding-mismatch"} \subseteq Codes
BY DEF ReaderCodes, PreflightCodes, Codes, ReplayErrorCodes, ReplayAuthorityErrorCodes

(* What with_validated hands on.                                           *)
Validated(v) ==
    /\ v.trace \in Known("trace") /\ TraceIsTyped(v.trace)
    /\ IsSeq(v.raws) /\ ValidateTrace(v.trace, v.raws, v.context)

LEMMA ValidatedFacts ==
    ASSUME CommandInv, HoldsAll
    PROVE  /\ WithValidated.code \in Codes
           /\ WithValidated.code = "ok" => Validated(WithValidated.value)
<1>1. PICK trace : trace = ReadTrace(Snap("trace"))
  OBVIOUS
<1>2. PICK raws : raws = ReadRawRecordSet(Snap("raw"))
  OBVIOUS
<1>3. PICK context : context = ReadDeclaredContext(Snap("context"))
  OBVIOUS
<1>4. PICK good : good = [trace |-> trace.value, raws |-> raws.value, context |-> context.value]
  OBVIOUS
<1>5. \/ WithValidated = trace /\ trace.code # "ok"
      \/ WithValidated = raws /\ raws.code # "ok"
      \/ WithValidated = context /\ context.code # "ok"
      \/ /\ WithValidated = Good(good) /\ trace.code = "ok" /\ raws.code = "ok"
         /\ ValidateTrace(trace.value, raws.value, context.value)
      \/ WithValidated = Bad("validation")
  BY <1>1, <1>2, <1>3, <1>4, Zenon DEF WithValidated, With
<1>6. trace.code \in Codes /\ raws.code \in Codes /\ context.code \in Codes
  <2>1. trace.code \in {"ok", "validation"}
    BY <1>1, TraceReader
  <2>2. raws.code \in ReaderCodes
    BY <1>2, RawReader DEF Reads
  <2>3. context.code \in ReaderCodes
    BY <1>3, ContextReader DEF Reads
  <2>4. QED
    BY <2>1, <2>2, <2>3, CodesKnown
<1>7. ASSUME WithValidated = Good(good), trace.code = "ok", raws.code = "ok",
             ValidateTrace(trace.value, raws.value, context.value)
      PROVE  WithValidated.code = "ok" /\ Validated(WithValidated.value)
  <2>1. ContentOK(Snap("trace")) /\ ContentOK(Snap("raw"))
    BY HeldInputs
  <2>2. Snap("trace").shape = "trace" /\ trace.value = Snap("trace").value
    BY <1>1, <1>7, TraceReader
  <2>3. Snap("raw").shape = "raws" /\ raws.value = Snap("raw").value
    BY <1>2, <1>7, RawReader DEF Reads
  <2>4. trace.value \in Known("trace")
    <3>1. PICK c : c = Snap("trace")
      OBVIOUS
    <3>2. QED
      BY <2>1, <2>2, <3>1, FoundContent
  <2>5. raws.value \in Known("raws")
    <3>1. PICK c : c = Snap("raw")
      OBVIOUS
    <3>2. QED
      BY <2>1, <2>3, <3>1, FoundContent
  <2>6. TraceIsTyped(trace.value) /\ IsSeq(raws.value)
    BY <2>4, <2>5, FilesAssumption, Zenon DEF KnownTraces, IsSeq
  <2>7. WithValidated.code = "ok" /\ WithValidated.value = good
    BY <1>7 DEF Good
  <2>8. good.trace = trace.value /\ good.raws = raws.value /\ good.context = context.value
    BY <1>4
  <2>9. QED
    BY <1>7, <2>4, <2>6, <2>7, <2>8, Zenon DEF Validated
<1>8. Bad("validation").code = "validation"
  BY DEF Bad
<1>9. QED
  BY <1>5, <1>6, <1>7, <1>8, CodesKnown

(* What verify publishes is what the properties ask for.                   *)
Recomputed(w) ==
    /\ w.verified.replay = ReplayCandidate(w.trace)
    /\ \A k \in DOMAIN w.raws : w.verified.replay.records[k].raw_record_digest = RawRecordDigest(w.raws[k])
WasIssued(w) ==
    \E i \in issued : /\ w.policy.verification_key = i.receipt.signature[1]
                      /\ i.receipt.authority_epoch = w.policy.accepted_authority_epoch
                      /\ CanonicalBytes(i.trace) = CanonicalBytes(w.trace)
Genuine(w) == Recomputed(w) /\ Evidenced(w.trace, w.raws) /\ WasIssued(w)

(* A receipt that is trusted and bound to a validated trace was issued.    *)
LEMMA TrustedWasIssued ==
    ASSUME HistoryInv,
           NEW r, r \in Known("receipt") \/ \E i \in issued : r = i.receipt,
           NEW p \in Known("trust"), ReceiptIsTrusted(r, p),
           NEW t \in Known("trace"), r.anchor = Anchor(ReplayCandidate(t))
    PROVE  \E i \in issued : /\ p.verification_key = i.receipt.signature[1]
                             /\ i.receipt.authority_epoch = p.accepted_authority_epoch
                             /\ CanonicalBytes(i.trace) = CanonicalBytes(t)
<1>1. /\ r.signature = Sign(p.verification_key, SignatureMessage(r))
      /\ r.authority_epoch = p.accepted_authority_epoch
  BY DEF ReceiptIsTrusted
<1>2. \E i \in issued : i.receipt = r
  <2>1. ASSUME r \in Known("receipt") PROVE \E i \in EarlierReceipts : i.receipt = r
    BY <2>1, <1>1, AuthorityAssumption, Zenon
  <2>2. EarlierReceipts \subseteq issued
    BY DEF HistoryInv
  <2>3. ASSUME NEW i \in issued, r = i.receipt PROVE \E j \in issued : j.receipt = r
    BY <2>3
  <2>4. QED
    BY <2>1, <2>2, <2>3
<1>3. PICK i \in issued : i.receipt = r
  BY <1>2
<1>4. i.receipt.anchor = Anchor(ReplayCandidate(i.trace))
  BY DEF HistoryInv
<1>5. Anchor(ReplayCandidate(i.trace)) = Anchor(ReplayCandidate(t))
  BY <1>3, <1>4, Zenon
<1>6. TrajectoryDigest(i.trace) = TrajectoryDigest(t)
  <2>1. PICK a, b : a = Anchor(ReplayCandidate(i.trace)) /\ b = Anchor(ReplayCandidate(t))
    OBVIOUS
  <2>2. a.trajectory_digest = TrajectoryDigest(i.trace) /\ b.trajectory_digest = TrajectoryDigest(t)
    BY <2>1, CandidateBinds
  <2>3. QED
    BY <2>1, <2>2, <1>5, Zenon
<1>7. CanonicalBytes(i.trace) = CanonicalBytes(t)
  BY <1>6, DigestsBind
<1>8. r.signature[1] = p.verification_key
  BY <1>1 DEF Sign
<1>9. QED
  BY <1>1, <1>3, <1>7, <1>8

LEMMA VerifyFacts ==
    ASSUME CommandInv, HistoryInv, HoldsAll, cmd.op = "verify"
    PROVE  /\ VerifyWork.code \in Codes
           /\ VerifyWork.code = "ok" => Genuine(VerifyWork.value)
<1>1. PICK v : v = WithValidated
  OBVIOUS
<1>2. PICK inspected : inspected = ReadCandidate(Snap("replay"))
  OBVIOUS
<1>3. PICK receipt : receipt = ReadReceipt(Snap("receipt"))
  OBVIOUS
<1>4. PICK policy : policy = ReadTrustPolicy(Snap("trust"))
  OBVIOUS
<1>5. PICK replay : replay = VerifyReplay(v.value.trace, inspected.value, receipt.value)
  OBVIOUS
<1>6. PICK w : w = [trace |-> v.value.trace, raws |-> v.value.raws, context |-> v.value.context,
                    verified |-> replay.value, policy |-> policy.value]
  OBVIOUS
<1>7. \/ VerifyWork = v /\ v.code # "ok"
      \/ VerifyWork = inspected /\ inspected.code # "ok"
      \/ VerifyWork = receipt /\ receipt.code # "ok"
      \/ VerifyWork = policy /\ policy.code # "ok"
      \/ VerifyWork = Bad("authority-receipt-rejected")
      \/ VerifyWork = replay /\ replay.code # "ok"
      \/ /\ VerifyWork = Good(w) /\ v.code = "ok" /\ receipt.code = "ok" /\ policy.code = "ok"
         /\ ReceiptIsTrusted(receipt.value, policy.value) /\ replay.code = "ok"
  BY <1>1, <1>2, <1>3, <1>4, <1>5, <1>6, Zenon DEF VerifyWork, With
<1>8. v.code \in Codes /\ (v.code = "ok" => Validated(v.value))
  BY <1>1, ValidatedFacts
<1>9. inspected.code \in Codes /\ receipt.code \in Codes /\ policy.code \in Codes
  <2>1. inspected.code \in ReaderCodes
    BY <1>2, CandidateReader DEF Reads
  <2>2. receipt.code \in ReaderCodes
    BY <1>3, ReceiptReader DEF Reads
  <2>3. policy.code \in ReaderCodes
    BY <1>4, TrustReader DEF Reads
  <2>4. QED
    BY <2>1, <2>2, <2>3, CodesKnown
<1>10. PICK rc : rc = ReplayCandidate(v.value.trace)
  OBVIOUS
<1>11. /\ replay.code \in {"ok", "replay-candidate-mismatch", "authority-receipt-binding-mismatch"}
       /\ replay.code = "ok" => /\ receipt.value.anchor = Anchor(rc)
                                /\ replay.value.replay = rc
  <2>1. \/ replay = Bad("replay-candidate-mismatch")
        \/ replay = Bad("authority-receipt-binding-mismatch")
        \/ /\ receipt.value.anchor = Anchor(rc)
           /\ replay = Good([replay |-> rc, authority_receipt |-> receipt.value])
    BY <1>5, <1>10, Zenon DEF VerifyReplay
  <2>2. QED
    BY <2>1 DEF Good, Bad
<1>12. ASSUME VerifyWork = Good(w), v.code = "ok", receipt.code = "ok", policy.code = "ok",
              ReceiptIsTrusted(receipt.value, policy.value), replay.code = "ok"
       PROVE  VerifyWork.code = "ok" /\ Genuine(VerifyWork.value)
  <2>1. VerifyWork.code = "ok" /\ VerifyWork.value = w
    BY <1>12 DEF Good
  <2>2. PICK t, raws, decl : t = v.value.trace /\ raws = v.value.raws /\ decl = v.value.context
    OBVIOUS
  <2>3. /\ t \in Known("trace") /\ TraceIsTyped(t)
        /\ IsSeq(raws) /\ ValidateTrace(t, raws, decl)
    BY <1>8, <1>12, <2>2, Zenon DEF Validated
  <2>4. w.trace = t /\ w.raws = raws /\ w.verified = replay.value /\ w.policy = policy.value
    BY <1>6, <2>2
  <2>5. /\ Evidenced(t, raws) /\ DOMAIN raws = DOMAIN t.events
        /\ \A k \in DOMAIN raws : t.events[k].raw_record.digest = RawRecordDigest(raws[k])
    BY <2>3, ValidTrace
  <2>6. \A k \in DOMAIN t.events : rc.records[k].raw_record_digest = t.events[k].raw_record.digest
    BY <1>10, <2>2, CandidateBinds
  <2>7. w.verified.replay = rc /\ rc = ReplayCandidate(t)
    BY <1>10, <1>11, <1>12, <2>2, <2>4
  <2>8. Recomputed(w)
    <3>1. \A k \in DOMAIN raws : rc.records[k].raw_record_digest = RawRecordDigest(raws[k])
      BY <2>5, <2>6, Zenon
    <3>2. QED
      BY <3>1, <2>4, <2>7, Zenon DEF Recomputed
  <2>9. WasIssued(w)
    <3>1. PICK r, p : r = receipt.value /\ p = policy.value
      OBVIOUS
    <3>2. p \in Known("trust")
      <4>1. PICK c : c = Snap("trust")
        OBVIOUS
      <4>2. ContentOK(c) /\ c.shape = "trust" /\ p = c.value
        BY <4>1, <3>1, <1>4, <1>12, HeldInputs, TrustReader DEF Reads
      <4>3. QED
        BY <4>2, FoundContent
    <3>3. r \in Known("receipt") \/ \E i \in issued : r = i.receipt
      <4>1. PICK c : c = Snap("receipt")
        OBVIOUS
      <4>2. ContentOK(c) /\ c.shape = "receipt" /\ r = c.value
        BY <4>1, <3>1, <1>3, <1>12, HeldInputs, ReceiptReader DEF Reads
      <4>3. QED
        BY <4>2, ReceiptContent
    <3>4. r.anchor = Anchor(ReplayCandidate(t)) /\ ReceiptIsTrusted(r, p)
      BY <3>1, <1>10, <1>11, <1>12, <2>2, Zenon
    <3>5. \E i \in issued : /\ p.verification_key = i.receipt.signature[1]
                            /\ i.receipt.authority_epoch = p.accepted_authority_epoch
                            /\ CanonicalBytes(i.trace) = CanonicalBytes(t)
      BY <2>3, <3>2, <3>3, <3>4, TrustedWasIssued
    <3>6. QED
      BY <2>4, <3>1, <3>5, Zenon DEF WasIssued
  <2>10. QED
    BY <2>1, <2>4, <2>5, <2>8, <2>9, Zenon DEF Genuine
<1>13. Bad("authority-receipt-rejected").code = "authority-receipt-rejected"
  BY DEF Bad
<1>14. QED
  BY <1>7, <1>8, <1>9, <1>11, <1>12, <1>13, CodesKnown

-----------------------------------------------------------------------------
(* The files.                                                              *)

LEMMA ContentStays ==
    ASSUME NEW c, ContentOK(c), issued \subseteq issued'
    PROVE  ContentOK(c)'
<1>1. CASE Foreign(c)
  <2>1. Foreign(c)'
    BY <1>1 DEF Foreign
  <2>2. QED
    BY <2>1 DEF ContentOK
<1>2. CASE Output(c)
  <2>1. Output(c)'
    BY <1>2 DEF Output
  <2>2. QED
    BY <2>1 DEF ContentOK
<1>3. QED
  BY <1>1, <1>2 DEF ContentOK

LEMMA InodeStays ==
    ASSUME NEW n, InodeOK(n), issued \subseteq issued'
    PROVE  InodeOK(n)'
BY ContentStays DEF InodeOK

LEMMA FilesStay ==
    ASSUME FilesInv, UNCHANGED <<names, inodes>>, issued \subseteq issued'
    PROVE  FilesInv'
<1>1. \A i \in DOMAIN inodes : InodeOK(inodes[i])'
  <2> TAKE i \in DOMAIN inodes
  <2>1. PICK n : n = inodes[i]
    OBVIOUS
  <2>2. InodeOK(n)'
    BY <2>1, InodeStays DEF FilesInv
  <2>3. QED
    BY <2>1, <2>2
<1>2. IsSeq(inodes)' /\ names' \in [Files -> {Symlink, Absent} \cup DOMAIN inodes']
  BY DEF FilesInv
<1>3. QED
  BY <1>1, <1>2 DEF FilesInv

(* What a step does to the inodes: none goes away, and one that is not     *)
(* stamped anew keeps its content.                                         *)
StampsMove ==
    \A i \in DOMAIN inodes :
        /\ i \in DOMAIN inodes' /\ inodes'[i].stamp \in Nat
        /\ inodes[i].stamp <= inodes'[i].stamp
        /\ inodes'[i].stamp = inodes[i].stamp => inodes'[i].content = inodes[i].content

LEMMA StampsStay ==
    ASSUME FilesInv, inodes' = inodes
    PROVE  StampsMove
<1>1. \A i \in DOMAIN inodes : inodes[i].stamp \in Nat
  BY DEF FilesInv, InodeOK
<1>2. QED
  BY <1>1 DEF StampsMove

(* A new inode at the end.                                                 *)
LEMMA InodeAdded ==
    ASSUME FilesInv, issued \subseteq issued', NEW base, NEW n, InodeOK(n)', NEW f \in Files,
           IsSeq(base), Len(base) = Len(inodes), \A i \in DOMAIN base : InodeOK(base[i])',
           inodes' = Append(base, n), names' = [names EXCEPT ![f] = Len(inodes) + 1]
    PROVE  FilesInv'
<1>1. /\ IsSeq(inodes') /\ DOMAIN inodes' = 1..(Len(base) + 1)
      /\ \A i \in 1..Len(base) : inodes'[i] = base[i]
      /\ inodes'[Len(base) + 1] = n
  BY SeqAppend
<1>2. Len(base) \in Nat /\ DOMAIN base = 1..Len(base) /\ DOMAIN inodes = 1..Len(inodes)
  BY SeqFacts DEF FilesInv
<1>3. \A i \in DOMAIN inodes' : InodeOK(inodes[i])'
  <2> TAKE i \in DOMAIN inodes'
  <2>1. PICK m : m = inodes'[i]
    OBVIOUS
  <2>2. InodeOK(m)'
    <3>1. CASE i \in 1..Len(base)
      BY <2>1, <3>1, <1>1, <1>2
    <3>2. CASE i = Len(base) + 1
      BY <2>1, <3>2, <1>1
    <3>3. QED
      BY <1>1, <1>2, <3>1, <3>2
  <2>3. QED
    BY <2>1, <2>2
<1>4. names' \in [Files -> {Symlink, Absent} \cup DOMAIN inodes']
  <2>1. names \in [Files -> {Symlink, Absent} \cup DOMAIN inodes]
    BY DEF FilesInv
  <2>2. DOMAIN inodes \subseteq DOMAIN inodes' /\ Len(inodes) + 1 \in DOMAIN inodes'
    BY <1>1, <1>2
  <2>3. QED
    BY <2>1, <2>2
<1>5. QED
  BY <1>1, <1>3, <1>4 DEF FilesInv

LEMMA NewInodeOK ==
    ASSUME NEW c, NEW private, ContentOK(c)
    PROVE  InodeOK([content |-> c, stamp |-> 0, private |-> private])
BY DEF InodeOK

(* What others make of the inodes that are there.                          *)
Moved(base) ==
    /\ IsSeq(base) /\ Len(base) = Len(inodes) /\ DOMAIN base = DOMAIN inodes
    /\ \A i \in DOMAIN inodes :
          /\ InodeOK(base[i]) /\ inodes[i].stamp <= base[i].stamp
          /\ base[i].stamp = inodes[i].stamp => base[i].content = inodes[i].content

LEMMA MovedNot ==
    ASSUME FilesInv
    PROVE  Moved(inodes)
<1>1. \A i \in DOMAIN inodes : InodeOK(inodes[i]) /\ inodes[i].stamp <= inodes[i].stamp
  BY DEF FilesInv, InodeOK
<1>2. QED
  BY <1>1 DEF Moved, FilesInv

LEMMA MovedOne ==
    ASSUME FilesInv, NEW ino \in DOMAIN inodes, NEW n, InodeOK(n), inodes[ino].stamp < n.stamp
    PROVE  Moved([inodes EXCEPT ![ino] = n])
<1>1. PICK base : base = [inodes EXCEPT ![ino] = n]
  OBVIOUS
<1>2. /\ IsSeq(base) /\ Len(base) = Len(inodes) /\ DOMAIN base = DOMAIN inodes
      /\ base[ino] = n /\ \A i \in DOMAIN inodes : i # ino => base[i] = inodes[i]
  BY <1>1, SeqExcept DEF FilesInv
<1>3. \A i \in DOMAIN inodes : InodeOK(inodes[i]) /\ inodes[i].stamp \in Nat
  BY DEF FilesInv, InodeOK
<1>4. ASSUME NEW i \in DOMAIN inodes
      PROVE  /\ InodeOK(base[i]) /\ inodes[i].stamp <= base[i].stamp
             /\ base[i].stamp = inodes[i].stamp => base[i].content = inodes[i].content
  <2>1. CASE i = ino
    <3>1. n.stamp \in Nat
      BY DEF InodeOK
    <3>2. base[i] = n /\ inodes[i].stamp \in Nat /\ inodes[i].stamp < n.stamp
      BY <2>1, <1>2, <1>3
    <3>3. QED
      BY <3>1, <3>2
  <2>2. CASE i # ino
    <3>1. base[i] = inodes[i] /\ InodeOK(inodes[i]) /\ inodes[i].stamp \in Nat
      BY <2>2, <1>2, <1>3
    <3>2. QED
      BY <3>1
  <2>3. QED
    BY <2>1, <2>2
<1>5. Moved(base)
  BY <1>2, <1>4, Zenon DEF Moved
<1>6. QED
  BY <1>1, <1>5

LEMMA TouchedMoves ==
    ASSUME FilesInv, NEW ino \in DOMAIN inodes
    PROVE  Moved(Touched(ino))
<1>1. PICK n : n = [inodes[ino] EXCEPT !.stamp = inodes[ino].stamp + 1]
  OBVIOUS
<1>2. PICK m : m = inodes[ino]
  OBVIOUS
<1>3. m = [content |-> m.content, stamp |-> m.stamp, private |-> m.private] /\ m.stamp \in Nat
      /\ ContentOK(m.content)
  BY <1>2 DEF FilesInv, InodeOK
<1>4. n = [content |-> m.content, stamp |-> m.stamp + 1, private |-> m.private]
  BY <1>1, <1>2, <1>3
<1>5. InodeOK(n) /\ m.stamp < n.stamp
  BY <1>3, <1>4 DEF InodeOK
<1>6. Touched(ino) = [inodes EXCEPT ![ino] = n]
  BY <1>1 DEF Touched
<1>7. QED
  BY <1>2, <1>5, <1>6, MovedOne

LEMMA MovedFiles ==
    ASSUME FilesInv, issued' = issued, NEW base, Moved(base), inodes' = base,
           names' \in [Files -> {Symlink, Absent} \cup DOMAIN inodes]
    PROVE  FilesInv' /\ StampsMove
<1>1. IsSeq(inodes') /\ DOMAIN inodes' = DOMAIN inodes
  BY DEF Moved
<1>2. \A i \in DOMAIN inodes' : InodeOK(inodes[i])'
  <2> TAKE i \in DOMAIN inodes'
  <2>1. PICK n : n = base[i]
    OBVIOUS
  <2>2. InodeOK(n)
    BY <1>1, <2>1 DEF Moved
  <2>3. InodeOK(n)'
    BY <2>2, InodeStays
  <2>4. QED
    BY <2>1, <2>3
<1>3. FilesInv'
  BY <1>1, <1>2 DEF FilesInv
<1>4. StampsMove
  BY <1>1 DEF Moved, InodeOK, StampsMove
<1>5. QED
  BY <1>3, <1>4

LEMMA MovedAndAdded ==
    ASSUME FilesInv, issued' = issued, NEW base, Moved(base), NEW n, InodeOK(n), NEW f \in Files,
           inodes' = Append(base, n), names' = [names EXCEPT ![f] = Len(inodes) + 1]
    PROVE  FilesInv' /\ StampsMove
<1>1. IsSeq(base) /\ Len(base) = Len(inodes) /\ DOMAIN base = DOMAIN inodes
  BY DEF Moved
<1>2. InodeOK(n)' /\ \A i \in DOMAIN base : InodeOK(base[i])'
  <2>1. InodeOK(n)'
    BY InodeStays
  <2>2. ASSUME NEW i \in DOMAIN base PROVE InodeOK(base[i])'
    <3>1. PICK m : m = base[i]
      OBVIOUS
    <3>2. InodeOK(m)'
      BY <3>1, <1>1, InodeStays DEF Moved
    <3>3. QED
      BY <3>1, <3>2
  <2>3. QED
    BY <2>1, <2>2
<1>3. FilesInv'
  BY <1>1, <1>2, InodeAdded
<1>4. StampsMove
  <2>1. /\ DOMAIN Append(base, n) = 1..(Len(base) + 1)
        /\ \A i \in 1..Len(base) : Append(base, n)[i] = base[i]
    BY <1>1, SeqAppend
  <2>2. Len(base) \in Nat /\ DOMAIN base = 1..Len(base)
    BY <1>1, SeqFacts
  <2>3. \A i \in DOMAIN inodes : i \in DOMAIN inodes' /\ inodes'[i] = base[i]
    BY <1>1, <2>1, <2>2
  <2>4. \A i \in DOMAIN inodes :
          /\ base[i].stamp \in Nat /\ inodes[i].stamp <= base[i].stamp
          /\ base[i].stamp = inodes[i].stamp => base[i].content = inodes[i].content
    BY DEF Moved, InodeOK
  <2>5. QED
    BY <2>3, <2>4, Zenon DEF StampsMove
<1>5. QED
  BY <1>3, <1>4

LEMMA NamesArePositive ==
    ASSUME FilesInv, NEW f \in Files, names[f] > 0
    PROVE  names[f] \in DOMAIN inodes
<1>1. names[f] \in {Symlink, Absent} \cup DOMAIN inodes
  BY DEF FilesInv
<1>2. QED
  BY <1>1 DEF Symlink, Absent

LEMMA FoundIsOK ==
    ASSUME NEW f \in Files, NEW c \in Contents[f]
    PROVE  ContentOK(c)
<1>1. c \in FoundAs(f)
  BY DEF FoundAs
<1>2. QED
  BY <1>1 DEF ContentOK, Foreign

LEMMA OthersKeepFiles ==
    ASSUME FilesInv, issued' = issued, Others
    PROVE  FilesInv' /\ StampsMove
<1>1. names \in [Files -> {Symlink, Absent} \cup DOMAIN inodes]
  BY DEF FilesInv
<1>2. ASSUME NEW f \in Files, NEW c \in Contents[f], WriteInPlace(f, c) PROVE FilesInv' /\ StampsMove
  <2>1. names[f] \in DOMAIN inodes
    BY <1>2, NamesArePositive DEF WriteInPlace
  <2>2. PICK ino, m : ino = names[f] /\ m = inodes[ino]
    OBVIOUS
  <2>3. m = [content |-> m.content, stamp |-> m.stamp, private |-> m.private] /\ m.stamp \in Nat
    BY <2>1, <2>2 DEF FilesInv, InodeOK
  <2>4. PICK n : n = [content |-> c, stamp |-> m.stamp + 1, private |-> m.private]
    OBVIOUS
  <2>5. InodeOK(n) /\ inodes[ino].stamp < n.stamp
    BY <2>2, <2>3, <2>4, FoundIsOK DEF InodeOK
  <2>6. inodes' = [inodes EXCEPT ![ino] = n] /\ names' = names
    BY <1>2, <2>2, <2>4 DEF WriteInPlace
  <2>7. Moved([inodes EXCEPT ![ino] = n])
    BY <2>1, <2>2, <2>5, MovedOne
  <2>8. QED
    BY <1>1, <2>6, <2>7, MovedFiles
<1>3. ASSUME NEW f \in Files, NEW c \in Contents[f], Replace(f, c) PROVE FilesInv' /\ StampsMove
  <2>1. PICK n : n = [content |-> c, stamp |-> 0, private |-> FALSE]
    OBVIOUS
  <2>2. InodeOK(n)
    BY <2>1, FoundIsOK, NewInodeOK
  <2>3. names' = [names EXCEPT ![f] = Len(inodes) + 1]
    BY <1>3 DEF Replace
  <2>4. CASE names[f] > 0
    <3>1. inodes' = Append(Touched(names[f]), n)
      BY <1>3, <2>1, <2>4 DEF Replace
    <3>2. Moved(Touched(names[f]))
      BY <2>4, NamesArePositive, TouchedMoves
    <3>3. QED
      BY <2>2, <2>3, <3>1, <3>2, MovedAndAdded
  <2>5. CASE ~(names[f] > 0)
    <3>1. inodes' = Append(inodes, n)
      BY <1>3, <2>1, <2>5 DEF Replace, NewInode
    <3>2. QED
      BY <2>2, <2>3, <3>1, MovedNot, MovedAndAdded
  <2>6. QED
    BY <2>4, <2>5
<1>4. ASSUME NEW f \in Files, NEW g \in Files, HardLink(f, g) PROVE FilesInv' /\ StampsMove
  <2>1. names[g] \in DOMAIN inodes
    BY <1>4, NamesArePositive DEF HardLink
  <2>2. inodes' = Touched(names[g]) /\ names' = [names EXCEPT ![f] = names[g]]
    BY <1>4 DEF HardLink
  <2>3. Moved(Touched(names[g]))
    BY <2>1, TouchedMoves
  <2>4. names' \in [Files -> {Symlink, Absent} \cup DOMAIN inodes]
    BY <1>1, <2>1, <2>2
  <2>5. QED
    BY <2>2, <2>3, <2>4, MovedFiles
<1>5. ASSUME NEW f \in Files, Unlink(f) PROVE FilesInv' /\ StampsMove
  <2>1. names' \in [Files -> {Symlink, Absent} \cup DOMAIN inodes]
    BY <1>1, <1>5 DEF Unlink
  <2>2. CASE names[f] > 0
    <3>1. inodes' = Touched(names[f])
      BY <1>5, <2>2 DEF Unlink
    <3>2. Moved(Touched(names[f]))
      BY <2>2, NamesArePositive, TouchedMoves
    <3>3. QED
      BY <2>1, <3>1, <3>2, MovedFiles
  <2>3. CASE ~(names[f] > 0)
    <3>1. inodes' = inodes
      BY <1>5, <2>3 DEF Unlink
    <3>2. QED
      BY <2>1, <3>1, MovedNot, MovedFiles
  <2>4. QED
    BY <2>2, <2>3
<1>6. QED
  BY <1>2, <1>3, <1>4, <1>5 DEF Others

-----------------------------------------------------------------------------
(* The command that runs.                                                  *)

LEMMA CommandEnds ==
    ASSUME NEW code, EndCommand(code)
    PROVE  CommandInv' /\ cmd'.code = code
<1>1. cmd' = [op |-> cmd.op, args |-> <<>>, step |-> "idle", todo |-> <<>>, gate |-> <<>>,
              snaps |-> <<>>, code |-> code]
  BY DEF EndCommand, IdleCommand
<1>2. IsSeq(cmd'.snaps) /\ IsSeq(cmd'.todo) /\ DOMAIN cmd'.snaps = {}
  BY <1>1, SeqEmpty
<1>3. QED
  BY <1>1, <1>2 DEF CommandInv

LEMMA SnapStays ==
    ASSUME NEW s, SnapOK(s), issued \subseteq issued'
    PROVE  SnapOK(s)'
<1>1. PICK c : c = s.content
  OBVIOUS
<1>2. ContentOK(c)'
  BY <1>1, ContentStays DEF SnapOK
<1>3. QED
  BY <1>1, <1>2 DEF SnapOK

(* The command waits while the files change.                               *)
LEMMA CommandStays ==
    ASSUME FilesInv, CommandInv, cmd' = cmd, StampsMove, issued \subseteq issued'
    PROVE  CommandInv'
<1>1. \A i \in DOMAIN cmd.snaps : SnapOK(cmd.snaps[i])'
  <2> TAKE i \in DOMAIN cmd.snaps
  <2>1. PICK s : s = cmd.snaps[i]
    OBVIOUS
  <2>2. SnapOK(s)'
    BY <2>1, SnapStays DEF CommandInv
  <2>3. QED
    BY <2>1, <2>2
<1>2. ASSUME cmd.step = "reading" PROVE GateInv'
  <2>1. PICK ino, stamp : ino = cmd.gate.fingerprint[1] /\ stamp = cmd.gate.fingerprint[2]
    OBVIOUS
  <2>2. /\ cmd.todo # <<>>
        /\ cmd.gate.fingerprint = <<ino, stamp>> /\ ino \in DOMAIN inodes /\ stamp \in Nat
        /\ stamp <= inodes[ino].stamp
        /\ stamp = inodes[ino].stamp => cmd.gate.first = inodes[ino].content
    BY <1>2, <2>1 DEF CommandInv, GateInv
  <2>3. /\ ino \in DOMAIN inodes' /\ inodes'[ino].stamp \in Nat
        /\ inodes[ino].stamp <= inodes'[ino].stamp
        /\ inodes'[ino].stamp = inodes[ino].stamp => inodes'[ino].content = inodes[ino].content
    BY <2>2 DEF StampsMove
  <2>4. stamp <= inodes'[ino].stamp /\ (stamp = inodes'[ino].stamp => cmd.gate.first = inodes'[ino].content)
    <3>1. inodes[ino].stamp \in Nat
      BY <2>2 DEF FilesInv, InodeOK
    <3>2. QED
      BY <2>2, <2>3, <3>1
  <2>5. QED
    BY <2>1, <2>2, <2>3, <2>4 DEF GateInv
<1>3. cmd.step # "idle" => PlanInv'
  BY DEF CommandInv, PlanInv, Plan
<1>4. QED
  BY <1>1, <1>2, <1>3 DEF CommandInv

LEMMA Plans ==
    /\ DOMAIN Inputs = {"canonicalize", "build", "issue", "verify"}
    /\ Inputs["canonicalize"] = <<"trace", "raw", "context">>
    /\ Inputs["build"] = <<"trace", "raw", "context">>
    /\ Inputs["issue"] = <<"trace", "raw", "context", "key">>
    /\ Inputs["verify"] = <<"trace", "raw", "context", "replay", "receipt", "trust">>
BY DEF Inputs

LEMMA CommandStarts ==
    ASSUME CommandInv, NEW op \in DOMAIN Inputs, NEW args, NEW todo, IsSeq(todo),
           \/ Len(todo) = Len(Inputs[op])
           \/ op = "issue" /\ Len(todo) = 3,
           \A i \in 1..Len(todo) : todo[i].file = Inputs[op][i],
           StartCommand(op, args, todo)
    PROVE  CommandInv' /\ cmd'.code = "none"
<1>1. cmd' = [op |-> op, args |-> args, step |-> "next", todo |-> todo, gate |-> <<>>,
              snaps |-> <<>>, code |-> "none"]
  BY DEF StartCommand, IdleCommand
<1>2. IsSeq(cmd'.snaps) /\ Len(cmd'.snaps) = 0 /\ DOMAIN cmd'.snaps = {}
  BY <1>1, SeqEmpty
<1>3. Len(todo) \in Nat
  BY SeqFacts
<1>4. PlanInv'
  <2>1. PICK n : n = Len(todo)
    OBVIOUS
  <2>2. 0 + n = n /\ \A i \in 1..n : 0 + i = i
    BY <1>3, <2>1
  <2>3. cmd'.op = op /\ cmd'.todo = todo
    BY <1>1
  <2>4. \A i \in 1..n : todo[i].file = Inputs[op][0 + i]
    BY <2>1, <2>2
  <2>5. (\/ 0 + n = Len(Inputs[op])
         \/ op = "issue" /\ 0 + n = 3)
    BY <2>1, <2>2
  <2>6. \A i \in 1..0 : FALSE
    OBVIOUS
  <2>7. QED
    BY <1>2, <2>1, <2>3, <2>4, <2>5, <2>6, Zenon DEF PlanInv, Plan
<1>5. QED
  BY <1>1, <1>2, <1>4 DEF CommandInv

(* The next input is opened: what is read first is what the file is.       *)
LEMMA GateOpens ==
    ASSUME FilesInv, CommandInv, OpenGate, issued' = issued
    PROVE  CommandInv' /\ (cmd'.code = cmd.code \/ cmd'.code \in Codes)
<1>1. /\ cmd.step = "next" /\ cmd.todo # <<>> /\ UNCHANGED <<names, inodes>>
  BY DEF OpenGate, files
<1>2. PICK f : f = cmd.todo[1].file
  OBVIOUS
<1>3. \/ EndCommand("input-open") \/ EndCommand("input-symlink")
      \/ EndCommand("unsupported-input-profile")
      \/ /\ names[f] # Absent /\ names[f] # Symlink
         /\ cmd' = [cmd EXCEPT !.step = "reading", !.gate = [fingerprint |-> Fingerprint(names[f]),
                                                             first |-> inodes[names[f]].content]]
  BY <1>2, Zenon DEF OpenGate
<1>4. ASSUME NEW code \in {"input-open", "input-symlink", "unsupported-input-profile"}, EndCommand(code)
      PROVE  CommandInv' /\ cmd'.code \in Codes
  <2>1. code \in Codes
    BY DEF Codes, AdapterErrorCodes
  <2>2. QED
    BY <1>4, <2>1, CommandEnds
<1>5. ASSUME names[f] # Absent, names[f] # Symlink,
             cmd' = [cmd EXCEPT !.step = "reading", !.gate = [fingerprint |-> Fingerprint(names[f]),
                                                              first |-> inodes[names[f]].content]]
      PROVE  CommandInv' /\ cmd'.code = cmd.code
  <2>1. PlanInv /\ IsSeq(cmd.snaps) /\ IsSeq(cmd.todo)
    BY <1>1 DEF CommandInv
  <2>2. f \in Files
    <3>1. PICK op, h, n : op = cmd.op /\ h = Len(cmd.snaps) /\ n = Len(cmd.todo)
      OBVIOUS
    <3>2. h \in Nat /\ n \in Nat /\ n > 0
      BY <1>1, <2>1, <3>1, SeqFacts, SeqTail
    <3>3. /\ op \in DOMAIN Inputs
          /\ \/ h + n = Len(Inputs[op])
             \/ op = "issue" /\ h + n = 3
          /\ \A i \in 1..n : cmd.todo[i].file = Inputs[op][h + i]
      BY <2>1, <3>1, Zenon DEF PlanInv, Plan
    <3>4. f = Inputs[op][h + 1]
      <4>1. 1 \in 1..n
        BY <3>2
      <4>2. QED
        BY <1>2, <3>3, <4>1, Zenon
    <3>5. \A k \in 1..Len(Inputs[op]) : Inputs[op][k] \in Files
      <4>1. {"trace", "raw", "context", "key", "replay", "receipt", "trust"} \subseteq Files
        BY FilesAssumption
      <4>2. CASE op = "verify"
        BY <4>1, <4>2, Plans
      <4>3. CASE op = "issue"
        BY <4>1, <4>3, Plans
      <4>4. CASE op \in {"canonicalize", "build"}
        BY <4>1, <4>4, Plans
      <4>5. QED
        BY <3>3, <4>2, <4>3, <4>4, Plans
    <3>6. h + 1 \in 1..Len(Inputs[op])
      <4>1. Len(Inputs[op]) \in Nat /\ (op = "issue" => Len(Inputs[op]) = 4)
        <5>1. CASE op = "verify"
          BY <5>1, Plans
        <5>2. CASE op = "issue"
          BY <5>2, Plans
        <5>3. CASE op \in {"canonicalize", "build"}
          BY <5>3, Plans
        <5>4. QED
          BY <3>3, <5>1, <5>2, <5>3, Plans
      <4>2. h + n = Len(Inputs[op]) \/ (h + n = 3 /\ Len(Inputs[op]) = 4)
        BY <3>3, <4>1, Zenon
      <4>3. PICK l : l = Len(Inputs[op])
        OBVIOUS
      <4>4. l \in Nat /\ (h + n = l \/ (h + n = 3 /\ l = 4))
        BY <4>1, <4>2, <4>3, Zenon
      <4>5. h + 1 \in 1..l
        BY <3>2, <4>4
      <4>6. QED
        BY <4>3, <4>5
    <3>7. QED
      BY <3>4, <3>5, <3>6
  <2>3. names[f] \in DOMAIN inodes
    BY <1>5, <2>2 DEF FilesInv
  <2>4. PICK ino, n : ino = names[f] /\ n = inodes[ino]
    OBVIOUS
  <2>5. n.stamp \in Nat
    BY <2>3, <2>4 DEF FilesInv, InodeOK
  <2>6. PICK g : g = [fingerprint |-> <<ino, n.stamp>>, first |-> n.content]
    OBVIOUS
  <2>7. cmd = [op |-> cmd.op, args |-> cmd.args, step |-> cmd.step, todo |-> cmd.todo, gate |-> cmd.gate,
               snaps |-> cmd.snaps, code |-> cmd.code]
    BY DEF CommandInv
  <2>8. cmd' = [cmd EXCEPT !.step = "reading", !.gate = g]
    BY <1>5, <2>4, <2>6 DEF Fingerprint
  <2>9. cmd' = [op |-> cmd.op, args |-> cmd.args, step |-> "reading", todo |-> cmd.todo, gate |-> g,
                snaps |-> cmd.snaps, code |-> cmd.code]
    BY <2>7, <2>8
  <2>10. \A i \in DOMAIN cmd.snaps : SnapOK(cmd.snaps[i])'
    <3> TAKE i \in DOMAIN cmd.snaps
    <3>1. PICK s : s = cmd.snaps[i]
      OBVIOUS
    <3>2. SnapOK(s)'
      BY <3>1, SnapStays DEF CommandInv
    <3>3. cmd'.snaps = cmd.snaps
      BY <2>9
    <3>4. QED
      BY <3>1, <3>2, <3>3
  <2>11. PlanInv'
    BY <2>1, <2>9 DEF PlanInv, Plan
  <2>12. GateInv'
    <3>1. cmd'.gate = g /\ cmd'.todo # <<>> /\ inodes' = inodes
      BY <1>1, <2>9
    <3>2. /\ g.fingerprint = <<ino, n.stamp>> /\ g.fingerprint[1] = ino /\ g.fingerprint[2] = n.stamp
          /\ g.first = n.content
      BY <2>6
    <3>3. ino \in DOMAIN inodes /\ inodes[ino] = n /\ n.stamp \in Nat /\ n.stamp <= n.stamp
      BY <2>3, <2>4, <2>5
    <3>4. QED
      BY <3>1, <3>2, <3>3, Zenon DEF GateInv
  <2>13. QED
    BY <2>1, <2>9, <2>10, <2>11, <2>12 DEF CommandInv
<1>6. QED
  BY <1>3, <1>4, <1>5

(* The plan after one more input is held.                                  *)
LEMMA PlanGoesOn ==
    ASSUME NEW op, NEW snaps, IsSeq(snaps), NEW todo, IsSeq(todo), todo # <<>>, Plan(op, snaps, todo),
           NEW s, s.file = todo[1].file, NEW more, more = Append(snaps, s), NEW rest, rest = Tail(todo)
    PROVE  IsSeq(more) /\ IsSeq(rest) /\ Plan(op, more, rest)
<1>1. PICK h, n : h = Len(snaps) /\ n = Len(todo)
  OBVIOUS
<1>2. h \in Nat /\ n \in Nat /\ n > 0
  BY <1>1, SeqFacts, SeqTail
<1>3. /\ IsSeq(more) /\ Len(more) = h + 1 /\ \A i \in 1..h : more[i] = snaps[i]
      /\ more[h + 1] = s
  BY <1>1, SeqAppend
<1>4. IsSeq(rest) /\ Len(rest) = n - 1 /\ \A i \in 1..(n - 1) : rest[i] = todo[i + 1]
  BY <1>1, SeqTail
<1>5. Len(more) + Len(rest) = h + n
  BY <1>2, <1>3, <1>4
<1>6. ASSUME NEW i \in 1..Len(more) PROVE more[i].file = Inputs[op][i]
  <2>1. CASE i \in 1..h
    BY <2>1, <1>1, <1>3 DEF Plan
  <2>2. CASE i = h + 1
    <3>1. s.file = Inputs[op][h + 1]
      <4>1. 1 \in 1..n
        BY <1>2
      <4>2. QED
        BY <1>1, <4>1 DEF Plan
    <3>2. QED
      BY <2>2, <1>3, <3>1
  <2>3. QED
    BY <1>2, <1>3, <2>1, <2>2
<1>7. ASSUME NEW i \in 1..Len(rest) PROVE rest[i].file = Inputs[op][Len(more) + i]
  <2>1. PICK j : j = i + 1
    OBVIOUS
  <2>2. i \in 1..(n - 1) /\ j \in 1..n /\ h + j = Len(more) + i
    BY <1>2, <1>3, <1>4, <2>1
  <2>3. rest[i] = todo[j] /\ todo[j].file = Inputs[op][h + j]
    BY <1>1, <1>4, <2>1, <2>2 DEF Plan
  <2>4. QED
    BY <2>2, <2>3
<1>8. op \in DOMAIN Inputs /\ (h + n = Len(Inputs[op]) \/ (op = "issue" /\ h + n = 3))
  BY <1>1, Zenon DEF Plan
<1>9. Plan(op, more, rest)
  BY <1>5, <1>6, <1>7, <1>8, Zenon DEF Plan
<1>10. QED
  BY <1>3, <1>4, <1>9

(* The read ends: a snapshot is taken only of a file whose stamp has not   *)
(* moved, so that what was read first is what the file still is.           *)
LEMMA ReadFinishes ==
    ASSUME FilesInv, CommandInv, FinishRead, issued' = issued
    PROVE  CommandInv' /\ (cmd'.code = cmd.code \/ cmd'.code \in Codes)
<1>1. PICK f, ino : f = cmd.todo[1].file /\ ino = cmd.gate.fingerprint[1]
  OBVIOUS
<1>2. PICK snap : snap = [file |-> f, fingerprint |-> cmd.gate.fingerprint, private |-> inodes[ino].private,
                          first |-> cmd.gate.first, content |-> inodes[ino].content]
  OBVIOUS
<1>3. cmd.step = "reading" /\ UNCHANGED <<names, inodes>>
  BY DEF FinishRead, files
<1>4. \/ EndCommand("input-changed") \/ EndCommand("input-too-large") \/ EndCommand("input-open")
      \/ /\ StillSame(cmd.gate, f)
         /\ cmd' = [cmd EXCEPT !.step = "next", !.todo = Tail(cmd.todo), !.gate = <<>>,
                               !.snaps = Append(cmd.snaps, snap)]
  BY <1>1, <1>2, Zenon DEF FinishRead
<1>5. ASSUME NEW code \in {"input-changed", "input-too-large", "input-open"}, EndCommand(code)
      PROVE  CommandInv' /\ cmd'.code \in Codes
  <2>1. code \in Codes
    BY DEF Codes, AdapterErrorCodes
  <2>2. QED
    BY <1>5, <2>1, CommandEnds
<1>6. ASSUME StillSame(cmd.gate, f),
             cmd' = [cmd EXCEPT !.step = "next", !.todo = Tail(cmd.todo), !.gate = <<>>,
                                !.snaps = Append(cmd.snaps, snap)]
      PROVE  CommandInv' /\ cmd'.code = cmd.code
  <2>1. PlanInv /\ IsSeq(cmd.snaps) /\ IsSeq(cmd.todo) /\ GateInv /\ cmd.todo # <<>>
    BY <1>3 DEF CommandInv, GateInv
  <2>2. PICK stamp : stamp = cmd.gate.fingerprint[2]
    OBVIOUS
  <2>3. /\ cmd.gate.fingerprint = <<ino, stamp>> /\ ino \in DOMAIN inodes
        /\ stamp = inodes[ino].stamp => cmd.gate.first = inodes[ino].content
    BY <1>1, <2>1, <2>2 DEF GateInv
  <2>4. <<ino, inodes[ino].stamp>> = <<ino, stamp>>
    BY <1>1, <1>6, <2>3, Zenon DEF StillSame, Fingerprint
  <2>5. cmd.gate.first = inodes[ino].content
    BY <2>3, <2>4
  <2>6. PICK c : c = inodes[ino].content
    OBVIOUS
  <2>7. ContentOK(c)
    BY <2>3, <2>6 DEF FilesInv, InodeOK
  <2>8. snap.file = f /\ snap.content = c /\ snap.first = c
    BY <1>2, <2>5, <2>6
  <2>9. SnapOK(snap)
    BY <2>7, <2>8, Zenon DEF SnapOK
  <2>10. PICK more, rest : more = Append(cmd.snaps, snap) /\ rest = Tail(cmd.todo)
    OBVIOUS
  <2>11. cmd = [op |-> cmd.op, args |-> cmd.args, step |-> cmd.step, todo |-> cmd.todo, gate |-> cmd.gate,
                snaps |-> cmd.snaps, code |-> cmd.code]
    BY DEF CommandInv
  <2>12. cmd' = [op |-> cmd.op, args |-> cmd.args, step |-> "next", todo |-> rest, gate |-> <<>>,
                 snaps |-> more, code |-> cmd.code]
    BY <1>6, <2>10, <2>11
  <2>13. IsSeq(more) /\ IsSeq(rest) /\ Plan(cmd.op, more, rest)
    <3>1. PICK op, snaps, todo : op = cmd.op /\ snaps = cmd.snaps /\ todo = cmd.todo
      OBVIOUS
    <3>2. /\ Plan(op, snaps, todo) /\ IsSeq(snaps) /\ IsSeq(todo) /\ todo # <<>>
          /\ snap.file = todo[1].file /\ more = Append(snaps, snap) /\ rest = Tail(todo)
      BY <1>1, <2>1, <2>8, <2>10, <3>1 DEF PlanInv
    <3>3. IsSeq(more) /\ IsSeq(rest) /\ Plan(op, more, rest)
      BY <3>2, PlanGoesOn
    <3>4. QED
      BY <3>1, <3>3
  <2>14. \A i \in DOMAIN more : SnapOK(more[i])'
    <3> TAKE i \in DOMAIN more
    <3>1. Len(cmd.snaps) \in Nat /\ DOMAIN cmd.snaps = 1..Len(cmd.snaps)
      BY <2>1, SeqFacts
    <3>2. /\ DOMAIN more = 1..(Len(cmd.snaps) + 1) /\ \A j \in 1..Len(cmd.snaps) : more[j] = cmd.snaps[j]
          /\ more[Len(cmd.snaps) + 1] = snap
      BY <2>1, <2>10, SeqAppend
    <3>3. PICK s : s = more[i]
      OBVIOUS
    <3>4. SnapOK(s)
      <4>1. \A j \in DOMAIN cmd.snaps : SnapOK(cmd.snaps[j])
        BY DEF CommandInv
      <4>2. i \in 1..Len(cmd.snaps) \/ i = Len(cmd.snaps) + 1
        BY <3>1, <3>2
      <4>3. QED
        BY <2>9, <3>1, <3>2, <3>3, <4>1, <4>2, Zenon
    <3>5. SnapOK(s)'
      BY <3>4, SnapStays
    <3>6. QED
      BY <3>3, <3>5
  <2>15. PlanInv'
    <3>1. cmd'.op = cmd.op /\ cmd'.snaps = more /\ cmd'.todo = rest
      BY <2>12
    <3>2. QED
      BY <2>13, <3>1 DEF PlanInv
  <2>16. \A i \in DOMAIN cmd'.snaps : SnapOK(cmd.snaps[i])'
    BY <2>12, <2>14
  <2>17. QED
    BY <2>12, <2>13, <2>15, <2>16 DEF CommandInv
<1>7. QED
  BY <1>4, <1>5, <1>6

(* A further input is asked for.                                           *)
LEMMA KeyIsAskedFor ==
    ASSUME FilesInv, CommandInv, IssueValidated, issued' = issued,
           cmd' = [cmd EXCEPT !.todo = <<Input("key")>>]
    PROVE  CommandInv' /\ cmd'.code = cmd.code
<1>1. PICK todo : todo = <<Input("key")>>
  OBVIOUS
<1>2. IsSeq(todo) /\ Len(todo) = 1 /\ todo[1].file = "key"
  <2>1. todo \in Seq({Input("key")})
    BY <1>1
  <2>2. QED
    BY <1>1, <2>1, AnySeq DEF Input
<1>3. cmd.step = "next" /\ cmd.op = "issue" /\ Len(cmd.snaps) = 3
  BY DEF IssueValidated, HoldsAll
<1>4. cmd = [op |-> cmd.op, args |-> cmd.args, step |-> cmd.step, todo |-> cmd.todo, gate |-> cmd.gate,
             snaps |-> cmd.snaps, code |-> cmd.code]
  BY DEF CommandInv
<1>5. cmd' = [op |-> cmd.op, args |-> cmd.args, step |-> "next", todo |-> todo, gate |-> cmd.gate,
              snaps |-> cmd.snaps, code |-> cmd.code]
  BY <1>1, <1>3, <1>4
<1>6. PlanInv'
  <2>1. cmd'.op = "issue" /\ cmd'.snaps = cmd.snaps /\ cmd'.todo = todo
    BY <1>3, <1>5
  <2>2. \A i \in 1..Len(cmd.snaps) : cmd.snaps[i].file = Inputs["issue"][i]
    BY <1>3 DEF CommandInv, PlanInv, Plan
  <2>3. \A i \in 1..Len(todo) : todo[i].file = Inputs["issue"][3 + i]
    BY <1>2, Plans
  <2>4. "issue" \in DOMAIN Inputs /\ 3 + Len(todo) = Len(Inputs["issue"])
    BY <1>2, Plans
  <2>5. QED
    BY <1>3, <2>1, <2>2, <2>3, <2>4, Zenon DEF PlanInv, Plan
<1>7. \A i \in DOMAIN cmd'.snaps : SnapOK(cmd.snaps[i])'
  <2> TAKE i \in DOMAIN cmd'.snaps
  <2>1. PICK s : s = cmd.snaps[i]
    OBVIOUS
  <2>2. cmd'.snaps = cmd.snaps
    BY <1>5
  <2>3. SnapOK(s)'
    BY <2>1, <2>2, SnapStays DEF CommandInv
  <2>4. QED
    BY <2>1, <2>2, <2>3
<1>8. QED
  BY <1>2, <1>5, <1>6, <1>7 DEF CommandInv

-----------------------------------------------------------------------------
(* The history, and the commands that end by publishing.                   *)

LEMMA HistoryGrows ==
    ASSUME HistoryInv, issued \subseteq issued',
           \A i \in issued' : i \in issued \/ i.receipt.anchor = Anchor(ReplayCandidate(i.trace)),
           \A b \in built' : b \in built \/ (b.candidate = ReplayCandidate(b.trace) /\ b.trace \in KnownTraces),
           \A v \in verified' : v \in verified \/ Genuine(v)
    PROVE  HistoryInv'
<1>1. \A v \in verified : Genuine(v)
  <2> TAKE v \in verified
  <2>1. Recomputed(v)
    BY Zenon DEF HistoryInv, VerifiedIsRecomputed, Recomputed
  <2>2. Evidenced(v.trace, v.raws)
    BY Zenon DEF HistoryInv, ValuesAreEvidenced, Evidenced
  <2>3. WasIssued(v)
    BY Zenon DEF HistoryInv, VerifiedWasIssued, WasIssued
  <2>4. QED
    BY <2>1, <2>2, <2>3 DEF Genuine
<1>2. \A v \in verified' : Genuine(v)
  BY <1>1
<1>3. VerifiedIsRecomputed'
  BY <1>2, Zenon DEF VerifiedIsRecomputed, Genuine, Recomputed
<1>4. ValuesAreEvidenced'
  BY <1>2, Zenon DEF ValuesAreEvidenced, Genuine, Evidenced
<1>5. VerifiedWasIssued'
  <2>1. \A v \in verified' : WasIssued(v)
    BY <1>2 DEF Genuine
  <2>2. ASSUME NEW v \in verified'
        PROVE  \E i \in issued' : /\ v.policy.verification_key = i.receipt.signature[1]
                                  /\ i.receipt.authority_epoch = v.policy.accepted_authority_epoch
                                  /\ CanonicalBytes(i.trace) = CanonicalBytes(v.trace)
    <3>1. PICK i \in issued : /\ v.policy.verification_key = i.receipt.signature[1]
                              /\ i.receipt.authority_epoch = v.policy.accepted_authority_epoch
                              /\ CanonicalBytes(i.trace) = CanonicalBytes(v.trace)
      BY <2>1, Zenon DEF WasIssued
    <3>2. i \in issued'
      OBVIOUS
    <3>3. QED
      BY <3>1, <3>2, Zenon
  <2>3. QED
    BY <2>2, Zenon DEF VerifiedWasIssued
<1>6. EarlierReceipts \subseteq issued' /\ \A i \in issued' : i.receipt.anchor = Anchor(ReplayCandidate(i.trace))
  BY Zenon DEF HistoryInv
<1>7. \A b \in built' : b.candidate = ReplayCandidate(b.trace) /\ b.trace \in KnownTraces
  BY Zenon DEF HistoryInv
<1>8. QED
  BY <1>3, <1>4, <1>5, <1>6, <1>7 DEF HistoryInv

LEMMA HistoryStays ==
    ASSUME HistoryInv, UNCHANGED history
    PROVE  HistoryInv'
BY HistoryGrows DEF history

LEMMA Refused ==
    ASSUME ReplayInv, NEW code \in Codes, Refuse(code), commands' = commands
    PROVE  ReplayInv'
<1>1. EndCommand(code) /\ UNCHANGED <<names, inodes>> /\ UNCHANGED history /\ issued' = issued
  BY DEF Refuse, files, history
<1>2. CommandInv' /\ cmd'.code = code
  BY <1>1, CommandEnds
<1>3. FilesInv'
  BY <1>1, FilesStay DEF ReplayInv
<1>4. HistoryInv'
  BY <1>1, HistoryStays DEF ReplayInv
<1>5. CountInv'
  BY <1>2 DEF ReplayInv, CountInv
<1>6. QED
  BY <1>2, <1>3, <1>4, <1>5 DEF ReplayInv

(* An output is written or the command fails; both end it.                 *)
LEMMA PublishEnds ==
    ASSUME ReplayInv, NEW f \in Files, NEW c, Publish(f, c), ContentOK(c)' \/ cmd'.code # "ok",
           issued \subseteq issued', commands' = commands, HistoryInv'
    PROVE  ReplayInv'
<1>1. CASE Published(f, c) /\ EndCommand("ok")
  <2>1. CommandInv' /\ cmd'.code = "ok"
    BY <1>1, CommandEnds
  <2>2. PICK n : n = [content |-> c, stamp |-> 0, private |-> TRUE]
    OBVIOUS
  <2>3. InodeOK(n)'
    BY <2>1, <2>2 DEF InodeOK
  <2>4. inodes' = Append(inodes, n) /\ names' = [names EXCEPT ![f] = Len(inodes) + 1]
    BY <1>1, <2>2 DEF Published, NewInode
  <2>5. PICK base : base = inodes
    OBVIOUS
  <2>6. IsSeq(base) /\ Len(base) = Len(inodes) /\ inodes' = Append(base, n)
    BY <2>4, <2>5 DEF ReplayInv, FilesInv
  <2>7. \A i \in DOMAIN base : InodeOK(base[i])'
    <3> TAKE i \in DOMAIN base
    <3>1. PICK m : m = base[i]
      OBVIOUS
    <3>2. InodeOK(m)'
      BY <2>5, <3>1, InodeStays DEF ReplayInv, FilesInv
    <3>3. QED
      BY <3>1, <3>2
  <2>8. FilesInv'
    BY <2>3, <2>4, <2>6, <2>7, InodeAdded DEF ReplayInv
  <2>9. CountInv'
    BY <2>1, CodesKnown DEF ReplayInv, CountInv
  <2>10. QED
    BY <2>1, <2>8, <2>9 DEF ReplayInv
<1>2. CASE /\ EndCommand(IF Occupied(f) = "ok" THEN "output-publish" ELSE Occupied(f))
           /\ UNCHANGED files
  <2>1. PICK code : code = IF Occupied(f) = "ok" THEN "output-publish" ELSE Occupied(f)
    OBVIOUS
  <2>2. code \in Codes
    <3>1. Occupied(f) \in {"ok", "output-symlink", "input-alias", "output-exists"}
      BY DEF Occupied
    <3>2. {"output-publish", "output-symlink", "input-alias", "output-exists"} \subseteq Codes
      BY DEF Codes, AdapterErrorCodes
    <3>3. QED
      BY <2>1, <3>1, <3>2
  <2>3. CommandInv' /\ cmd'.code = code
    BY <1>2, <2>1, CommandEnds
  <2>4. FilesInv'
    BY <1>2, FilesStay DEF files, ReplayInv
  <2>5. CountInv'
    BY <2>2, <2>3 DEF ReplayInv, CountInv
  <2>6. QED
    BY <2>3, <2>4, <2>5 DEF ReplayInv
<1>3. QED
  BY <1>1, <1>2 DEF Publish

LEMMA OutputFiles == {"canonical", "replay", "receipt", "verified"} \subseteq Files
BY FilesAssumption

LEMMA CanonicalizeStep ==
    ASSUME ReplayInv, Canonicalize, commands' = commands
    PROVE  ReplayInv'
<1>1. CommandInv /\ HoldsAll
  BY DEF ReplayInv, Canonicalize
<1>2. PICK v : v = WithValidated
  OBVIOUS
<1>3. v.code \in Codes
  BY <1>1, <1>2, ValidatedFacts
<1>4. \/ Refuse("input-alias")
      \/ Refuse(v.code)
      \/ Publish("canonical", NoJson(1, CanonicalBytes(v.value.trace))) /\ UNCHANGED history
  BY <1>2, Zenon DEF Canonicalize
<1>5. CASE Refuse("input-alias")
  BY <1>5, Refused DEF Codes, AdapterErrorCodes
<1>6. CASE Refuse(v.code)
  BY <1>3, <1>6, Refused
<1>7. CASE Publish("canonical", NoJson(1, CanonicalBytes(v.value.trace))) /\ UNCHANGED history
  <2>1. PICK c : c = NoJson(1, CanonicalBytes(v.value.trace))
    OBVIOUS
  <2>2. c.shape = "none"
    BY <2>1 DEF NoJson
  <2>3. ContentOK(c)'
    BY <2>2 DEF ContentOK, Output
  <2>4. HistoryInv' /\ issued' = issued
    BY <1>7, HistoryStays DEF ReplayInv, history
  <2>5. QED
    BY <1>7, <2>1, <2>3, <2>4, OutputFiles, PublishEnds
<1>8. QED
  BY <1>4, <1>5, <1>6, <1>7

LEMMA BuildStep ==
    ASSUME ReplayInv, BuildCandidate, commands' = commands
    PROVE  ReplayInv'
<1>1. CommandInv /\ HoldsAll
  BY DEF ReplayInv, BuildCandidate
<1>2. PICK v : v = WithValidated
  OBVIOUS
<1>3. v.code \in Codes /\ (v.code = "ok" => Validated(v.value))
  BY <1>1, <1>2, ValidatedFacts
<1>4. PICK rc : rc = ReplayCandidate(v.value.trace)
  OBVIOUS
<1>5. PICK entry : entry = [trace |-> v.value.trace, candidate |-> rc]
  OBVIOUS
<1>6. \/ Refuse("input-alias")
      \/ Refuse(v.code)
      \/ /\ v.code = "ok" /\ Publish("replay", Json("candidate", rc)) /\ UNCHANGED <<issued, verified>>
         /\ built' = IF Succeeds THEN built \cup {entry} ELSE built
  BY <1>2, <1>4, <1>5, Zenon DEF BuildCandidate
<1>7. CASE Refuse("input-alias")
  BY <1>7, Refused DEF Codes, AdapterErrorCodes
<1>8. CASE Refuse(v.code)
  BY <1>3, <1>8, Refused
<1>9. CASE /\ v.code = "ok" /\ Publish("replay", Json("candidate", rc)) /\ UNCHANGED <<issued, verified>>
           /\ built' = IF Succeeds THEN built \cup {entry} ELSE built
  <2>1. PICK c : c = Json("candidate", rc)
    OBVIOUS
  <2>2. c.shape = "candidate"
    BY <2>1 DEF Json
  <2>3. ContentOK(c)'
    BY <2>2 DEF ContentOK, Output
  <2>4. entry.trace \in KnownTraces /\ entry.candidate = ReplayCandidate(entry.trace)
    BY <1>3, <1>4, <1>5, <1>9 DEF Validated, KnownTraces
  <2>5. \A b \in built' : b \in built \/ (b.candidate = ReplayCandidate(b.trace) /\ b.trace \in KnownTraces)
    BY <1>9, <2>4
  <2>6. issued' = issued /\ verified' = verified /\ HistoryInv
    BY <1>9 DEF ReplayInv
  <2>7. HistoryInv'
    BY <2>5, <2>6, HistoryGrows
  <2>8. QED
    BY <1>9, <2>1, <2>3, <2>6, <2>7, OutputFiles, PublishEnds
<1>10. QED
  BY <1>6, <1>7, <1>8, <1>9

LEMMA IssueValidatedStep ==
    ASSUME ReplayInv, IssueValidated, commands' = commands
    PROVE  ReplayInv'
<1>1. CommandInv /\ HoldsAll
  BY DEF ReplayInv, IssueValidated
<1>2. PICK v : v = WithValidated
  OBVIOUS
<1>3. v.code \in Codes
  BY <1>1, <1>2, ValidatedFacts
<1>4. \/ Refuse("input-alias")
      \/ Refuse(v.code)
      \/ cmd' = [cmd EXCEPT !.todo = <<Input("key")>>] /\ UNCHANGED <<files, history>>
  BY <1>2, Zenon DEF IssueValidated
<1>5. CASE Refuse("input-alias")
  BY <1>5, Refused DEF Codes, AdapterErrorCodes
<1>6. CASE Refuse(v.code)
  BY <1>3, <1>6, Refused
<1>7. CASE cmd' = [cmd EXCEPT !.todo = <<Input("key")>>] /\ UNCHANGED <<files, history>>
  <2>1. issued' = issued /\ UNCHANGED <<names, inodes>> /\ UNCHANGED history
    BY <1>7 DEF history, files
  <2>2. CommandInv' /\ cmd'.code = cmd.code
    BY <1>7, <2>1, KeyIsAskedFor DEF ReplayInv
  <2>3. FilesInv'
    BY <2>1, FilesStay DEF ReplayInv
  <2>4. HistoryInv'
    BY <2>1, HistoryStays DEF ReplayInv
  <2>5. QED
    BY <2>2, <2>3, <2>4 DEF ReplayInv, CountInv
<1>8. QED
  BY <1>4, <1>5, <1>6, <1>7

LEMMA IssueReceiptStep ==
    ASSUME ReplayInv, IssueReceiptFile, commands' = commands
    PROVE  ReplayInv'
<1>1. PICK t, key, a : t = WithValidated.value.trace /\ key = Snap("key") /\ a = cmd.args
  OBVIOUS
<1>2. PICK r : r = IssueReceipt(t, key.value, a.issuer, a.key_id, a.epoch)
  OBVIOUS
<1>3. PICK entry : entry = [trace |-> t, receipt |-> r.value]
  OBVIOUS
<1>4. \/ Refuse("unsupported-input-profile") \/ Refuse("input-alias") \/ Refuse("authority-signing-key")
      \/ Refuse(r.code) /\ r.code # "ok"
      \/ /\ r.code = "ok" /\ Publish("receipt", Json("receipt", r.value)) /\ UNCHANGED <<verified, built>>
         /\ issued' = IF Succeeds THEN issued \cup {entry} ELSE issued
  BY <1>1, <1>2, <1>3, Zenon DEF IssueReceiptFile
<1>5. \/ r = Bad("json-shape")
      \/ r.code = "ok" /\ r.value.anchor = Anchor(ReplayCandidate(t))
  BY <1>2 DEF IssueReceipt, Good
<1>6. ASSUME NEW code \in {"unsupported-input-profile", "input-alias", "authority-signing-key"}, Refuse(code)
      PROVE  ReplayInv'
  <2>1. code \in Codes
    BY DEF Codes, AdapterErrorCodes, ReplayAuthorityErrorCodes
  <2>2. QED
    BY <1>6, <2>1, Refused
<1>7. CASE Refuse(r.code) /\ r.code # "ok"
  <2>1. r.code = "json-shape"
    BY <1>5, <1>7 DEF Bad
  <2>2. r.code \in Codes
    BY <2>1 DEF Codes, AdapterErrorCodes
  <2>3. QED
    BY <1>7, <2>2, Refused
<1>8. CASE /\ r.code = "ok" /\ Publish("receipt", Json("receipt", r.value)) /\ UNCHANGED <<verified, built>>
           /\ issued' = IF Succeeds THEN issued \cup {entry} ELSE issued
  <2>1. PICK c : c = Json("receipt", r.value)
    OBVIOUS
  <2>2. c.shape = "receipt" /\ c.value = r.value
    BY <2>1 DEF Json
  <2>3. ASSUME cmd'.code = "ok" PROVE ContentOK(c)'
    <3>1. entry \in issued' /\ c.value = entry.receipt
      BY <1>3, <1>8, <2>2, <2>3 DEF Succeeds
    <3>2. QED
      BY <2>2, <3>1 DEF ContentOK, Output
  <2>4. entry.receipt.anchor = Anchor(ReplayCandidate(entry.trace))
    BY <1>3, <1>5, <1>8 DEF Bad
  <2>5. \A i \in issued' : i \in issued \/ i.receipt.anchor = Anchor(ReplayCandidate(i.trace))
    BY <1>8, <2>4
  <2>6. issued \subseteq issued' /\ verified' = verified /\ built' = built /\ HistoryInv
    BY <1>8 DEF ReplayInv
  <2>7. HistoryInv'
    BY <2>5, <2>6, HistoryGrows
  <2>8. QED
    BY <1>8, <2>1, <2>3, <2>6, <2>7, OutputFiles, PublishEnds
<1>9. QED
  BY <1>4, <1>6, <1>7, <1>8

LEMMA VerifyStep ==
    ASSUME ReplayInv, Verify, commands' = commands
    PROVE  ReplayInv'
<1>1. CommandInv /\ HistoryInv /\ HoldsAll /\ cmd.op = "verify"
  BY DEF ReplayInv, Verify
<1>2. PICK w : w = VerifyWork
  OBVIOUS
<1>3. w.code \in Codes /\ (w.code = "ok" => Genuine(w.value))
  BY <1>1, <1>2, VerifyFacts
<1>4. \/ Refuse("input-alias")
      \/ Refuse(w.code)
      \/ /\ w.code = "ok" /\ Publish("verified", Json("verified", w.value.verified))
         /\ verified' = IF Succeeds THEN verified \cup {w.value} ELSE verified
         /\ UNCHANGED <<issued, built>>
  BY <1>2, Zenon DEF Verify
<1>5. CASE Refuse("input-alias")
  BY <1>5, Refused DEF Codes, AdapterErrorCodes
<1>6. CASE Refuse(w.code)
  BY <1>3, <1>6, Refused
<1>7. CASE /\ w.code = "ok" /\ Publish("verified", Json("verified", w.value.verified))
           /\ verified' = IF Succeeds THEN verified \cup {w.value} ELSE verified
           /\ UNCHANGED <<issued, built>>
  <2>1. PICK c : c = Json("verified", w.value.verified)
    OBVIOUS
  <2>2. c.shape = "verified"
    BY <2>1 DEF Json
  <2>3. ContentOK(c)'
    BY <2>2 DEF ContentOK, Output
  <2>4. \A v \in verified' : v \in verified \/ Genuine(v)
    BY <1>3, <1>7
  <2>5. issued' = issued /\ built' = built
    BY <1>7
  <2>6. HistoryInv'
    BY <1>1, <2>4, <2>5, HistoryGrows
  <2>7. QED
    BY <1>7, <2>1, <2>3, <2>5, <2>6, OutputFiles, PublishEnds
<1>8. QED
  BY <1>4, <1>5, <1>6, <1>7

-----------------------------------------------------------------------------
(* Every step.                                                             *)

LEMMA StartStep ==
    ASSUME ReplayInv, Start
    PROVE  ReplayInv'
<1>1. UNCHANGED <<names, inodes>> /\ UNCHANGED history /\ issued' = issued
  BY DEF Start, files, history
<1>2. commands' \in 0..MaxCommands
  <2>1. commands \in 0..MaxCommands /\ MaxCommands \in Nat /\ commands < MaxCommands /\ commands' = commands + 1
    BY FilesAssumption DEF ReplayInv, CountInv, Start
  <2>2. QED
    BY <2>1
<1>3. PICK short : short = Validation
  OBVIOUS
<1>4. PICK more : more = <<Input("replay"), Input("receipt"), Input("trust")>>
  OBVIOUS
<1>5. /\ IsSeq(short) /\ Len(short) = 3
      /\ short[1].file = "trace" /\ short[2].file = "raw" /\ short[3].file = "context"
  <2>1. short \in Seq({Input("trace"), Input("raw"), Input("context")})
    BY <1>3 DEF Validation
  <2>2. QED
    BY <1>3, <2>1, AnySeq DEF Validation, Input
<1>6. /\ IsSeq(more) /\ Len(more) = 3
      /\ more[1].file = "replay" /\ more[2].file = "receipt" /\ more[3].file = "trust"
  <2>1. more \in Seq({Input("replay"), Input("receipt"), Input("trust")})
    BY <1>4
  <2>2. QED
    BY <1>4, <2>1, AnySeq DEF Input
<1>7. PICK long : long = short \o more
  OBVIOUS
<1>8. /\ IsSeq(long) /\ Len(long) = 3 + 3
      /\ \A k \in 1..3 : long[k] = short[k]
      /\ \A k \in 1..3 : long[3 + k] = more[k]
  <2>1. IsSeq(short) /\ IsSeq(more)
    BY <1>5, <1>6
  <2>2. /\ IsSeq(short \o more) /\ Len(short \o more) = Len(short) + Len(more)
        /\ \A k \in 1..Len(short) : (short \o more)[k] = short[k]
        /\ \A k \in 1..Len(more) : (short \o more)[Len(short) + k] = more[k]
    BY <2>1, SeqConcat
  <2>3. Len(short) = 3 /\ Len(more) = 3
    BY <1>5, <1>6
  <2>4. QED
    BY <1>7, <2>2, <2>3, Zenon
<1>9. \A i \in 1..Len(long) : long[i].file = Inputs["verify"][i]
  <2>1. /\ long[1].file = "trace" /\ long[2].file = "raw" /\ long[3].file = "context"
        /\ long[4].file = "replay" /\ long[5].file = "receipt" /\ long[6].file = "trust"
    <3>1. long[1] = short[1] /\ long[2] = short[2] /\ long[3] = short[3]
      BY <1>8
    <3>2. long[3 + 1] = more[1] /\ long[3 + 2] = more[2] /\ long[3 + 3] = more[3]
      BY <1>8
    <3>3. QED
      BY <1>5, <1>6, <3>1, <3>2
  <2>2. QED
    BY <1>8, <2>1, Plans
<1>10. CommandInv' /\ cmd'.code = "none"
  <2>1. ASSUME NEW op \in {"canonicalize", "build", "issue"}, NEW args, StartCommand(op, args, short)
        PROVE  CommandInv' /\ cmd'.code = "none"
    <3>1. op \in DOMAIN Inputs /\ (Len(short) = Len(Inputs[op]) \/ (op = "issue" /\ Len(short) = 3))
      BY <1>5, Plans
    <3>2. \A i \in 1..Len(short) : short[i].file = Inputs[op][i]
      BY <1>5, Plans
    <3>3. QED
      BY <1>5, <2>1, <3>1, <3>2, CommandStarts DEF ReplayInv
  <2>2. ASSUME StartCommand("verify", <<>>, long)
        PROVE  CommandInv' /\ cmd'.code = "none"
    <3>1. "verify" \in DOMAIN Inputs /\ Len(long) = Len(Inputs["verify"])
      BY <1>8, Plans
    <3>2. QED
      BY <1>8, <1>9, <2>2, <3>1, CommandStarts DEF ReplayInv
  <2>3. \/ StartCommand("canonicalize", <<>>, short)
        \/ StartCommand("build", <<>>, short)
        \/ \E a \in IssueArgs : StartCommand("issue", a, short)
        \/ StartCommand("verify", <<>>, long)
    BY <1>3, <1>4, <1>7 DEF Start
  <2>4. QED
    BY <2>1, <2>2, <2>3
<1>11. FilesInv'
  BY <1>1, FilesStay DEF ReplayInv
<1>12. HistoryInv'
  BY <1>1, HistoryStays DEF ReplayInv
<1>13. CountInv'
  BY <1>2, <1>10, CodesKnown DEF CountInv
<1>14. QED
  BY <1>10, <1>11, <1>12, <1>13 DEF ReplayInv

LEMMA ReadStep ==
    ASSUME ReplayInv, ReadInput
    PROVE  ReplayInv'
<1>1. UNCHANGED <<names, inodes>> /\ UNCHANGED history /\ issued' = issued /\ commands' = commands
  BY DEF ReadInput, OpenGate, FinishRead, files, history
<1>2. CommandInv' /\ (cmd'.code = cmd.code \/ cmd'.code \in Codes)
  BY <1>1, GateOpens, ReadFinishes DEF ReadInput, ReplayInv
<1>3. FilesInv'
  BY <1>1, FilesStay DEF ReplayInv
<1>4. HistoryInv'
  BY <1>1, HistoryStays DEF ReplayInv
<1>5. CountInv'
  BY <1>1, <1>2 DEF ReplayInv, CountInv
<1>6. QED
  BY <1>2, <1>3, <1>4, <1>5 DEF ReplayInv

LEMMA ChangeStep ==
    ASSUME ReplayInv, ChangeFile
    PROVE  ReplayInv'
<1>1. Others /\ UNCHANGED history /\ issued' = issued /\ commands' = commands
  BY DEF ChangeFile, history
<1>2. cmd' = cmd
  BY <1>1 DEF Others, WriteInPlace, Replace, HardLink, Unlink
<1>3. FilesInv' /\ StampsMove
  BY <1>1, OthersKeepFiles DEF ReplayInv
<1>4. CommandInv'
  BY <1>1, <1>2, <1>3, CommandStays DEF ReplayInv
<1>5. HistoryInv'
  BY <1>1, HistoryStays DEF ReplayInv
<1>6. QED
  BY <1>1, <1>2, <1>3, <1>4, <1>5 DEF ReplayInv, CountInv

LEMMA StillStep ==
    ASSUME ReplayInv, UNCHANGED <<names, inodes, cmd, commands>>, UNCHANGED history
    PROVE  ReplayInv'
<1>1. issued' = issued
  BY DEF history
<1>2. FilesInv'
  BY <1>1, FilesStay DEF ReplayInv
<1>3. CommandInv'
  BY <1>1, StampsStay, CommandStays DEF ReplayInv
<1>4. HistoryInv'
  BY HistoryStays DEF ReplayInv
<1>5. QED
  BY <1>2, <1>3, <1>4 DEF ReplayInv, CountInv

LEMMA ReplayStep ==
    ASSUME ReplayInv, [Next]_vars
    PROVE  ReplayInv'
<1>1. CASE Start
  BY <1>1, StartStep
<1>2. CASE ReadInput
  BY <1>2, ReadStep
<1>3. CASE Command
  BY <1>3, CanonicalizeStep, BuildStep, IssueValidatedStep, IssueReceiptStep, VerifyStep DEF Command
<1>4. CASE ChangeFile
  BY <1>4, ChangeStep
<1>5. CASE Scan
  BY <1>5, StillStep DEF Scan, history
<1>6. CASE UNCHANGED vars
  BY <1>6, StillStep DEF vars, history
<1>7. QED
  BY <1>1, <1>2, <1>3, <1>4, <1>5, <1>6 DEF Next

(* A set in some order: each of its elements has a place.                  *)
LEMMA SetInOrder ==
    ASSUME NEW S, IsFiniteSet(S)
    PROVE  /\ Cardinality(S) \in Nat
           /\ SetToSeq(S) \in [1..Cardinality(S) -> S]
           /\ \A x \in S : \E i \in 1..Cardinality(S) : SetToSeq(S)[i] = x
<1>1. PICK n : n = Cardinality(S)
  OBVIOUS
<1>2. n \in Nat /\ ExistsBijection(1..n, S)
  BY <1>1, FS_CardinalityType
<1>3. \E g \in [1..n -> S] : IsInjective(g)
  BY <1>2 DEF ExistsBijection, Bijection, Injection, Surjection, IsInjective
<1>4. PICK s : s = SetToSeq(S)
  OBVIOUS
<1>5. s \in [1..n -> S] /\ IsInjective(s)
  BY <1>1, <1>3, <1>4 DEF SetToSeq
<1>6. s \in Injection(1..n, S)
  BY <1>5 DEF Injection, IsInjective
<1>7. Cardinality(1..n) = n /\ IsFiniteSet(1..n)
  BY <1>2, FS_Interval
<1>8. s \in Surjection(1..n, S)
  BY <1>1, <1>6, <1>7, FS_Injection
<1>9. QED
  BY <1>1, <1>2, <1>4, <1>5, <1>8 DEF Surjection

LEMMA InitialFilesOK ==
    ASSUME NEW contents \in InitialFiles, FilesOf(contents)
    PROVE  FilesInv
<1>1. PICK S, present : S = {f \in Files : contents[f] # <<>>} /\ present = SetToSeq(S)
  OBVIOUS
<1>2. IsFiniteSet(S)
  BY <1>1, FilesAssumption, FS_Subset
<1>3. PICK n : n = Cardinality(S)
  OBVIOUS
<1>4. n \in Nat /\ present \in [1..n -> S] /\ \A x \in S : \E i \in 1..n : present[i] = x
  BY <1>1, <1>2, <1>3, SetInOrder
<1>5. /\ inodes = [i \in DOMAIN present |-> [content |-> contents[present[i]], stamp |-> 0, private |-> TRUE]]
      /\ names = [f \in Files |-> IF contents[f] = <<>> THEN Absent
                                  ELSE CHOOSE i \in DOMAIN present : present[i] = f]
  BY <1>1 DEF FilesOf
<1>6. DOMAIN present = 1..n
  BY <1>4
<1>7. IsSeq(inodes) /\ DOMAIN inodes = 1..n
  <2>1. inodes = [i \in 1..n |-> inodes[i]]
    BY <1>5, <1>6
  <2>2. QED
    BY <1>4, <2>1, SeqOfFunction
<1>8. ASSUME NEW i \in DOMAIN inodes PROVE InodeOK(inodes[i])
  <2>1. PICK f : f = present[i]
    OBVIOUS
  <2>2. f \in Files /\ contents[f] # <<>>
    BY <1>1, <1>4, <1>7, <2>1
  <2>3. PICK c : c = contents[f]
    OBVIOUS
  <2>4. c \in {d[f] : d \in {e \in InitialFiles : e[f] # <<>>}}
    BY <2>2, <2>3
  <2>5. c \in FoundAs(f)
    BY <2>4 DEF FoundAs
  <2>6. ContentOK(c)
    BY <2>2, <2>5 DEF ContentOK, Foreign
  <2>7. inodes[i] = [content |-> c, stamp |-> 0, private |-> TRUE]
    BY <1>5, <1>6, <1>7, <2>1, <2>3
  <2>8. QED
    BY <2>6, <2>7, NewInodeOK
<1>9. names \in [Files -> {Symlink, Absent} \cup DOMAIN inodes]
  <2>1. ASSUME NEW f \in Files PROVE names[f] \in {Symlink, Absent} \cup DOMAIN inodes
    <3>1. CASE contents[f] = <<>>
      BY <1>5, <3>1
    <3>2. CASE contents[f] # <<>>
      <4>1. f \in S
        BY <1>1, <3>2
      <4>2. \E i \in DOMAIN present : present[i] = f
        BY <1>4, <1>6, <4>1
      <4>3. names[f] = CHOOSE i \in DOMAIN present : present[i] = f
        BY <1>5, <3>2
      <4>4. names[f] \in DOMAIN present
        BY <4>2, <4>3
      <4>5. QED
        BY <1>6, <1>7, <4>4
    <3>3. QED
      BY <3>1, <3>2
  <2>2. QED
    BY <1>5, <2>1
<1>10. QED
  BY <1>7, <1>8, <1>9 DEF FilesInv

LEMMA ReplayInit ==
    ASSUME Init
    PROVE  ReplayInv
<1>1. FilesInv
  BY InitialFilesOK DEF Init
<1>2. CommandInv
  <2>1. cmd = [op |-> "none", args |-> <<>>, step |-> "idle", todo |-> <<>>, gate |-> <<>>,
               snaps |-> <<>>, code |-> "none"]
    BY DEF Init, IdleCommand
  <2>2. QED
    BY <2>1, SeqEmpty DEF CommandInv
<1>3. CountInv
  BY FilesAssumption, CodesKnown DEF Init, IdleCommand, CountInv
<1>4. HistoryInv
  <2>1. issued = EarlierReceipts /\ verified = {} /\ built = EarlierBuilt
    BY DEF Init
  <2>2. \A b \in EarlierBuilt : b.trace \in KnownTraces
    BY DEF KnownTraces
  <2>3. QED
    BY <2>1, <2>2, AuthorityAssumption
       DEF HistoryInv, VerifiedIsRecomputed, ValuesAreEvidenced, VerifiedWasIssued
<1>5. QED
  BY <1>1, <1>2, <1>3, <1>4 DEF ReplayInv

LEMMA GenuineFromInv ==
    ASSUME ReplayInv
    PROVE  ReplayIsGenuine
<1>1. TypeOK
  <2>1. names \in [Files -> {Symlink, Absent} \cup DOMAIN inodes]
    BY DEF ReplayInv, FilesInv
  <2>2. cmd.step \in {"idle", "next", "reading"} /\ commands \in 0..MaxCommands
    BY DEF ReplayInv, CommandInv, CountInv
  <2>3. Len(cmd.snaps) + Len(cmd.todo) <= 6
    <3>1. CASE cmd.step = "idle"
      <4>1. cmd.snaps = <<>> /\ cmd.todo = <<>>
        BY <3>1 DEF ReplayInv, CommandInv
      <4>2. QED
        BY <4>1, SeqEmpty
    <3>2. CASE cmd.step # "idle"
      <4>1. PlanInv
        BY <3>2 DEF ReplayInv, CommandInv
      <4>2. PICK op, n : op = cmd.op /\ n = Len(cmd.snaps) + Len(cmd.todo)
        OBVIOUS
      <4>3. op \in DOMAIN Inputs /\ (n = Len(Inputs[op]) \/ (op = "issue" /\ n = 3))
        BY <4>1, <4>2, Zenon DEF PlanInv, Plan
      <4>4. n <= 6
        <5>1. CASE op = "verify"
          BY <5>1, <4>3, Plans
        <5>2. CASE op = "issue"
          BY <5>2, <4>3, Plans
        <5>3. CASE op = "canonicalize"
          BY <5>3, <4>3, Plans
        <5>4. CASE op = "build"
          BY <5>4, <4>3, Plans
        <5>5. QED
          BY <4>3, <5>1, <5>2, <5>3, <5>4, Plans
      <4>5. QED
        BY <4>2, <4>4
    <3>3. QED
      BY <3>1, <3>2
  <2>4. cmd.code \in Codes
    BY DEF ReplayInv, CountInv
  <2>5. QED
    BY <2>1, <2>2, <2>3, <2>4 DEF TypeOK, Codes
<1>2. VerifiedIsRecomputed /\ ValuesAreEvidenced /\ VerifiedWasIssued
  BY DEF ReplayInv, HistoryInv
<1>3. DigestBindsTrace
  <2> SUFFICES ASSUME NEW a \in built, NEW b \in built,
                      a.candidate.trajectory_digest = b.candidate.trajectory_digest
               PROVE  a.trace = b.trace
    BY DEF DigestBindsTrace
  <2>1. /\ a.candidate = ReplayCandidate(a.trace) /\ a.trace \in KnownTraces
        /\ b.candidate = ReplayCandidate(b.trace) /\ b.trace \in KnownTraces
    BY Zenon DEF ReplayInv, HistoryInv
  <2>2. QED
    BY <2>1, DigestStandsForOneTrace
<1>4. SnapshotsAreWhole
  BY DEF ReplayInv, CommandInv, SnapOK, SnapshotsAreWhole
<1>5. QED
  BY <1>1, <1>2, <1>3, <1>4 DEF ReplayIsGenuine

(* Whatever the files hold and whenever others change them: what verify    *)
(* publishes was signed for under the trusted key and epoch, can be        *)
(* recomputed from the records it was checked against, cites evidence for  *)
(* each value, and was computed from files read as they were at one        *)
(* moment; digests of published candidates stand for one trace.            *)
THEOREM ReplayGenuine == Spec => []ReplayIsGenuine
<1>1. Init => ReplayInv
  BY ReplayInit
<1>2. ReplayInv /\ [Next]_vars => ReplayInv'
  BY ReplayStep
<1>3. ReplayInv => ReplayIsGenuine
  BY GenuineFromInv
<1>4. QED
  BY <1>1, <1>2, <1>3, PTL DEF Spec
=============================================================================

--------------------------- MODULE ExecutedProofs ---------------------------
(***************************************************************************)
(* Proofs about the executed composition: every verdict of the checker is  *)
(* sound, whatever the requests, the limits and the changed record.        *)
(***************************************************************************)
EXTENDS ExecutedComposition, SequenceTheorems, FiniteSetTheorems, NaturalsInduction,
        WellFoundedInduction, TLAPS

(* Induction over the naturals, for a set of them.                         *)
LEMMA SetInduction ==
    ASSUME NEW T, 0 \in T, \A n \in Nat : n \in T => n + 1 \in T
    PROVE  Nat \subseteq T
<1> DEFINE out == Nat \ T
<1> SUFFICES ASSUME out # {} PROVE FALSE
  OBVIOUS
<1>1. PICK n \in out : \A j \in out : ~(<<j, n>> \in OpToRel(<, Nat))
  BY WFMin, NatLessThanWellFounded, Zenon
<1>2. n \in Nat /\ n # 0 /\ n - 1 \in Nat /\ n - 1 < n
  OBVIOUS
<1>3. n - 1 \notin out
  BY <1>1, <1>2 DEF OpToRel
<1>4. QED
  BY <1>2, <1>3

(* The loop's states exist, and each follows from the one before.          *)
LEMMA ScansExist ==
    ASSUME NEW run
    PROVE  \A n \in Nat : \E g : g = [k \in 0..n |->
             IF k = 0 THEN InitialScan
             ELSE IF g[k - 1].error # "none" THEN g[k - 1] ELSE ScanEvent(run, g[k - 1], k)]
<1> DEFINE step(s, k) == IF s.error # "none" THEN s ELSE ScanEvent(run, s, k)
           good(n) == \E g : g = [k \in 0..n |-> IF k = 0 THEN InitialScan ELSE step(g[k - 1], k)]
           T == {n \in Nat : good(n)}
<1>1. 0 \in T
  <2>1. PICK g : g = [k \in 0..0 |-> InitialScan]
    OBVIOUS
  <2>2. g = [k \in 0..0 |-> IF k = 0 THEN InitialScan ELSE step(g[k - 1], k)]
    BY <2>1
  <2>3. QED
    BY <2>2
<1>2. ASSUME NEW n \in Nat, n \in T PROVE n + 1 \in T
  <2> HIDE DEF step
  <2>1. PICK g : g = [k \in 0..n |-> IF k = 0 THEN InitialScan ELSE step(g[k - 1], k)]
    BY <1>2
  <2>2. PICK h : h = [k \in 0..(n + 1) |-> IF k = n + 1 THEN step(g[n], n + 1) ELSE g[k]]
    OBVIOUS
  <2>3. \A k \in 0..(n + 1) : h[k] = IF k = 0 THEN InitialScan ELSE step(h[k - 1], k)
    <3> TAKE k \in 0..(n + 1)
    <3>1. CASE k = 0
      BY <3>1, <2>1, <2>2
    <3>2. CASE k \in 1..n
      <4>1. k - 1 \in 0..n /\ k \in 0..n /\ k # n + 1 /\ k - 1 # n + 1 /\ k - 1 \in 0..(n + 1)
        BY <3>2
      <4>2. h[k] = g[k] /\ h[k - 1] = g[k - 1]
        BY <4>1, <2>2
      <4>3. QED
        BY <4>1, <4>2, <2>1, <3>2
    <3>3. CASE k = n + 1
      <4>1. k - 1 = n /\ h[n] = g[n] /\ h[k] = step(g[n], n + 1) /\ k # 0
        BY <3>3, <2>2
      <4>2. QED
        BY <4>1, <3>3
    <3>4. QED
      BY <3>1, <3>2, <3>3
  <2>4. h = [k \in 0..(n + 1) |-> IF k = 0 THEN InitialScan ELSE step(h[k - 1], k)]
    BY <2>2, <2>3
  <2>5. QED
    BY <2>4
<1>3. Nat \subseteq T
  <2> HIDE DEF T
  <2> QED BY <1>1, <1>2, SetInduction
<1>4. QED
  BY <1>3

LEMMA ScansUnfold ==
    ASSUME NEW run, run.events \in Seq(Range(run.events))
    PROVE  /\ Scans(run)[0] = InitialScan
           /\ \A k \in 1..Len(run.events) :
                Scans(run)[k] = IF Scans(run)[k - 1].error # "none" THEN Scans(run)[k - 1]
                                ELSE ScanEvent(run, Scans(run)[k - 1], k)
<1> DEFINE n == Len(run.events)
<1>1. n \in Nat
  OBVIOUS
<1>2. PICK g : g = [k \in 0..n |->
             IF k = 0 THEN InitialScan
             ELSE IF g[k - 1].error # "none" THEN g[k - 1] ELSE ScanEvent(run, g[k - 1], k)]
  BY <1>1, ScansExist
<1> DEFINE F == Scans(run)
<1>3. F = [k \in 0..n |->
             IF k = 0 THEN InitialScan
             ELSE IF F[k - 1].error # "none" THEN F[k - 1] ELSE ScanEvent(run, F[k - 1], k)]
  BY <1>2, Zenon DEF Scans
<1> HIDE DEF F
<1>4. F[0] = InitialScan
  BY <1>1, <1>3
<1>5. ASSUME NEW k \in 1..n
      PROVE F[k] = IF F[k - 1].error # "none" THEN F[k - 1] ELSE ScanEvent(run, F[k - 1], k)
  <2>1. k \in 0..n /\ k # 0
    BY <1>1
  <2>2. QED
    BY <1>3, <2>1, Zenon
<1>6. QED
  BY <1>4, <1>5 DEF F

Fragment == <<"fragment-A", "fragment-B">>
Contents == {"fragment-A", "fragment-B", "summary"}
Bits(exposed) == (IF exposed[1] = <<>> THEN 0 ELSE 2) + (IF exposed[2] = <<>> THEN 0 ELSE 1)
Shows(e, c) == e.channel = "public" /\ e.effect = c

ScanShape(s) ==
    /\ s = [error |-> s.error, state |-> s.state, public |-> s.public, vault |-> s.vault,
            exposed |-> s.exposed, first |-> s.first, local |-> s.local,
            permitted |-> s.permitted, conventional |-> s.conventional]
    /\ s.exposed = <<s.exposed[1], s.exposed[2]>>

(* What an event that passes the checks says, and what it leads to.        *)
EventStep(run, s, t, k, actor) ==
    LET e == run.events[k]
        exposes == e.channel = "public" /\ e.payload = "fragment"
        chosen == e.decision = "permit"
    IN /\ run.principals[actor] = e.principal
       /\ {e.local, e.decision} \subseteq {"permit", "deny"}
       /\ e.effect = IF chosen THEN Content(actor, e.payload) ELSE ""
       /\ run.guarded => (chosen <=> e.local = "permit" /\ Baseline(s, actor, exposes))
       /\ t.exposed = IF chosen /\ exposes /\ s.exposed[actor] = <<>>
                      THEN [s.exposed EXCEPT ![actor] = <<k - 1>>] ELSE s.exposed
       /\ t.state = Bits(t.exposed)
       /\ t.public = IF chosen /\ e.channel = "public" THEN Append(s.public, e.effect) ELSE s.public
       /\ t.vault = IF chosen /\ e.channel = "vault" THEN Append(s.vault, e.effect) ELSE s.vault
       /\ t.first = FirstForbidden(s, t.state, k)

LEMMA PairExcept ==
    ASSUME NEW x, NEW y, NEW a, NEW v
    PROVE  \E p, q : [<<x, y>> EXCEPT ![a] = v] = <<p, q>>
<1>1. CASE a = 1
  <2>1. [<<x, y>> EXCEPT ![a] = v] = <<v, y>>
    BY <1>1
  <2> QED BY <2>1
<1>2. CASE a = 2
  <2>1. [<<x, y>> EXCEPT ![a] = v] = <<x, v>>
    BY <1>2
  <2> QED BY <2>1
<1>3. CASE a # 1 /\ a # 2
  <2>1. [<<x, y>> EXCEPT ![a] = v] = <<x, y>>
    BY <1>3
  <2> QED BY <2>1
<1> QED BY <1>1, <1>2, <1>3

LEMMA ScanEventFacts ==
    ASSUME NEW run, NEW s, NEW k, ScanShape(s), s.error = "none", run.guarded \in BOOLEAN
    PROVE  /\ ScanShape(ScanEvent(run, s, k))
           /\ ScanEvent(run, s, k).error = "none" =>
                \E actor \in 1..2 : EventStep(run, s, ScanEvent(run, s, k), k, actor)
<1> DEFINE e == run.events[k]
        known == {a \in 1..2 : run.principals[a] = e.principal}
        actor == CHOOSE a \in known : TRUE
        scope == Delegated(run.grants, e.principal, e.channel, e.payload)
        auth == e.auth = "yes"
        row == Transition(s.state, actor, e.payload, e.channel, auth, scope)
        chosen == Chosen(run, row)
        expected == IF chosen THEN Content(actor, e.payload) ELSE ""
        exposes == e.channel = "public" /\ e.payload = "fragment"
        conventional == auth /\ scope /\ Baseline(s, actor, exposes)
        dispatched == IF run.guarded THEN conventional ELSE auth /\ scope
        exposed == IF chosen /\ exposes /\ s.exposed[actor] = <<>>
                   THEN [s.exposed EXCEPT ![actor] = <<k - 1>>] ELSE s.exposed
        state == IF run.guarded THEN row.guardedNext ELSE row.unguardedNext
        bits == (IF exposed[1] = <<>> THEN 0 ELSE 2) + (IF exposed[2] = <<>> THEN 0 ELSE 1)
        failed(why) == [s EXCEPT !.error = why]
        next == [error |-> "none", state |-> state, exposed |-> exposed,
             public |-> IF chosen /\ e.channel = "public" THEN Append(s.public, expected) ELSE s.public,
             vault |-> IF chosen /\ e.channel = "vault" THEN Append(s.vault, expected) ELSE s.vault,
             first |-> FirstForbidden(s, state, k),
             local |-> s.local /\ row.local, permitted |-> s.permitted /\ chosen,
             conventional |-> s.conventional /\ conventional]
        t == ScanEvent(run, s, k)
<1>1. t = IF known = {} THEN failed("undeclared principal")
       ELSE IF e.index # k - 1 THEN failed("order")
       ELSE IF e.local # Decide(row.local) \/ e.decision # Decide(chosen) \/ e.effect # expected
       THEN failed("decision or effect")
       ELSE IF dispatched # chosen THEN failed("baseline")
       ELSE IF state # bits THEN failed("abstraction")
       ELSE next
  BY Zenon DEF ScanEvent
<1>2. row.local = (auth /\ scope)
  BY DEF Transition
<1>3. (auth /\ scope) \in BOOLEAN /\ scope \in BOOLEAN
  BY DEF Delegated
<1>4. exposed = <<exposed[1], exposed[2]>>
  <2>1. PICK x, y : s.exposed = <<x, y>>
    BY DEF ScanShape
  <2>2. \A a, v : \E p, q : [<<x, y>> EXCEPT ![a] = v] = <<p, q>>
    BY PairExcept
  <2>3. PICK p, q : [<<x, y>> EXCEPT ![actor] = <<k - 1>>] = <<p, q>>
    <3> HIDE DEF actor
    <3> QED BY <2>2, Zenon
  <2>4. exposed = <<p, q>> \/ exposed = <<x, y>>
    <3> HIDE DEF actor, chosen, exposes
    <3> QED BY <2>1, <2>3, Zenon
  <2> HIDE DEF exposed
  <2>5. QED
    BY <2>4
<1> HIDE DEF t
<1>5. CASE t = next /\ known # {} /\ e.local = Decide(row.local) /\ e.decision = Decide(chosen)
           /\ e.effect = expected /\ dispatched = chosen /\ state = bits
  <2>1. /\ t.error = "none" /\ t.state = state /\ t.exposed = exposed
        /\ t.public = (IF chosen /\ e.channel = "public" THEN Append(s.public, expected) ELSE s.public)
        /\ t.vault = (IF chosen /\ e.channel = "vault" THEN Append(s.vault, expected) ELSE s.vault)
        /\ t.first = FirstForbidden(s, state, k)
    BY <1>5
  <2>2. t = [error |-> t.error, state |-> t.state, public |-> t.public, vault |-> t.vault,
            exposed |-> t.exposed, first |-> t.first, local |-> t.local,
            permitted |-> t.permitted, conventional |-> t.conventional]
    BY <1>5
  <2>3. ScanShape(t)
    BY <2>1, <2>2, <1>4 DEF ScanShape
  <2>4. actor \in 1..2 /\ run.principals[actor] = e.principal
    BY <1>5
  <2>5. chosen = dispatched /\ dispatched \in BOOLEAN
    BY <1>5, <1>3 DEF Baseline
  <2>6. run.guarded => (dispatched <=> (auth /\ scope) /\ Baseline(s, actor, exposes))
    BY <1>3
  <2> DEFINE loc == auth /\ scope
  <2>7. e.local = Decide(loc)
    BY <1>5, <1>2
  <2> HIDE DEF row, chosen, dispatched, scope, auth, actor, exposes
  <2>8. e.decision \in {"permit", "deny"} /\ (e.decision = "permit" <=> chosen)
    BY <2>5, <1>5 DEF Decide
  <2>10. e.local \in {"permit", "deny"} /\ (e.local = "permit" <=> loc)
    BY <2>7, <1>3 DEF Decide
  <2>11. run.guarded => (e.decision = "permit" <=> e.local = "permit" /\ Baseline(s, actor, exposes))
    BY <2>5, <2>6, <2>8, <2>10
  <2>12. EventStep(run, s, t, k, actor)
    BY <2>1, <2>4, <2>8, <2>10, <2>11, <1>5 DEF EventStep, exposes, Bits
  <2>9. QED
    BY <2>3, <2>4, <2>12 DEF t
<1>6. CASE \E why \in {"undeclared principal", "order", "decision or effect", "baseline", "abstraction"} : t = failed(why)
  <2>1. PICK why \in {"undeclared principal", "order", "decision or effect", "baseline", "abstraction"} : t = failed(why)
    BY <1>6
  <2>2. t = [error |-> why, state |-> s.state, public |-> s.public, vault |-> s.vault,
            exposed |-> s.exposed, first |-> s.first, local |-> s.local,
            permitted |-> s.permitted, conventional |-> s.conventional]
    BY <2>1 DEF ScanShape
  <2>3. t.error # "none" /\ ScanShape(t)
    BY <2>1, <2>2 DEF ScanShape
  <2>4. QED
    BY <2>3 DEF t
<1> HIDE DEF known, row, chosen, expected, dispatched, state, bits, failed, next
<1>7. QED
  BY <1>1, <1>5, <1>6

-----------------------------------------------------------------------------
(* The loop invariant of the checker.                                      *)

Scannable(run) ==
    /\ run.guarded \in BOOLEAN /\ run.events \in Seq(Range(run.events))
    /\ \A k \in 1..Len(run.events) : run.events[k].channel \in Channels /\ run.events[k].payload \in Payloads

(* A fragment no event among the first n showed to the public, and one of  *)
(* which the place of the first delivery is known.                         *)
Hidden(run, s, n, a) ==
    /\ s.exposed[a] = <<>>
    /\ \A k \in 1..n : ~Shows(run.events[k], Fragment[a])
    /\ \A j \in 1..Len(s.public) : s.public[j] # Fragment[a]
FoundAt(run, s, n, a, p) ==
    /\ p \in 1..n /\ s.exposed[a] = <<p - 1>> /\ Shows(run.events[p], Fragment[a])
    /\ \A k \in 1..(p - 1) : ~Shows(run.events[k], Fragment[a])
    /\ \E j \in 1..Len(s.public) : s.public[j] = Fragment[a]
Exposure(run, s, n, a) == Hidden(run, s, n, a) \/ \E p \in 1..n : FoundAt(run, s, n, a, p)

(* The first event after which both fragments are out.                     *)
Completion(run, s, n) ==
    \/ s.first = <<>> /\ s.state # 3
    \/ \E f, p, q \in 1..n : /\ FoundAt(run, s, n, 1, p) /\ FoundAt(run, s, n, 2, q)
                             /\ s.first = <<f - 1>> /\ p <= f /\ q <= f /\ f \in {p, q}

LoopInv(run, s, n) ==
    /\ s.state = Bits(s.exposed) /\ s.public \in Seq(Contents)
    /\ \A a \in 1..2 : Exposure(run, s, n, a)
    /\ Completion(run, s, n)
    /\ run.guarded => s.state # 3

LEMMA EventShows ==
    ASSUME NEW run, NEW s, NEW t, NEW k, NEW actor \in 1..2,
           EventStep(run, s, t, k, actor),
           run.events[k].channel \in Channels, run.events[k].payload \in Payloads
    PROVE  LET e == run.events[k]
               exposes == e.channel = "public" /\ e.payload = "fragment"
               chosen == e.decision = "permit"
           IN /\ chosen => e.effect \in Contents
              /\ \A a \in 1..2 : Shows(e, Fragment[a]) <=> chosen /\ exposes /\ a = actor
              /\ \A a \in 1..2 : chosen /\ e.effect = Fragment[a] /\ e.channel = "public"
                                    => exposes /\ a = actor
<1> DEFINE e == run.events[k]
           chosen == e.decision = "permit"
<1>1. e.effect = IF chosen THEN Content(actor, e.payload) ELSE ""
  BY DEF EventStep
<1>2. Content(actor, e.payload) = IF e.payload = "summary" THEN "summary" ELSE Fragment[actor]
  BY DEF Content, Fragment
<1>3. /\ Fragment[1] = "fragment-A" /\ Fragment[2] = "fragment-B"
      /\ \A a \in 1..2 : Fragment[a] \in {"fragment-A", "fragment-B"}
      /\ \A a, b \in 1..2 : Fragment[a] = Fragment[b] => a = b
  BY DEF Fragment
<1> HIDE DEF e
<1>4. e.payload = "fragment" \/ e.payload = "summary"
  BY DEF e, Payloads
<1>5. CASE ~chosen
  <2>1. e.effect = ""
    BY <1>1, <1>5
  <2>2. QED
    BY <2>1, <1>3, <1>5 DEF Shows, e
<1>6. CASE chosen /\ e.payload = "summary"
  <2>1. e.effect = "summary"
    BY <1>1, <1>2, <1>6
  <2>2. QED
    BY <2>1, <1>3, <1>6 DEF Shows, e, Contents
<1>7. CASE chosen /\ e.payload = "fragment"
  <2>1. e.effect = Fragment[actor]
    BY <1>1, <1>2, <1>7
  <2>2. QED
    BY <2>1, <1>3, <1>7 DEF Shows, e, Contents
<1>8. QED
  BY <1>4, <1>5, <1>6, <1>7

LEMMA InitialLoop ==
    ASSUME NEW run
    PROVE  ScanShape(InitialScan) /\ LoopInv(run, InitialScan, 0) /\ InitialScan.error = "none"
<1>1. ScanShape(InitialScan) /\ InitialScan.error = "none"
  BY DEF ScanShape, InitialScan
<1>2. /\ InitialScan.exposed[1] = <<>> /\ InitialScan.exposed[2] = <<>> /\ InitialScan.state = 0
      /\ InitialScan.public = <<>> /\ InitialScan.first = <<>>
  BY DEF InitialScan
<1>3. \A a \in 1..2 : InitialScan.exposed[a] = <<>>
  BY <1>2
<1>4. InitialScan.public \in Seq(Contents) /\ Len(InitialScan.public) = 0
  BY <1>2
<1>5. QED
  BY <1>1, <1>2, <1>3, <1>4 DEF LoopInv, Exposure, Hidden, Completion, Bits

(* One event more, for the fragment of one principal.                      *)
LEMMA ExposureStep ==
    ASSUME NEW run, Scannable(run), NEW n \in Nat, n + 1 <= Len(run.events),
           NEW s, NEW t, ScanShape(s), s.public \in Seq(Contents),
           NEW actor \in 1..2,
           NEW k, k = n + 1, EventStep(run, s, t, k, actor),
           NEW a \in 1..2, Exposure(run, s, n, a)
    PROVE  /\ Hidden(run, s, n, a) /\ Shows(run.events[k], Fragment[a])
                => FoundAt(run, t, n + 1, a, n + 1)
           /\ Hidden(run, s, n, a) /\ ~Shows(run.events[k], Fragment[a])
                => Hidden(run, t, n + 1, a)
           /\ \A p \in 1..n : FoundAt(run, s, n, a, p) => FoundAt(run, t, n + 1, a, p)
<1> DEFINE e == run.events[k]
           exposes == e.channel = "public" /\ e.payload = "fragment"
           chosen == e.decision = "permit"
           added == chosen /\ e.channel = "public"
<1>1. e.channel \in Channels /\ e.payload \in Payloads
  BY DEF Scannable
<1>2. /\ chosen => e.effect \in Contents
      /\ \A b \in 1..2 : Shows(e, Fragment[b]) <=> chosen /\ exposes /\ b = actor
      /\ \A b \in 1..2 : chosen /\ e.effect = Fragment[b] /\ e.channel = "public" => exposes /\ b = actor
  BY <1>1, EventShows
<1>3. /\ t.exposed = IF chosen /\ exposes /\ s.exposed[actor] = <<>>
                     THEN [s.exposed EXCEPT ![actor] = <<k - 1>>] ELSE s.exposed
      /\ t.public = IF chosen /\ e.channel = "public" THEN Append(s.public, e.effect) ELSE s.public
  BY DEF EventStep
<1>4. Shows(e, Fragment[a]) <=> chosen /\ exposes /\ a = actor
  BY <1>2
<1>5. \A j \in 1..Len(s.public) : j \in 1..Len(t.public) /\ t.public[j] = s.public[j]
  BY <1>3, <1>2, AppendProperties
<1>6. DOMAIN s.exposed = 1..2
  BY DEF ScanShape
<1>7. t.exposed[a] = IF Shows(e, Fragment[a]) /\ s.exposed[a] = <<>> THEN <<n>> ELSE s.exposed[a]
  <2>1. CASE chosen /\ exposes /\ s.exposed[actor] = <<>>
    <3>1. t.exposed = [s.exposed EXCEPT ![actor] = <<n>>]
      BY <1>3, <2>1
    <3>2. QED
      BY <3>1, <2>1, <1>4, <1>6
  <2>2. CASE ~(chosen /\ exposes /\ s.exposed[actor] = <<>>)
    BY <2>2, <1>3, <1>4
  <2>3. QED
    BY <2>1, <2>2
<1> HIDE DEF e
<1>8. Hidden(run, s, n, a) /\ Shows(e, Fragment[a]) => FoundAt(run, t, n + 1, a, n + 1)
  <2> SUFFICES ASSUME Hidden(run, s, n, a), Shows(e, Fragment[a]) PROVE FoundAt(run, t, n + 1, a, n + 1)
    OBVIOUS
  <2>1. t.exposed[a] = <<n + 1 - 1>> /\ n + 1 \in 1..(n + 1)
    BY <1>7 DEF Hidden
  <2>2. \A m \in 1..(n + 1 - 1) : ~Shows(run.events[m], Fragment[a])
    BY DEF Hidden
  <2>3. \E j \in 1..Len(t.public) : t.public[j] = Fragment[a]
    <3>1. t.public = Append(s.public, e.effect) /\ e.effect = Fragment[a] /\ e.effect \in Contents
      BY <1>2, <1>3, <1>4 DEF Shows
    <3>2. QED
      BY <3>1, AppendProperties
  <2>4. QED
    BY <2>1, <2>2, <2>3 DEF FoundAt, e
<1>9. Hidden(run, s, n, a) /\ ~Shows(e, Fragment[a]) => Hidden(run, t, n + 1, a)
  <2> SUFFICES ASSUME Hidden(run, s, n, a), ~Shows(e, Fragment[a]) PROVE Hidden(run, t, n + 1, a)
    OBVIOUS
  <2>1. t.exposed[a] = <<>>
    BY <1>7 DEF Hidden
  <2>2. \A m \in 1..(n + 1) : ~Shows(run.events[m], Fragment[a])
    <3> TAKE m \in 1..(n + 1)
    <3>1. m \in 1..n \/ m = k
      OBVIOUS
    <3>2. QED
      BY <3>1 DEF Hidden, e
  <2>3. \A j \in 1..Len(t.public) : t.public[j] # Fragment[a]
    <3>1. CASE added
      <4>1. t.public = Append(s.public, e.effect) /\ e.effect \in Contents
        BY <3>1, <1>2, <1>3
      <4>2. e.effect # Fragment[a]
        BY <3>1, <1>2, <1>4
      <4>3. QED
        BY <4>1, <4>2, AppendProperties DEF Hidden
    <3>2. CASE ~added
      BY <3>2, <1>3 DEF Hidden
    <3>3. QED
      BY <3>1, <3>2
  <2>4. QED
    BY <2>1, <2>2, <2>3 DEF Hidden
<1>10. ASSUME NEW p \in 1..n, FoundAt(run, s, n, a, p) PROVE FoundAt(run, t, n + 1, a, p)
  <2>1. s.exposed[a] = <<p - 1>> /\ <<p - 1>> # <<>>
    BY <1>10 DEF FoundAt
  <2>2. t.exposed[a] = <<p - 1>>
    BY <2>1, <1>7
  <2>3. \E j \in 1..Len(t.public) : t.public[j] = Fragment[a]
    BY <1>5, <1>10 DEF FoundAt
  <2>4. p \in 1..(n + 1)
    OBVIOUS
  <2>5. QED
    BY <2>2, <2>3, <2>4, <1>10 DEF FoundAt
<1>11. QED
  BY <1>8, <1>9, <1>10 DEF e

LEMMA LoopStep ==
    ASSUME NEW run, Scannable(run), NEW n \in Nat, n + 1 <= Len(run.events),
           NEW s, NEW t, ScanShape(s), ScanShape(t), LoopInv(run, s, n),
           NEW actor \in 1..2,
           NEW k, k = n + 1, EventStep(run, s, t, k, actor)
    PROVE  LoopInv(run, t, n + 1)
<1> DEFINE e == run.events[k]
           exposes == e.channel = "public" /\ e.payload = "fragment"
           chosen == e.decision = "permit"
<1>1. e.channel \in Channels /\ e.payload \in Payloads
  BY DEF Scannable
<1>2. /\ chosen => e.effect \in Contents
      /\ \A b \in 1..2 : Shows(e, Fragment[b]) <=> chosen /\ exposes /\ b = actor
  BY <1>1, EventShows
<1>3. /\ t.public = IF chosen /\ e.channel = "public" THEN Append(s.public, e.effect) ELSE s.public
      /\ t.state = Bits(t.exposed) /\ t.first = FirstForbidden(s, t.state, k)
      /\ run.guarded => (chosen <=> e.local = "permit" /\ Baseline(s, actor, exposes))
  BY DEF EventStep
<1>4. s.public \in Seq(Contents) /\ s.state = Bits(s.exposed) /\ \A a \in 1..2 : Exposure(run, s, n, a)
  BY DEF LoopInv
<1>5. t.public \in Seq(Contents)
  BY <1>2, <1>3, <1>4, AppendProperties
<1>6. \A a \in 1..2 :
           /\ Hidden(run, s, n, a) /\ Shows(e, Fragment[a]) => FoundAt(run, t, n + 1, a, n + 1)
           /\ Hidden(run, s, n, a) /\ ~Shows(e, Fragment[a]) => Hidden(run, t, n + 1, a)
           /\ \A p \in 1..n : FoundAt(run, s, n, a, p) => FoundAt(run, t, n + 1, a, p)
  BY <1>4, ExposureStep
<1>7. n + 1 \in 1..(n + 1) /\ \A p \in 1..n : p \in 1..(n + 1) /\ p <= n + 1
  OBVIOUS
<1>8. \A a \in 1..2 : Exposure(run, t, n + 1, a)
  BY <1>4, <1>6, <1>7 DEF Exposure
<1>9. \A x, m, a, p : /\ Hidden(run, x, m, a) => x.exposed[a] = <<>>
                      /\ FoundAt(run, x, m, a, p) => x.exposed[a] = <<p - 1>> /\ x.exposed[a] # <<>>
  <2>1. \A v : <<v>> # <<>>
    OBVIOUS
  <2>2. QED
    BY <2>1, Zenon DEF Hidden, FoundAt
<1>10. \A x : Bits(x.exposed) = 3 <=> x.exposed[1] # <<>> /\ x.exposed[2] # <<>>
  BY DEF Bits
<1> HIDE DEF e
<1>11. Completion(run, t, n + 1)
  <2>1. CASE t.state # 3
    <3>1. s.state # 3
      <4> SUFFICES ASSUME s.state = 3 PROVE FALSE
        OBVIOUS
      <4>1. s.exposed[1] # <<>> /\ s.exposed[2] # <<>>
        BY <1>4, <1>10
      <4>2. (\E p \in 1..n : FoundAt(run, s, n, 1, p)) /\ (\E p \in 1..n : FoundAt(run, s, n, 2, p))
        BY <4>1, <1>4, <1>9 DEF Exposure
      <4>3. t.exposed[1] # <<>> /\ t.exposed[2] # <<>>
        BY <4>2, <1>6, <1>9
      <4>4. QED
        BY <4>3, <1>3, <1>10, <2>1
    <3>2. s.first = <<>>
      <4> SUFFICES ASSUME s.first # <<>> PROVE FALSE
        OBVIOUS
      <4>1. PICK f, p, q \in 1..n : FoundAt(run, s, n, 1, p) /\ FoundAt(run, s, n, 2, q)
        BY DEF LoopInv, Completion
      <4>2. s.exposed[1] # <<>> /\ s.exposed[2] # <<>>
        BY <4>1, <1>9
      <4>3. QED
        BY <4>2, <3>1, <1>4, <1>10
    <3>3. QED
      BY <3>2, <2>1, <1>3 DEF FirstForbidden, Completion
  <2>2. CASE t.state = 3 /\ s.state # 3
    <3>1. s.first = <<>>
      <4> SUFFICES ASSUME s.first # <<>> PROVE FALSE
        OBVIOUS
      <4>1. PICK f, p, q \in 1..n : FoundAt(run, s, n, 1, p) /\ FoundAt(run, s, n, 2, q)
        BY DEF LoopInv, Completion
      <4>2. s.exposed[1] # <<>> /\ s.exposed[2] # <<>>
        BY <4>1, <1>9
      <4>3. QED
        BY <4>2, <2>2, <1>4, <1>10
    <3>2. t.first = <<n + 1 - 1>>
      BY <3>1, <2>2, <1>3 DEF FirstForbidden
    <3>3. t.exposed[1] # <<>> /\ t.exposed[2] # <<>>
      BY <2>2, <1>3, <1>10
    <3>4. PICK p, q \in 1..(n + 1) : FoundAt(run, t, n + 1, 1, p) /\ FoundAt(run, t, n + 1, 2, q)
      BY <3>3, <1>8, <1>9 DEF Exposure
    <3>5. PICK a \in 1..2 : Hidden(run, s, n, a)
      <4>1. ~(s.exposed[1] # <<>> /\ s.exposed[2] # <<>>)
        BY <2>2, <1>4, <1>10
      <4>2. QED
        BY <4>1, <1>4, <1>9 DEF Exposure
    <3>6. FoundAt(run, t, n + 1, a, n + 1)
      <4>1. t.exposed[a] # <<>>
        BY <3>3
      <4>2. QED
        BY <4>1, <3>5, <1>6, <1>9
    <3>7. \A r \in 1..(n + 1) : FoundAt(run, t, n + 1, a, r) => r = n + 1
      <4> SUFFICES ASSUME NEW r \in 1..(n + 1), FoundAt(run, t, n + 1, a, r) PROVE r = n + 1
        OBVIOUS
      <4>1. t.exposed[a] = <<r - 1>> /\ t.exposed[a] = <<n + 1 - 1>>
        BY <3>6, <1>9
      <4>2. r - 1 = n + 1 - 1
        BY <4>1
      <4>3. QED
        BY <4>2
    <3>8. n + 1 \in {p, q} /\ p <= n + 1 /\ q <= n + 1
      BY <3>4, <3>7
    <3>9. QED
      BY <3>2, <3>4, <3>8, <1>7 DEF Completion
  <2>3. CASE t.state = 3 /\ s.state = 3
    <3>1. PICK f, p, q \in 1..n : /\ FoundAt(run, s, n, 1, p) /\ FoundAt(run, s, n, 2, q)
                                  /\ s.first = <<f - 1>> /\ p <= f /\ q <= f /\ f \in {p, q}
      BY <2>3 DEF LoopInv, Completion
    <3>2. t.first = <<f - 1>>
      BY <3>1, <1>3 DEF FirstForbidden
    <3>3. FoundAt(run, t, n + 1, 1, p) /\ FoundAt(run, t, n + 1, 2, q)
      BY <3>1, <1>6
    <3>4. f \in 1..(n + 1) /\ p \in 1..(n + 1) /\ q \in 1..(n + 1)
      BY <1>7
    <3>5. QED
      BY <3>1, <3>2, <3>3, <3>4 DEF Completion
  <2>4. QED
    BY <2>1, <2>2, <2>3
<1>12. run.guarded => t.state # 3
  <2> SUFFICES ASSUME run.guarded PROVE t.state # 3
    OBVIOUS
  <2>1. s.state # 3
    BY DEF LoopInv
  <2>2. ~(s.exposed[1] # <<>> /\ s.exposed[2] # <<>>)
    BY <2>1, <1>4, <1>10
  <2>3. \E a \in 1..2 : s.exposed[a] = <<>> /\ ~(chosen /\ exposes /\ a = actor)
    BY <2>2, <1>3 DEF Baseline
  <2>4. PICK a \in 1..2 : s.exposed[a] = <<>> /\ ~Shows(e, Fragment[a])
    BY <2>3, <1>2
  <2>5. Hidden(run, s, n, a)
    BY <2>4, <1>4, <1>9 DEF Exposure
  <2>6. t.exposed[a] = <<>>
    BY <2>4, <2>5, <1>6, <1>9
  <2>7. QED
    BY <2>6, <1>3, <1>10
<1>13. QED
  BY <1>3, <1>5, <1>8, <1>11, <1>12 DEF LoopInv

(* The invariant holds after every event of a record without missing facts.*)
LEMMA LoopHolds ==
    ASSUME NEW run, Scannable(run)
    PROVE  \A k \in 0..Len(run.events) :
              /\ ScanShape(Scans(run)[k])
              /\ Scans(run)[k].error = "none" => LoopInv(run, Scans(run)[k], k)
<1> DEFINE S == Scans(run)
           n == Len(run.events)
           T == {k \in Nat : k <= n => ScanShape(S[k]) /\ (S[k].error = "none" => LoopInv(run, S[k], k))}
<1>1. n \in Nat
  BY DEF Scannable
<1>2. /\ S[0] = InitialScan
      /\ \A k \in 1..n : S[k] = IF S[k - 1].error # "none" THEN S[k - 1] ELSE ScanEvent(run, S[k - 1], k)
  BY ScansUnfold DEF Scannable
<1> HIDE DEF S, n
<1>3. 0 \in T
  BY <1>2, InitialLoop
<1>4. ASSUME NEW k \in Nat, k \in T PROVE k + 1 \in T
  <2> SUFFICES ASSUME k + 1 <= n
               PROVE ScanShape(S[k + 1]) /\ (S[k + 1].error = "none" => LoopInv(run, S[k + 1], k + 1))
    OBVIOUS
  <2>1. PICK m : m = k + 1
    OBVIOUS
  <2>2. ScanShape(S[k]) /\ (S[k].error = "none" => LoopInv(run, S[k], k)) /\ m \in 1..n /\ m - 1 = k
    BY <1>1, <1>4, <2>1
  <2>3. S[m] = IF S[k].error # "none" THEN S[k] ELSE ScanEvent(run, S[k], m)
    BY <1>2, <2>2
  <2>4. CASE S[k].error # "none"
    BY <2>1, <2>2, <2>3, <2>4
  <2>5. CASE S[k].error = "none"
    <3>1. run.guarded \in BOOLEAN
      BY DEF Scannable
    <3>2. /\ ScanShape(S[m])
          /\ S[m].error = "none" => \E actor \in 1..2 : EventStep(run, S[k], S[m], m, actor)
      BY <3>1, <2>2, <2>3, <2>5, ScanEventFacts
    <3>3. ASSUME S[m].error = "none" PROVE LoopInv(run, S[m], k + 1)
      <4>1. PICK actor \in 1..2 : EventStep(run, S[k], S[m], m, actor)
        BY <3>2, <3>3
      <4>2. LoopInv(run, S[k], k) /\ k + 1 <= Len(run.events)
        BY <2>2, <2>5 DEF n
      <4>3. QED
        BY <4>1, <4>2, <3>2, <2>1, <2>2, LoopStep
    <3>4. QED
      BY <3>2, <3>3, <2>1
  <2>6. QED
    BY <2>4, <2>5
<1>5. Nat \subseteq T
  <2> HIDE DEF T
  <2> QED BY <1>3, <1>4, SetInduction
<1>6. QED
  BY <1>1, <1>5 DEF S, n

(* An error stays: where there is none at the end, there was none before.  *)
LEMMA NoErrorBefore ==
    ASSUME NEW run, Scannable(run), Scan(run).error = "none"
    PROVE  \A k \in 0..Len(run.events) : Scans(run)[k].error = "none"
<1> DEFINE S == Scans(run)
           n == Len(run.events)
           T == {j \in Nat : j <= n => S[n - j].error = "none"}
<1>1. n \in Nat /\ S[n].error = "none"
  BY DEF Scannable, Scan
<1>2. \A k \in 1..n : S[k] = IF S[k - 1].error # "none" THEN S[k - 1] ELSE ScanEvent(run, S[k - 1], k)
  BY ScansUnfold DEF Scannable
<1> HIDE DEF S, n
<1>3. 0 \in T
  BY <1>1
<1>4. ASSUME NEW j \in Nat, j \in T PROVE j + 1 \in T
  <2> SUFFICES ASSUME j + 1 <= n PROVE S[n - (j + 1)].error = "none"
    OBVIOUS
  <2>1. PICK k : k = n - j
    OBVIOUS
  <2>2. k \in 1..n /\ S[k].error = "none" /\ k - 1 = n - (j + 1)
    BY <1>1, <1>4, <2>1
  <2>3. S[k - 1].error = "none"
    BY <1>2, <2>2
  <2>4. QED
    BY <2>2, <2>3
<1>5. Nat \subseteq T
  <2> HIDE DEF T
  <2> QED BY <1>3, <1>4, SetInduction
<1>6. \A k \in 0..n : n - k \in Nat /\ n - k <= n /\ n - (n - k) = k
  BY <1>1
<1>7. QED
  BY <1>5, <1>6 DEF S, n

(* The scan of a prefix does not depend on what follows it, nor on the     *)
(* fields of the record it does not look at.                               *)
LEMMA ScanOfPrefix ==
    ASSUME NEW run, NEW other, NEW n \in Nat,
           run.events \in Seq(Range(run.events)), other.events \in Seq(Range(other.events)),
           n <= Len(run.events), n <= Len(other.events),
           \A k \in 1..n : run.events[k] = other.events[k],
           run.guarded = other.guarded, run.principals = other.principals, run.grants = other.grants
    PROVE  \A k \in 0..n : Scans(other)[k] = Scans(run)[k]
<1> DEFINE S == Scans(run)
           R == Scans(other)
           T == {k \in Nat : k <= n => R[k] = S[k]}
<1>1. /\ S[0] = InitialScan
      /\ \A k \in 1..Len(run.events) :
            S[k] = IF S[k - 1].error # "none" THEN S[k - 1] ELSE ScanEvent(run, S[k - 1], k)
  BY ScansUnfold
<1>2. /\ R[0] = InitialScan
      /\ \A k \in 1..Len(other.events) :
            R[k] = IF R[k - 1].error # "none" THEN R[k - 1] ELSE ScanEvent(other, R[k - 1], k)
  BY ScansUnfold
<1> HIDE DEF S, R
<1>3. 0 \in T
  BY <1>1, <1>2
<1>4. ASSUME NEW j \in Nat, j \in T PROVE j + 1 \in T
  <2> SUFFICES ASSUME j + 1 <= n PROVE R[j + 1] = S[j + 1]
    OBVIOUS
  <2>1. PICK k : k = j + 1
    OBVIOUS
  <2>2. k \in 1..n /\ k - 1 = j /\ R[j] = S[j] /\ Len(run.events) \in Nat /\ Len(other.events) \in Nat
    BY <1>4, <2>1
  <2>3. k \in 1..Len(run.events) /\ k \in 1..Len(other.events)
    BY <2>2
  <2>4. \A s : ScanEvent(other, s, k) = ScanEvent(run, s, k)
    <3>1. other.events[k] = run.events[k]
      BY <2>2
    <3>2. QED
      BY <3>1, SMTT(30) DEF ScanEvent, Chosen
  <2>5. S[k] = IF S[j].error # "none" THEN S[j] ELSE ScanEvent(run, S[j], k)
    BY <1>1, <2>2, <2>3
  <2>6. R[k] = IF R[j].error # "none" THEN R[j] ELSE ScanEvent(other, R[j], k)
    BY <1>2, <2>2, <2>3
  <2>7. ScanEvent(other, R[j], k) = ScanEvent(run, S[j], k)
    BY <2>2, <2>4
  <2>8. QED
    BY <2>1, <2>2, <2>5, <2>6, <2>7
<1>5. Nat \subseteq T
  <2> HIDE DEF T
  <2> QED BY <1>3, <1>4, SetInduction
<1>6. QED
  BY <1>5 DEF S, R

-----------------------------------------------------------------------------
(* The report.                                                             *)

Knowledge == {"safe", "violated", "inconclusive", "invalid"}

ReportShape(r) ==
    /\ r = [knowledge |-> r.knowledge, why |-> r.why, authenticated |-> r.authenticated,
            governance |-> r.governance, perCall |-> r.perCall, fullContext |-> r.fullContext,
            first |-> r.first, participating |-> r.participating]
    /\ r.knowledge \in Knowledge

(* A record as it may arrive: facts may be missing.                        *)
Readable(run) ==
    /\ run.guarded \in BOOLEAN /\ run.events \in Seq(Range(run.events))
    /\ \A k \in 1..Len(run.events) : /\ run.events[k].channel \in Channels \cup {"missing"}
                                     /\ run.events[k].payload \in Payloads \cup {"missing"}

Concludes(run, r) ==
    LET s == Scan(run)
    IN /\ Scannable(run) /\ s.error = "none" /\ s.public = run.public
       /\ r.knowledge = "violated" <=> s.first # <<>>
       /\ r.first = s.first
       /\ r.knowledge = "violated" => r.participating = s.exposed[1] \o s.exposed[2]

LEMMA CheckFacts ==
    ASSUME NEW run, Readable(run)
    PROVE  /\ ReportShape(Check(run)) /\ Check(run).authenticated = FALSE
           /\ Check(run).knowledge \in {"safe", "violated"} => Concludes(run, Check(run))
<1> DEFINE declared == {run.principals[a] : a \in 1..2}
           incomplete(e) == "missing" \in {e.principal, e.channel, e.payload, e.auth, e.effect}
           s == Scan(run)
           violated == s.first # <<>>
           last == [knowledge |-> IF violated THEN "violated" ELSE "safe", why |-> "checked",
             authenticated |-> FALSE,
             governance |-> Decide(~violated /\ s.permitted),
             perCall |-> Decide(s.local), fullContext |-> Decide(s.conventional),
             first |-> s.first,
             participating |-> IF violated THEN s.exposed[1] \o s.exposed[2] ELSE <<>>]
           badGrants == \/ "" \in declared \/ Cardinality(declared) < 2 \/ Cardinality(run.grants) > GrantLimit
                        \/ \E g \in run.grants : g.principal \notin declared
           lacks == \E k \in DOMAIN run.events : incomplete(run.events[k])
           r == Check(run)
<1>1. r = IF run.format # "v1" \/ run.policy # "own" THEN Report("invalid", "format or policy")
       ELSE IF Len(run.events) > EventLimit \/ run.longId THEN Report("invalid", "bounds")
       ELSE IF run.missing # {} THEN Report("inconclusive", "evidence")
       ELSE IF ~run.complete \/ run.events = <<>> THEN Report("inconclusive", "completion")
       ELSE IF badGrants THEN Report("invalid", "principals or grants")
       ELSE IF lacks THEN Report("inconclusive", "event facts")
       ELSE IF s.error # "none" THEN Report("invalid", s.error)
       ELSE IF ~Readback(run, s) THEN Report("invalid", "readback")
       ELSE last
  BY Zenon DEF Check, With
<1> HIDE DEF r, s, badGrants
<1>3. CASE \E k \in {"invalid", "inconclusive"} : \E w : r = Report(k, w)
  <2>1. PICK k \in {"invalid", "inconclusive"} : \E w : r = Report(k, w)
    BY <1>3
  <2>2. PICK w : r = Report(k, w)
    BY <2>1
  <2>3. QED
    BY <2>1, <2>2 DEF Report, ReportShape, Knowledge, r
<1>4. CASE r = last /\ ~lacks /\ s.error = "none" /\ Readback(run, s)
  <2>1. ReportShape(r) /\ r.authenticated = FALSE /\ r.why = "checked"
    BY <1>4 DEF ReportShape, Knowledge
  <2>2. /\ r.knowledge = "violated" <=> s.first # <<>>
        /\ r.first = s.first
        /\ r.knowledge = "violated" => r.participating = s.exposed[1] \o s.exposed[2]
    BY <1>4
  <2>3. \A k \in 1..Len(run.events) : ~incomplete(run.events[k])
    BY <1>4 DEF Readable
  <2>4. Scannable(run)
    BY <2>3 DEF Readable, Scannable
  <2>5. Concludes(run, r)
    BY <1>4, <2>2, <2>4 DEF Concludes, Readback, s
  <2>6. QED
    BY <2>1, <2>5 DEF r
<1> HIDE DEF last, lacks
<1>5. QED
  <2>1. \/ r = last /\ ~lacks /\ s.error = "none" /\ Readback(run, s)
        \/ \E w : r = Report("invalid", w)
        \/ \E w : r = Report("inconclusive", w)
    BY <1>1, Zenon
  <2>2. QED
    BY <2>1, <1>3, <1>4

(* What FirstForbiddenIsEarliest says of a record and a report.            *)
ShownBy(run, n) == {run.events[k].effect : k \in {k \in 1..n : run.events[k].channel = "public"}}
Earliest(run, r) ==
    LET first == r.first[1] + 1
        both == {"fragment-A", "fragment-B"}
    IN /\ both \subseteq ShownBy(run, first) /\ ~(both \subseteq ShownBy(run, first - 1))
       /\ \A n \in 1..2 :
             LET k == r.participating[n] + 1
             IN /\ run.events[k].effect = <<"fragment-A", "fragment-B">>[n]
                /\ run.events[k].effect \notin ShownBy(run, k - 1)

LEMMA ShownByShows ==
    ASSUME NEW run, NEW n, NEW c
    PROVE  c \in ShownBy(run, n) <=> \E k \in 1..n : Shows(run.events[k], c)
BY DEF ShownBy, Shows

LEMMA Fragments ==
    /\ Fragment[1] = "fragment-A" /\ Fragment[2] = "fragment-B"
    /\ \A a \in 1..2 : Fragment[a] \in Contents /\ Fragment[a] # "summary"
    /\ \A c \in Contents : c = "summary" \/ c = Fragment[1] \/ c = Fragment[2]
BY DEF Fragment, Contents

LEMMA SinkShowsExposure ==
    ASSUME NEW run, NEW s, NEW n \in Nat, LoopInv(run, s, n), s.public = run.public
    PROVE  bothExposed(run) <=> s.first # <<>>
<1>1. \A a \in 1..2 : Exposure(run, s, n, a)
  BY DEF LoopInv
<1>2. run.public \in Seq(Contents) /\ DOMAIN run.public = 1..Len(run.public)
  BY DEF LoopInv
<1>3. bothExposed(run) <=> \A a \in 1..2 : \E j \in 1..Len(run.public) : run.public[j] = Fragment[a]
  <2>1. publicFragments(run) \subseteq {"fragment-A", "fragment-B"}
    <3> SUFFICES ASSUME NEW j \in 1..Len(run.public), run.public[j] # "summary"
                 PROVE  run.public[j] \in {"fragment-A", "fragment-B"}
      BY <1>2 DEF publicFragments
    <3>1. run.public[j] \in Contents
      BY <1>2, ElementOfSeq
    <3>2. QED
      BY <3>1 DEF Contents
  <2>2. \A a \in 1..2 : Fragment[a] \in publicFragments(run) <=>
                           \E j \in 1..Len(run.public) : run.public[j] = Fragment[a]
    BY <1>2, Fragments DEF publicFragments
  <2>3. bothExposed(run) <=> Fragment[1] \in publicFragments(run) /\ Fragment[2] \in publicFragments(run)
    BY <2>1, Fragments DEF bothExposed
  <2>4. QED
    BY <2>2, <2>3
<1>4. CASE s.first = <<>>
  <2>1. s.state # 3
    <3>1. \A v : <<v>> # <<>>
      OBVIOUS
    <3>2. QED
      BY <3>1, <1>4 DEF LoopInv, Completion
  <2>2. PICK a \in 1..2 : s.exposed[a] = <<>>
    BY <2>1 DEF LoopInv, Bits
  <2>3. Hidden(run, s, n, a)
    <3>1. \A v : <<v>> # <<>>
      OBVIOUS
    <3>2. QED
      BY <3>1, <2>2, <1>1 DEF Exposure, FoundAt
  <2>4. QED
    BY <2>3, <1>3, <1>4 DEF Hidden
<1>5. CASE s.first # <<>>
  <2>1. PICK f, p, q \in 1..n : FoundAt(run, s, n, 1, p) /\ FoundAt(run, s, n, 2, q)
    BY <1>5 DEF LoopInv, Completion
  <2>2. \A a \in 1..2 : \E j \in 1..Len(run.public) : run.public[j] = Fragment[a]
    BY <2>1 DEF FoundAt
  <2>3. QED
    BY <2>2, <1>3, <1>5
<1>6. QED
  BY <1>4, <1>5

LEMMA CompletionIsEarliest ==
    ASSUME NEW run, NEW s, NEW n \in Nat, LoopInv(run, s, n), s.first # <<>>,
           NEW r, r.first = s.first, r.participating = s.exposed[1] \o s.exposed[2]
    PROVE  Earliest(run, r)
<1>1. PICK f, p, q \in 1..n : /\ FoundAt(run, s, n, 1, p) /\ FoundAt(run, s, n, 2, q)
                              /\ s.first = <<f - 1>> /\ p <= f /\ q <= f /\ f \in {p, q}
  BY DEF LoopInv, Completion
<1>2. s.exposed[1] = <<p - 1>> /\ s.exposed[2] = <<q - 1>>
  BY <1>1 DEF FoundAt
<1>3. /\ Shows(run.events[p], "fragment-A") /\ \A k \in 1..(p - 1) : ~Shows(run.events[k], "fragment-A")
      /\ Shows(run.events[q], "fragment-B") /\ \A k \in 1..(q - 1) : ~Shows(run.events[k], "fragment-B")
  BY <1>1, Fragments DEF FoundAt
<1>4. r.first[1] + 1 = f
  <2>1. r.first[1] = f - 1
    BY <1>1
  <2>2. QED
    BY <2>1
<1>5. r.participating[1] + 1 = p /\ r.participating[2] + 1 = q
  <2>1. r.participating = <<p - 1>> \o <<q - 1>>
    BY <1>2
  <2>2. <<p - 1>> \in Seq(Int) /\ <<q - 1>> \in Seq(Int) /\ Len(<<p - 1>>) = 1 /\ Len(<<q - 1>>) = 1
    OBVIOUS
  <2>3. r.participating[1] = p - 1 /\ r.participating[2] = q - 1
    BY <2>1, <2>2, ConcatProperties
  <2>4. QED
    BY <2>3
<1>6. {"fragment-A", "fragment-B"} \subseteq ShownBy(run, f)
  <2>1. p \in 1..f /\ q \in 1..f
    BY <1>1
  <2>2. QED
    BY <2>1, <1>3, ShownByShows
<1>7. ~({"fragment-A", "fragment-B"} \subseteq ShownBy(run, f - 1))
  <2>1. CASE f = p
    BY <2>1, <1>3, ShownByShows
  <2>2. CASE f = q
    BY <2>2, <1>3, ShownByShows
  <2>3. QED
    BY <1>1, <2>1, <2>2
<1>8. ASSUME NEW m \in 1..2, NEW k, k = r.participating[m] + 1
      PROVE  /\ run.events[k].effect = <<"fragment-A", "fragment-B">>[m]
             /\ run.events[k].effect \notin ShownBy(run, k - 1)
  <2>1. CASE m = 1
    <3>1. k = p /\ run.events[p].effect = "fragment-A" /\ <<"fragment-A", "fragment-B">>[m] = "fragment-A"
      BY <2>1, <1>3, <1>5, <1>8 DEF Shows
    <3>2. "fragment-A" \notin ShownBy(run, p - 1)
      BY <1>3, ShownByShows
    <3>3. QED
      BY <3>1, <3>2
  <2>2. CASE m = 2
    <3>1. k = q /\ run.events[q].effect = "fragment-B" /\ <<"fragment-A", "fragment-B">>[m] = "fragment-B"
      BY <2>2, <1>3, <1>5, <1>8 DEF Shows
    <3>2. "fragment-B" \notin ShownBy(run, q - 1)
      BY <1>3, ShownByShows
    <3>3. QED
      BY <3>1, <3>2
  <2>3. QED
    BY <2>1, <2>2
<1>9. QED
  BY <1>4, <1>6, <1>7, <1>8, Zenon DEF Earliest

(* A report that concludes says what the sink holds.                       *)
LEMMA ConclusionIsSound ==
    ASSUME NEW run, NEW r, Concludes(run, r), r.knowledge \in {"safe", "violated"}
    PROVE  /\ r.knowledge = "violated" <=> bothExposed(run)
           /\ r.knowledge = "violated" => Earliest(run, r)
<1> DEFINE s == Scan(run)
           n == Len(run.events)
<1>1. /\ Scannable(run) /\ s.error = "none" /\ s.public = run.public /\ n \in Nat
      /\ r.knowledge = "violated" <=> s.first # <<>>
      /\ r.first = s.first
      /\ r.knowledge = "violated" => r.participating = s.exposed[1] \o s.exposed[2]
  <2>1. Scannable(run)
    BY DEF Concludes
  <2>2. n \in Nat
    BY <2>1 DEF Scannable
  <2> HIDE DEF n
  <2>3. QED
    BY <2>1, <2>2 DEF Concludes
<1>2. LoopInv(run, s, n)
  <2>1. n \in 0..n
    BY <1>1
  <2>2. QED
    BY <2>1, <1>1, LoopHolds DEF Scan
<1> HIDE DEF s, n
<1>3. QED
  BY <1>1, <1>2, SinkShowsExposure, CompletionIsEarliest

-----------------------------------------------------------------------------
(* The host: each event it records is the one the checker expects.         *)

Bit(actor) == IF actor = 1 THEN 2 ELSE 1
WithPlace(s, actor, place) == IF s.exposed[actor] = <<>> THEN [s.exposed EXCEPT ![actor] = place] ELSE s.exposed
ReachedBy(s, actor) == IF (s.state \div Bit(actor)) % 2 = 0 THEN s.state + Bit(actor) ELSE s.state

(* The table's arithmetic on the state is bookkeeping of the deliveries.   *)
LEMMA TableIsBookkeeping ==
    ASSUME NEW s, ScanShape(s), s.state = Bits(s.exposed), NEW actor \in 1..2, NEW w, w # <<>>
    PROVE  /\ ReachedBy(s, actor) = Bits(WithPlace(s, actor, w))
           /\ ReachedBy(s, actor) # 3 <=> \E a \in 1..2 : s.exposed[a] = <<>> /\ a # actor
           /\ s.state # 3 <=> \E a \in 1..2 : s.exposed[a] = <<>>
<1>1. PICK x, y : s.exposed = <<x, y>>
  BY DEF ScanShape
<1>2. s.exposed[1] = x /\ s.exposed[2] = y /\ w # <<>>
  BY <1>1
<1>3. s.state = (IF x = <<>> THEN 0 ELSE 2) + (IF y = <<>> THEN 0 ELSE 1)
  BY <1>2 DEF Bits
<1>4. /\ 0 \div 2 = 0 /\ 1 \div 2 = 0 /\ 2 \div 2 = 1 /\ 3 \div 2 = 1
      /\ 0 \div 1 = 0 /\ 1 \div 1 = 1 /\ 2 \div 1 = 2 /\ 3 \div 1 = 3
      /\ 0 % 2 = 0 /\ 1 % 2 = 1 /\ 2 % 2 = 0 /\ 3 % 2 = 1
  OBVIOUS
<1>5. CASE actor = 1
  <2>1. WithPlace(s, actor, w) = IF x = <<>> THEN <<w, y>> ELSE <<x, y>>
    BY <1>1, <1>2, <1>5 DEF WithPlace
  <2>2. Bits(WithPlace(s, actor, w)) = 2 + (IF y = <<>> THEN 0 ELSE 1)
    <3>1. CASE x = <<>>
      <4>1. WithPlace(s, actor, w) = <<w, y>>
        BY <2>1, <3>1
      <4>2. QED
        BY <4>1, <1>2 DEF Bits
    <3>2. CASE x # <<>>
      <4>1. WithPlace(s, actor, w) = <<x, y>>
        BY <2>1, <3>2
      <4>2. QED
        BY <4>1, <3>2 DEF Bits
    <3>3. QED
      BY <3>1, <3>2
  <2>3. ReachedBy(s, actor) = 2 + (IF y = <<>> THEN 0 ELSE 1)
    <3>1. CASE x = <<>> /\ y = <<>>
      BY <3>1, <1>3, <1>4, <1>5 DEF ReachedBy, Bit
    <3>2. CASE x = <<>> /\ y # <<>>
      BY <3>2, <1>3, <1>4, <1>5 DEF ReachedBy, Bit
    <3>3. CASE x # <<>> /\ y = <<>>
      BY <3>3, <1>3, <1>4, <1>5 DEF ReachedBy, Bit
    <3>4. CASE x # <<>> /\ y # <<>>
      BY <3>4, <1>3, <1>4, <1>5 DEF ReachedBy, Bit
    <3>5. QED
      BY <3>1, <3>2, <3>3, <3>4
  <2>4. QED
    BY <2>2, <2>3, <1>2, <1>3, <1>5
<1>6. CASE actor = 2
  <2>1. WithPlace(s, actor, w) = IF y = <<>> THEN <<x, w>> ELSE <<x, y>>
    BY <1>1, <1>2, <1>6 DEF WithPlace
  <2>2. Bits(WithPlace(s, actor, w)) = (IF x = <<>> THEN 0 ELSE 2) + 1
    <3>1. CASE y = <<>>
      <4>1. WithPlace(s, actor, w) = <<x, w>>
        BY <2>1, <3>1
      <4>2. QED
        BY <4>1, <1>2 DEF Bits
    <3>2. CASE y # <<>>
      <4>1. WithPlace(s, actor, w) = <<x, y>>
        BY <2>1, <3>2
      <4>2. QED
        BY <4>1, <3>2 DEF Bits
    <3>3. QED
      BY <3>1, <3>2
  <2>3. ReachedBy(s, actor) = (IF x = <<>> THEN 0 ELSE 2) + 1
    <3>1. CASE x = <<>> /\ y = <<>>
      BY <3>1, <1>3, <1>4, <1>6 DEF ReachedBy, Bit
    <3>2. CASE x = <<>> /\ y # <<>>
      BY <3>2, <1>3, <1>4, <1>6 DEF ReachedBy, Bit
    <3>3. CASE x # <<>> /\ y = <<>>
      BY <3>3, <1>3, <1>4, <1>6 DEF ReachedBy, Bit
    <3>4. CASE x # <<>> /\ y # <<>>
      BY <3>4, <1>3, <1>4, <1>6 DEF ReachedBy, Bit
    <3>5. QED
      BY <3>1, <3>2, <3>3, <3>4
  <2>4. QED
    BY <2>2, <2>3, <1>2, <1>3, <1>6
<1>7. QED
  BY <1>5, <1>6

(* The event HostExecute records for a request, and the row it decides by. *)
RowOf(run, state, q) ==
    Transition(state, q.actor, q.payload, q.channel, q.auth,
               Delegated(run.grants, Actors[q.actor], q.channel, q.payload))
EffectOf(run, state, q) == IF Chosen(run, RowOf(run, state, q)) THEN Content(q.actor, q.payload) ELSE ""
EventOf(run, state, q, index) ==
    [index |-> index, principal |-> Actors[q.actor], channel |-> q.channel,
     payload |-> q.payload, auth |-> IF q.auth THEN "yes" ELSE "no",
     local |-> Decide(RowOf(run, state, q).local), decision |-> Decide(Chosen(run, RowOf(run, state, q))),
     effect |-> EffectOf(run, state, q)]
NextState(run, state, q) ==
    IF run.guarded THEN RowOf(run, state, q).guardedNext ELSE RowOf(run, state, q).unguardedNext

Requests == [actor : 1..2, channel : Channels, payload : Payloads, auth : BOOLEAN]

(* The decision in terms of the deliveries, as the full-context baseline   *)
(* takes it.                                                               *)
DecisionFacts(run, s, q, w) ==
    LET scope == Delegated(run.grants, Actors[q.actor], q.channel, q.payload)
        chosen == Chosen(run, RowOf(run, s.state, q))
        exposes == q.channel = "public" /\ q.payload = "fragment"
        conventional == q.auth /\ scope /\ Baseline(s, q.actor, exposes)
    IN /\ chosen = IF run.guarded THEN conventional ELSE q.auth /\ scope
       /\ RowOf(run, s.state, q).local = (q.auth /\ scope)
       /\ NextState(run, s.state, q) =
             Bits(IF chosen /\ exposes /\ s.exposed[q.actor] = <<>>
                  THEN [s.exposed EXCEPT ![q.actor] = w] ELSE s.exposed)

LEMMA DecisionFollowsDeliveries ==
    ASSUME NEW run, run.guarded \in BOOLEAN, NEW s, ScanShape(s), s.state = Bits(s.exposed),
           NEW q \in Requests, NEW w, w # <<>>
    PROVE  DecisionFacts(run, s, q, w)
<1> DEFINE scope == Delegated(run.grants, Actors[q.actor], q.channel, q.payload)
           row == RowOf(run, s.state, q)
           chosen == Chosen(run, row)
           exposes == q.channel = "public" /\ q.payload = "fragment"
           loc == q.auth /\ scope
           reached == IF exposes THEN ReachedBy(s, q.actor) ELSE s.state
           conventional == q.auth /\ scope /\ Baseline(s, q.actor, exposes)
           after == IF chosen /\ exposes /\ s.exposed[q.actor] = <<>>
                    THEN [s.exposed EXCEPT ![q.actor] = w] ELSE s.exposed
<1>1. q.actor \in 1..2 /\ q.auth \in BOOLEAN
  BY DEF Requests
<1>2. scope \in BOOLEAN
  BY DEF Delegated
<1>3. /\ row.local = loc /\ row.guarded = (loc /\ reached # 3)
      /\ row.unguardedNext = (IF loc THEN reached ELSE s.state)
      /\ row.guardedNext = (IF loc /\ reached # 3 THEN reached ELSE s.state)
  BY DEF RowOf, Transition, ReachedBy, Bit
<1>4. /\ ReachedBy(s, q.actor) = Bits(WithPlace(s, q.actor, w))
      /\ ReachedBy(s, q.actor) # 3 <=> \E a \in 1..2 : s.exposed[a] = <<>> /\ a # q.actor
      /\ s.state # 3 <=> \E a \in 1..2 : s.exposed[a] = <<>>
  BY <1>1, TableIsBookkeeping
<1>5. Baseline(s, q.actor, exposes) <=> reached # 3
  <2>1. CASE exposes
    BY <2>1, <1>4 DEF Baseline
  <2>2. CASE ~exposes
    BY <2>2, <1>4 DEF Baseline
  <2>3. QED
    BY <2>1, <2>2
<1>6. reached = Bits(IF exposes /\ s.exposed[q.actor] = <<>> THEN [s.exposed EXCEPT ![q.actor] = w] ELSE s.exposed)
  <2>1. CASE exposes /\ s.exposed[q.actor] = <<>>
    BY <2>1, <1>4 DEF WithPlace
  <2>2. CASE exposes /\ s.exposed[q.actor] # <<>>
    BY <2>2, <1>4 DEF WithPlace
  <2>3. CASE ~exposes
    BY <2>3
  <2>4. QED
    BY <2>1, <2>2, <2>3
<1>7. chosen = (IF run.guarded THEN row.guarded ELSE row.local)
  BY DEF Chosen
<1> DEFINE B == Baseline(s, q.actor, exposes)
<1>8. B \in BOOLEAN
  BY DEF Baseline
<1> HIDE DEF scope, row, chosen, exposes, reached, B
<1>9. chosen = IF run.guarded THEN loc /\ B ELSE loc
  <2>1. CASE run.guarded
    <3>1. chosen = (loc /\ reached # 3)
      BY <2>1, <1>3, <1>7
    <3>2. QED
      BY <2>1, <3>1, <1>5, <1>8, <1>1, <1>2 DEF B
  <2>2. CASE ~run.guarded
    BY <2>2, <1>3, <1>7
  <2>3. QED
    BY <2>1, <2>2
<1>10. NextState(run, s.state, q) = IF chosen THEN reached ELSE s.state
  <2>1. CASE run.guarded
    <3>1. chosen = (loc /\ reached # 3) /\ NextState(run, s.state, q) = row.guardedNext
      BY <2>1, <1>3, <1>7 DEF NextState, row
    <3>2. QED
      BY <3>1, <1>3, <1>1, <1>2
  <2>2. CASE ~run.guarded
    <3>1. chosen = loc /\ NextState(run, s.state, q) = row.unguardedNext
      BY <2>2, <1>3, <1>7 DEF NextState, row
    <3>2. QED
      BY <3>1, <1>3, <1>1, <1>2
  <2>3. QED
    BY <2>1, <2>2
<1>11. chosen \in BOOLEAN
  BY <1>9, <1>1, <1>2, <1>8
<1>12. NextState(run, s.state, q) = Bits(after)
  <2>1. CASE chosen
    BY <2>1, <1>6, <1>10
  <2>2. CASE ~chosen
    BY <2>2, <1>10
  <2>3. QED
    BY <2>1, <2>2, <1>11
<1>13. QED
  BY <1>3, <1>9, <1>12 DEF DecisionFacts, scope, row, chosen, exposes, B

(* The checker accepts the event the host records, and follows it.         *)
Expected(run, s, q, k) ==
    LET t == ScanEvent(run, s, k)
        chosen == Chosen(run, RowOf(run, s.state, q))
        effect == EffectOf(run, s.state, q)
    IN /\ t.error = "none" /\ t.state = NextState(run, s.state, q)
       /\ t.public = IF chosen /\ q.channel = "public" THEN Append(s.public, effect) ELSE s.public
       /\ t.vault = IF chosen /\ q.channel = "vault" THEN Append(s.vault, effect) ELSE s.vault

LEMMA HostEventIsExpected ==
    ASSUME NEW run, run.guarded \in BOOLEAN, run.principals = Actors,
           NEW s, ScanShape(s), s.error = "none", s.state = Bits(s.exposed),
           NEW q \in Requests, NEW k \in Nat \ {0}, run.events[k] = EventOf(run, s.state, q, k - 1)
    PROVE  Expected(run, s, q, k)
<1> DEFINE e == run.events[k]
        known == {a \in 1..2 : run.principals[a] = e.principal}
        actor == CHOOSE a \in known : TRUE
        scope == Delegated(run.grants, e.principal, e.channel, e.payload)
        auth == e.auth = "yes"
        row == Transition(s.state, actor, e.payload, e.channel, auth, scope)
        chosen == Chosen(run, row)
        expected == IF chosen THEN Content(actor, e.payload) ELSE ""
        exposes == e.channel = "public" /\ e.payload = "fragment"
        conventional == auth /\ scope /\ Baseline(s, actor, exposes)
        dispatched == IF run.guarded THEN conventional ELSE auth /\ scope
        exposed == IF chosen /\ exposes /\ s.exposed[actor] = <<>>
                   THEN [s.exposed EXCEPT ![actor] = <<k - 1>>] ELSE s.exposed
        state == IF run.guarded THEN row.guardedNext ELSE row.unguardedNext
        bits == (IF exposed[1] = <<>> THEN 0 ELSE 2) + (IF exposed[2] = <<>> THEN 0 ELSE 1)
        failed(why) == [s EXCEPT !.error = why]
        next == [error |-> "none", state |-> state, exposed |-> exposed,
             public |-> IF chosen /\ e.channel = "public" THEN Append(s.public, expected) ELSE s.public,
             vault |-> IF chosen /\ e.channel = "vault" THEN Append(s.vault, expected) ELSE s.vault,
             first |-> FirstForbidden(s, state, k),
             local |-> s.local /\ row.local, permitted |-> s.permitted /\ chosen,
             conventional |-> s.conventional /\ conventional]
        t == ScanEvent(run, s, k)
<1>1. t = IF known = {} THEN failed("undeclared principal")
       ELSE IF e.index # k - 1 THEN failed("order")
       ELSE IF e.local # Decide(row.local) \/ e.decision # Decide(chosen) \/ e.effect # expected
       THEN failed("decision or effect")
       ELSE IF dispatched # chosen THEN failed("baseline")
       ELSE IF state # bits THEN failed("abstraction")
       ELSE next
  BY Zenon DEF ScanEvent
<1>2. q.actor \in 1..2 /\ q.auth \in BOOLEAN
  BY DEF Requests
<1>3. /\ e.index = k - 1 /\ e.principal = Actors[q.actor] /\ e.channel = q.channel /\ e.payload = q.payload
      /\ e.auth = (IF q.auth THEN "yes" ELSE "no")
      /\ e.local = Decide(RowOf(run, s.state, q).local)
      /\ e.decision = Decide(Chosen(run, RowOf(run, s.state, q)))
      /\ e.effect = EffectOf(run, s.state, q)
  BY DEF EventOf
<1>4. known = {q.actor}
  <2>1. Actors[1] = "principal-A" /\ Actors[2] = "principal-B"
    BY DEF Actors
  <2>2. \A a \in 1..2 : Actors[a] = Actors[q.actor] <=> a = q.actor
    BY <2>1, <1>2
  <2>3. QED
    BY <2>2, <1>2, <1>3
<1>5. actor = q.actor /\ known # {}
  BY <1>4
<1>6. auth = q.auth
  BY <1>2, <1>3
<1> HIDE DEF e, known, actor, auth
<1>7. row = RowOf(run, s.state, q)
  BY <1>3, <1>5, <1>6, Zenon DEF RowOf
<1>8. scope = Delegated(run.grants, Actors[q.actor], q.channel, q.payload)
  BY <1>3
<1>9. PICK w : w = <<k - 1>> /\ w # <<>>
  <2>1. \A v : <<v>> # <<>>
    OBVIOUS
  <2>2. QED
    BY <2>1, Zenon
<1>10. LET exp == q.channel = "public" /\ q.payload = "fragment"
           ch == Chosen(run, RowOf(run, s.state, q))
           sc == Delegated(run.grants, Actors[q.actor], q.channel, q.payload)
       IN /\ ch = IF run.guarded THEN q.auth /\ sc /\ Baseline(s, q.actor, exp) ELSE q.auth /\ sc
          /\ NextState(run, s.state, q) =
                    Bits(IF ch /\ exp /\ s.exposed[q.actor] = <<>>
                         THEN [s.exposed EXCEPT ![q.actor] = w] ELSE s.exposed)
  <2>1. DecisionFacts(run, s, q, w)
    BY <1>9, DecisionFollowsDeliveries
  <2>2. QED
    BY <2>1, Zenon DEF DecisionFacts
<1>11. exposes <=> q.channel = "public" /\ q.payload = "fragment"
  BY <1>3
<1> HIDE DEF row, scope
<1>12. chosen = dispatched
  BY <1>3, <1>5, <1>6, <1>7, <1>8, <1>10, Zenon
<1>13. NextState(run, s.state, q) = Bits(exposed)
  BY <1>3, <1>5, <1>7, <1>9, <1>10, Zenon
<1>14. state = NextState(run, s.state, q)
  BY <1>7, Zenon DEF NextState
<1>15. state = bits
  BY <1>13, <1>14, Zenon DEF Bits
<1>16. expected = EffectOf(run, s.state, q)
  BY <1>3, <1>5, <1>7, Zenon DEF EffectOf
<1>17. e.local = Decide(row.local) /\ e.decision = Decide(chosen) /\ e.effect = expected
  BY <1>3, <1>7, <1>16, Zenon
<1> HIDE DEF exposed, state, bits, dispatched, expected, failed, t, exposes, chosen
<1>18. t = next
  BY <1>1, <1>3, <1>5, <1>12, <1>15, <1>17, Zenon
<1>19. /\ t.error = "none" /\ t.state = state
       /\ t.public = (IF chosen /\ e.channel = "public" THEN Append(s.public, expected) ELSE s.public)
       /\ t.vault = (IF chosen /\ e.channel = "vault" THEN Append(s.vault, expected) ELSE s.vault)
  <2> HIDE DEF conventional
  <2> QED BY <1>18
<1>20. QED
  BY <1>3, <1>7, <1>14, <1>16, <1>19, Zenon DEF t, chosen, Expected

-----------------------------------------------------------------------------
(* The host's record.                                                      *)

HostEvents ==
    [index : Nat, principal : {"principal-A", "principal-B"}, channel : Channels, payload : Payloads,
     auth : {"yes", "no"}, local : {"permit", "deny"}, decision : {"permit", "deny"},
     effect : Contents \cup {""}]

RunShape(run) ==
    run = [format |-> run.format, policy |-> run.policy, longId |-> run.longId, guarded |-> run.guarded,
           complete |-> run.complete, principals |-> run.principals, grants |-> run.grants,
           missing |-> run.missing, events |-> run.events, public |-> run.public, vault |-> run.vault]

(* Written by the host alone, and followed by the checker up to state.     *)
HonestRun(run, state) ==
    /\ RunShape(run) /\ run.format = "v1" /\ run.policy = "own" /\ ~run.longId /\ run.complete
    /\ run.principals = Actors /\ run.guarded \in BOOLEAN /\ run.longId \in BOOLEAN /\ run.complete \in BOOLEAN
    /\ \E revoke_b \in BOOLEAN : run.grants = HostGrants(revoke_b)
    /\ run.events \in Seq(HostEvents)
    /\ Scan(run).error = "none" /\ Scan(run).state = state
    /\ Scan(run).public = run.public /\ Scan(run).vault = run.vault

LEMMA SeqOfOwnRange ==
    ASSUME NEW S, NEW seq \in Seq(S)
    PROVE  /\ seq \in Seq(Range(seq)) /\ Len(seq) \in Nat /\ DOMAIN seq = 1..Len(seq)
           /\ \A k \in 1..Len(seq) : seq[k] \in S
<1>1. DOMAIN seq = 1..Len(seq) /\ Len(seq) \in Nat /\ \A k \in 1..Len(seq) : seq[k] \in S
  BY ElementOfSeq
<1>2. seq \in [1..Len(seq) -> Range(seq)]
  BY <1>1 DEF Range
<1>3. QED
  BY <1>1, <1>2, SeqDef, Zenon

LEMMA HonestIsScannable ==
    ASSUME NEW run, NEW state, HonestRun(run, state)
    PROVE  Scannable(run) /\ Readable(run)
<1>1. run.events \in Seq(HostEvents) /\ run.guarded \in BOOLEAN
  BY DEF HonestRun
<1>2. run.events \in Seq(Range(run.events)) /\ \A k \in 1..Len(run.events) : run.events[k] \in HostEvents
  BY <1>1, SeqOfOwnRange
<1>3. \A e \in HostEvents : e.channel \in Channels /\ e.payload \in Payloads
  BY DEF HostEvents
<1>4. QED
  BY <1>1, <1>2, <1>3 DEF Scannable, Readable

LEMMA HonestLoop ==
    ASSUME NEW run, NEW state, HonestRun(run, state)
    PROVE  /\ ScanShape(Scan(run)) /\ LoopInv(run, Scan(run), Len(run.events)) /\ Len(run.events) \in Nat
           /\ state = Bits(Scan(run).exposed) /\ state \in 0..3
<1>1. Scannable(run) /\ Scan(run).error = "none" /\ Scan(run).state = state
  BY HonestIsScannable DEF HonestRun
<1>2. Len(run.events) \in Nat
  BY <1>1 DEF Scannable
<1>3. Len(run.events) \in 0..Len(run.events)
  BY <1>2
<1>4. ScanShape(Scan(run)) /\ LoopInv(run, Scan(run), Len(run.events))
  BY <1>1, <1>3, LoopHolds DEF Scan
<1>5. QED
  BY <1>1, <1>2, <1>4 DEF LoopInv, Bits

LEMMA EmptyIsHonest ==
    ASSUME NEW guarded \in BOOLEAN, NEW revoke_b \in BOOLEAN
    PROVE  HonestRun(EmptyRun(guarded, revoke_b), 0)
<1> DEFINE run == EmptyRun(guarded, revoke_b)
<1>1. /\ RunShape(run) /\ run.format = "v1" /\ run.policy = "own" /\ ~run.longId /\ run.complete
      /\ run.longId \in BOOLEAN /\ run.complete \in BOOLEAN
      /\ run.principals = Actors /\ run.guarded = guarded /\ run.grants = HostGrants(revoke_b)
      /\ run.events = <<>> /\ run.public = <<>> /\ run.vault = <<>>
  BY DEF EmptyRun, RunShape
<1> HIDE DEF run
<1>2. run.events \in Seq(HostEvents) /\ run.events \in Seq(Range(run.events)) /\ Len(run.events) = 0
  BY <1>1
<1>3. Scan(run) = InitialScan
  BY <1>2, ScansUnfold DEF Scan
<1>4. InitialScan.error = "none" /\ InitialScan.state = 0 /\ InitialScan.public = <<>> /\ InitialScan.vault = <<>>
  BY DEF InitialScan
<1>5. HonestRun(run, 0)
  BY <1>1, <1>2, <1>3, <1>4 DEF HonestRun
<1>6. QED
  BY <1>5 DEF run

LEMMA HostEventTyped ==
    ASSUME NEW run, run.guarded \in BOOLEAN, NEW state, NEW q \in Requests, NEW index \in Nat
    PROVE  EventOf(run, state, q, index) \in HostEvents
<1> DEFINE row == RowOf(run, state, q)
<1>1. q.actor \in 1..2 /\ q.channel \in Channels /\ q.payload \in Payloads /\ q.auth \in BOOLEAN
  BY DEF Requests
<1>2. Actors[q.actor] \in {"principal-A", "principal-B"}
  BY <1>1 DEF Actors
<1>3. \A b : Decide(b) \in {"permit", "deny"}
  BY DEF Decide
<1>4. EffectOf(run, state, q) \in Contents \cup {""}
  <2>1. Content(q.actor, q.payload) \in Contents
    <3>1. Content(q.actor, q.payload) = "summary" \/ Content(q.actor, q.payload) = Fragment[q.actor]
      BY DEF Content, Fragment
    <3>2. QED
      BY <3>1, <1>1, Fragments DEF Contents
  <2>2. QED
    BY <2>1 DEF EffectOf
<1>5. (IF q.auth THEN "yes" ELSE "no") \in {"yes", "no"}
  OBVIOUS
<1>6. QED
  BY <1>1, <1>2, <1>3, <1>4, <1>5 DEF EventOf, HostEvents

(* One request more.                                                       *)
NextRun(run, state, q) ==
    LET chosen == Chosen(run, RowOf(run, state, q))
        effect == EffectOf(run, state, q)
        to(channel, sink) == IF chosen /\ q.channel = channel THEN Append(sink, effect) ELSE sink
    IN [run EXCEPT !.events = Append(@, EventOf(run, state, q, Len(run.events))),
                   !.public = to("public", @), !.vault = to("vault", @)]

LEMMA HonestStep ==
    ASSUME NEW run, NEW state, HonestRun(run, state), NEW q \in Requests
    PROVE  HonestRun(NextRun(run, state, q), NextState(run, state, q))
<1> DEFINE other == NextRun(run, state, q)
           s == Scan(run)
           n == Len(run.events)
           e == EventOf(run, state, q, n)
           chosen == Chosen(run, RowOf(run, state, q))
           effect == EffectOf(run, state, q)
<1>1. /\ RunShape(run) /\ run.format = "v1" /\ run.policy = "own" /\ ~run.longId /\ run.complete
      /\ run.principals = Actors /\ run.guarded \in BOOLEAN
      /\ run.longId \in BOOLEAN /\ run.complete \in BOOLEAN
      /\ \E revoke_b \in BOOLEAN : run.grants = HostGrants(revoke_b)
      /\ run.events \in Seq(HostEvents)
      /\ s.error = "none" /\ s.state = state /\ s.public = run.public /\ s.vault = run.vault
  BY DEF HonestRun
<1>2. n \in Nat /\ ScanShape(s) /\ state = Bits(s.exposed) /\ s.state = Bits(s.exposed)
  BY HonestLoop, <1>1
<1>3. e \in HostEvents
  BY <1>1, <1>2, HostEventTyped
<1> HIDE DEF s, n, e
<1>4. /\ RunShape(other) /\ other.format = run.format /\ other.policy = run.policy
      /\ other.longId = run.longId /\ other.complete = run.complete
      /\ other.principals = run.principals /\ other.guarded = run.guarded /\ other.grants = run.grants
      /\ other.events = Append(run.events, e)
      /\ other.public = (IF chosen /\ q.channel = "public" THEN Append(run.public, effect) ELSE run.public)
      /\ other.vault = (IF chosen /\ q.channel = "vault" THEN Append(run.vault, effect) ELSE run.vault)
  <2> HIDE DEF chosen, effect
  <2>1. other = [run EXCEPT !.events = Append(@, e),
                   !.public = IF chosen /\ q.channel = "public" THEN Append(@, effect) ELSE @,
                   !.vault = IF chosen /\ q.channel = "vault" THEN Append(@, effect) ELSE @]
    BY Zenon DEF NextRun, e, n, chosen, effect
  <2> HIDE DEF other
  <2>2. QED
    BY <2>1, <1>1 DEF RunShape
<1> HIDE DEF other, chosen, effect
<1>5. /\ other.events \in Seq(HostEvents) /\ Len(other.events) = n + 1
      /\ \A k \in 1..n : other.events[k] = run.events[k]
      /\ other.events[n + 1] = e
  BY <1>1, <1>2, <1>3, <1>4, AppendProperties DEF n
<1>6. other.events \in Seq(Range(other.events)) /\ run.events \in Seq(Range(run.events))
  BY <1>1, <1>5, SeqOfOwnRange
<1>7. Scans(other)[n] = s
  <2>1. n <= Len(run.events) /\ n <= Len(other.events) /\ n \in 0..n
    BY <1>2, <1>5 DEF n
  <2>2. \A k \in 0..n : Scans(other)[k] = Scans(run)[k]
    BY <1>2, <1>4, <1>5, <1>6, <2>1, ScanOfPrefix
  <2>3. QED
    BY <2>1, <2>2 DEF s, Scan, n
<1>8. PICK k : k = n + 1
  OBVIOUS
<1>9. k \in Nat \ {0} /\ k \in 1..Len(other.events) /\ k - 1 = n /\ other.events[k] = e
  BY <1>2, <1>5, <1>8
<1>10. Scan(other) = ScanEvent(other, s, k)
  <2>1. Scans(other)[k] = IF Scans(other)[k - 1].error # "none" THEN Scans(other)[k - 1]
                          ELSE ScanEvent(other, Scans(other)[k - 1], k)
    BY <1>6, <1>9, ScansUnfold
  <2>2. QED
    BY <2>1, <1>1, <1>5, <1>7, <1>8, <1>9 DEF Scan
<1>11. e = EventOf(other, s.state, q, k - 1) /\ RowOf(other, s.state, q) = RowOf(run, state, q)
       /\ Chosen(other, RowOf(other, s.state, q)) = chosen /\ EffectOf(other, s.state, q) = effect
       /\ NextState(other, s.state, q) = NextState(run, state, q)
  <2>1. RowOf(other, s.state, q) = RowOf(run, state, q)
    BY <1>1, <1>4 DEF RowOf
  <2>2. Chosen(other, RowOf(other, s.state, q)) = chosen
    BY <2>1, <1>4 DEF Chosen, chosen
  <2>3. EffectOf(other, s.state, q) = effect
    BY <2>2 DEF EffectOf, effect, chosen
  <2>4. NextState(other, s.state, q) = NextState(run, state, q)
    BY <2>1, <1>4 DEF NextState
  <2>5. e = EventOf(other, s.state, q, k - 1)
    BY <2>1, <2>2, <2>3, <1>9, Zenon DEF EventOf, e, chosen, effect
  <2>6. QED
    BY <2>1, <2>2, <2>3, <2>4, <2>5
<1> DEFINE t == ScanEvent(other, s, k)
<1>12. /\ t.error = "none" /\ t.state = NextState(run, state, q)
       /\ t.public = IF chosen /\ q.channel = "public" THEN Append(s.public, effect) ELSE s.public
       /\ t.vault = IF chosen /\ q.channel = "vault" THEN Append(s.vault, effect) ELSE s.vault
  <2>1. other.guarded \in BOOLEAN /\ other.principals = Actors /\ other.events[k] = EventOf(other, s.state, q, k - 1)
    BY <1>1, <1>4, <1>9, <1>11
  <2>2. Expected(other, s, q, k)
    BY <2>1, <1>1, <1>2, <1>9, HostEventIsExpected
  <2>3. QED
    BY <2>2, <1>11, Zenon DEF Expected
<1> HIDE DEF t
<1>13. t.public = other.public /\ t.vault = other.vault
  BY <1>1, <1>4, <1>12
<1>14. HonestRun(other, NextState(run, state, q))
  <2>1. Scan(other) = t
    BY <1>10 DEF t
  <2>2. ~other.longId /\ other.complete /\ other.longId \in BOOLEAN /\ other.complete \in BOOLEAN
    BY <1>1, <1>4
  <2>3. /\ other.format = "v1" /\ other.policy = "own" /\ other.principals = Actors
        /\ other.guarded \in BOOLEAN /\ \E revoke_b \in BOOLEAN : other.grants = HostGrants(revoke_b)
    BY <1>1, <1>4
  <2>4. QED
    BY <2>1, <2>2, <2>3, <1>4, <1>5, <1>12, <1>13, Zenon DEF HonestRun
<1>15. QED
  BY <1>14 DEF other

LEMMA HonestEnd ==
    ASSUME NEW run, NEW state, HonestRun(run, state), NEW withheld
    PROVE  /\ HonestRun([run EXCEPT !.missing = withheld], state)
           /\ [run EXCEPT !.missing = withheld].events = run.events
<1> DEFINE other == [run EXCEPT !.missing = withheld]
<1>1. /\ RunShape(run) /\ run.principals = Actors /\ run.guarded \in BOOLEAN
      /\ run.events \in Seq(HostEvents)
  BY DEF HonestRun
<1>2. /\ RunShape(other) /\ other.format = run.format /\ other.policy = run.policy
      /\ other.longId = run.longId /\ other.complete = run.complete
      /\ other.principals = run.principals /\ other.guarded = run.guarded /\ other.grants = run.grants
      /\ other.events = run.events /\ other.public = run.public /\ other.vault = run.vault
  BY <1>1 DEF RunShape
<1> HIDE DEF other
<1>3. run.events \in Seq(Range(run.events)) /\ Len(run.events) \in Nat
  BY <1>1, SeqOfOwnRange
<1>4. \A k \in 0..Len(run.events) : Scans(other)[k] = Scans(run)[k]
  <2>1. PICK n : n = Len(run.events)
    OBVIOUS
  <2>2. /\ n \in Nat /\ n <= Len(run.events) /\ n <= Len(other.events)
        /\ other.events \in Seq(Range(other.events))
        /\ \A k \in 1..n : run.events[k] = other.events[k]
    BY <1>2, <1>3, <2>1
  <2>3. \A k \in 0..n : Scans(other)[k] = Scans(run)[k]
    BY <1>2, <1>3, <2>2, ScanOfPrefix
  <2>4. QED
    BY <2>1, <2>3
<1>5. Len(run.events) \in 0..Len(run.events)
  BY <1>3
<1>6. Scan(other) = Scan(run)
  BY <1>2, <1>4, <1>5 DEF Scan
<1>7. HonestRun(other, state)
  BY <1>2, <1>6, Zenon DEF HonestRun
<1>8. QED
  BY <1>2, <1>7 DEF other

LEMMA OneMore ==
    ASSUME NEW S, NEW x, NEW n \in Nat, NEW m, m = n + 1, IsFiniteSet(S), Cardinality(S) <= n
    PROVE  IsFiniteSet(S \cup {x}) /\ Cardinality(S \cup {x}) <= m
<1>1. Cardinality(S) \in Nat
  BY FS_CardinalityType
<1>2. /\ IsFiniteSet(S \cup {x})
      /\ Cardinality(S \cup {x}) = Cardinality(S) \/ Cardinality(S \cup {x}) = Cardinality(S) + 1
  BY FS_AddElement
<1>3. QED
  BY <1>1, <1>2

LEMMA AtMostEight ==
    ASSUME NEW a, NEW b, NEW c, NEW d, NEW e, NEW f, NEW g, NEW h
    PROVE  IsFiniteSet({a, b, c, d, e, f, g, h}) /\ Cardinality({a, b, c, d, e, f, g, h}) <= 8
<1>1. IsFiniteSet({a}) /\ Cardinality({a}) <= 1
  BY FS_Singleton
<1>2. IsFiniteSet({a, b}) /\ Cardinality({a, b}) <= 2
  <2>1. PICK S : S = {a}
    OBVIOUS
  <2>2. IsFiniteSet(S) /\ Cardinality(S) <= 1 /\ 1 \in Nat /\ 2 = 1 + 1
    BY <1>1, <2>1
  <2>3. IsFiniteSet(S \cup {b}) /\ Cardinality(S \cup {b}) <= 2
    BY <2>2, OneMore
  <2>4. S \cup {b} = {a, b}
    BY <2>1
  <2>5. QED
    BY <2>3, <2>4
<1>3. IsFiniteSet({a, b, c}) /\ Cardinality({a, b, c}) <= 3
  <2>1. PICK S : S = {a, b}
    OBVIOUS
  <2>2. IsFiniteSet(S) /\ Cardinality(S) <= 2 /\ 2 \in Nat /\ 3 = 2 + 1
    BY <1>2, <2>1
  <2>3. IsFiniteSet(S \cup {c}) /\ Cardinality(S \cup {c}) <= 3
    BY <2>2, OneMore
  <2>4. S \cup {c} = {a, b, c}
    BY <2>1
  <2>5. QED
    BY <2>3, <2>4
<1>4. IsFiniteSet({a, b, c, d}) /\ Cardinality({a, b, c, d}) <= 4
  <2>1. PICK S : S = {a, b, c}
    OBVIOUS
  <2>2. IsFiniteSet(S) /\ Cardinality(S) <= 3 /\ 3 \in Nat /\ 4 = 3 + 1
    BY <1>3, <2>1
  <2>3. IsFiniteSet(S \cup {d}) /\ Cardinality(S \cup {d}) <= 4
    BY <2>2, OneMore
  <2>4. S \cup {d} = {a, b, c, d}
    BY <2>1
  <2>5. QED
    BY <2>3, <2>4
<1>5. IsFiniteSet({a, b, c, d, e}) /\ Cardinality({a, b, c, d, e}) <= 5
  <2>1. PICK S : S = {a, b, c, d}
    OBVIOUS
  <2>2. IsFiniteSet(S) /\ Cardinality(S) <= 4 /\ 4 \in Nat /\ 5 = 4 + 1
    BY <1>4, <2>1
  <2>3. IsFiniteSet(S \cup {e}) /\ Cardinality(S \cup {e}) <= 5
    BY <2>2, OneMore
  <2>4. S \cup {e} = {a, b, c, d, e}
    BY <2>1
  <2>5. QED
    BY <2>3, <2>4
<1>6. IsFiniteSet({a, b, c, d, e, f}) /\ Cardinality({a, b, c, d, e, f}) <= 6
  <2>1. PICK S : S = {a, b, c, d, e}
    OBVIOUS
  <2>2. IsFiniteSet(S) /\ Cardinality(S) <= 5 /\ 5 \in Nat /\ 6 = 5 + 1
    BY <1>5, <2>1
  <2>3. IsFiniteSet(S \cup {f}) /\ Cardinality(S \cup {f}) <= 6
    BY <2>2, OneMore
  <2>4. S \cup {f} = {a, b, c, d, e, f}
    BY <2>1
  <2>5. QED
    BY <2>3, <2>4
<1>7. IsFiniteSet({a, b, c, d, e, f, g}) /\ Cardinality({a, b, c, d, e, f, g}) <= 7
  <2>1. PICK S : S = {a, b, c, d, e, f}
    OBVIOUS
  <2>2. IsFiniteSet(S) /\ Cardinality(S) <= 6 /\ 6 \in Nat /\ 7 = 6 + 1
    BY <1>6, <2>1
  <2>3. IsFiniteSet(S \cup {g}) /\ Cardinality(S \cup {g}) <= 7
    BY <2>2, OneMore
  <2>4. S \cup {g} = {a, b, c, d, e, f, g}
    BY <2>1
  <2>5. QED
    BY <2>3, <2>4
<1>8. IsFiniteSet({a, b, c, d, e, f, g, h}) /\ Cardinality({a, b, c, d, e, f, g, h}) <= 8
  <2>1. PICK S : S = {a, b, c, d, e, f, g}
    OBVIOUS
  <2>2. IsFiniteSet(S) /\ Cardinality(S) <= 7 /\ 7 \in Nat /\ 8 = 7 + 1
    BY <1>7, <2>1
  <2>3. IsFiniteSet(S \cup {h}) /\ Cardinality(S \cup {h}) <= 8
    BY <2>2, OneMore
  <2>4. S \cup {h} = {a, b, c, d, e, f, g, h}
    BY <2>1
  <2>5. QED
    BY <2>3, <2>4
<1>9. QED
  BY <1>8

LEMMA AtMostEightGrants ==
    ASSUME NEW revoke_b \in BOOLEAN
    PROVE  IsFiniteSet(HostGrants(revoke_b)) /\ Cardinality(HostGrants(revoke_b)) <= 8
<1> DEFINE G(p, c, d) == [principal |-> p, channel |-> c, payload |-> d, task |-> "synthetic-release"]
           A == "principal-A"
           B == "principal-B"
           S8 == {G(A, "public", "fragment"), G(A, "public", "summary"),
                  G(A, "vault", "fragment"), G(A, "vault", "summary"),
                  G(B, "public", "fragment"), G(B, "public", "summary"),
                  G(B, "vault", "fragment"), G(B, "vault", "summary")}
<1>1. \A r \in HostGrants(revoke_b) : r \in S8
  <2> TAKE r \in HostGrants(revoke_b)
  <2>1. Actors[1] = A /\ Actors[2] = B
    BY DEF Actors
  <2>2. /\ r.principal \in {A, B} /\ r.channel \in {"public", "vault"}
        /\ r.payload \in {"fragment", "summary"} /\ r.task = "synthetic-release"
        /\ r = [principal |-> r.principal, channel |-> r.channel, payload |-> r.payload, task |-> r.task]
    BY <2>1 DEF HostGrants, Channels, Payloads
  <2>3. r = G(r.principal, r.channel, r.payload)
    BY <2>2
  <2> HIDE DEF G
  <2>4. QED
    BY <2>2, <2>3
<1>2. IsFiniteSet(S8) /\ Cardinality(S8) <= 8
  <2> HIDE DEF G
  <2> QED BY AtMostEight
<1> HIDE DEF S8
<1>3. HostGrants(revoke_b) \subseteq S8
  BY <1>1
<1>4. /\ IsFiniteSet(HostGrants(revoke_b)) /\ Cardinality(HostGrants(revoke_b)) <= Cardinality(S8)
      /\ Cardinality(S8) \in Nat /\ Cardinality(HostGrants(revoke_b)) \in Nat
  BY <1>2, <1>3, FS_Subset, FS_CardinalityType
<1>5. QED
  BY <1>2, <1>4

(* The checker never calls a record of the host invalid.                   *)
LEMMA HonestIsNeverInvalid ==
    ASSUME NEW run, NEW state, HonestRun(run, state), Len(run.events) <= EventLimit
    PROVE  /\ Check(run).knowledge # "invalid"
           /\ run.missing = {} /\ run.events # <<>> => Check(run).knowledge # "inconclusive"
<1> DEFINE declared == {run.principals[a] : a \in 1..2}
           incomplete(e) == "missing" \in {e.principal, e.channel, e.payload, e.auth, e.effect}
           s == Scan(run)
           violated == s.first # <<>>
           last == [knowledge |-> IF violated THEN "violated" ELSE "safe", why |-> "checked",
             authenticated |-> FALSE,
             governance |-> Decide(~violated /\ s.permitted),
             perCall |-> Decide(s.local), fullContext |-> Decide(s.conventional),
             first |-> s.first,
             participating |-> IF violated THEN s.exposed[1] \o s.exposed[2] ELSE <<>>]
           badGrants == \/ "" \in declared \/ Cardinality(declared) < 2 \/ Cardinality(run.grants) > GrantLimit
                        \/ \E g \in run.grants : g.principal \notin declared
           lacks == \E k \in DOMAIN run.events : incomplete(run.events[k])
           r == Check(run)
<1>1. r = IF run.format # "v1" \/ run.policy # "own" THEN Report("invalid", "format or policy")
       ELSE IF Len(run.events) > EventLimit \/ run.longId THEN Report("invalid", "bounds")
       ELSE IF run.missing # {} THEN Report("inconclusive", "evidence")
       ELSE IF ~run.complete \/ run.events = <<>> THEN Report("inconclusive", "completion")
       ELSE IF badGrants THEN Report("invalid", "principals or grants")
       ELSE IF lacks THEN Report("inconclusive", "event facts")
       ELSE IF s.error # "none" THEN Report("invalid", s.error)
       ELSE IF ~Readback(run, s) THEN Report("invalid", "readback")
       ELSE last
  BY Zenon DEF Check, With
<1>2. /\ run.format = "v1" /\ run.policy = "own" /\ ~run.longId /\ run.complete
      /\ run.principals = Actors /\ run.events \in Seq(HostEvents)
      /\ s.error = "none" /\ Readback(run, s)
  BY DEF HonestRun, Readback
<1>3. PICK revoke_b \in BOOLEAN : run.grants = HostGrants(revoke_b)
  BY DEF HonestRun
<1>4. declared = {"principal-A", "principal-B"}
  <2>1. run.principals[1] = "principal-A" /\ run.principals[2] = "principal-B"
    BY <1>2 DEF Actors
  <2>2. QED
    BY <2>1
<1>5. Cardinality(declared) = 2
  <2>1. PICK S, x : S = {"principal-A"} /\ x = "principal-B"
    OBVIOUS
  <2>2. Cardinality(S) = 1 /\ IsFiniteSet(S)
    BY <2>1, FS_Singleton
  <2>3. declared = S \cup {x} /\ x \notin S
    BY <1>4, <2>1
  <2>4. Cardinality(S \cup {x}) = 2
    BY <2>2, <2>3, FS_AddElement
  <2>5. QED
    BY <2>3, <2>4
<1>6. \A g \in run.grants : g.principal \in declared
  <2>1. Actors[1] = "principal-A" /\ Actors[2] = "principal-B"
    BY DEF Actors
  <2>2. \A g \in HostGrants(revoke_b) : g.principal \in {"principal-A", "principal-B"}
    BY <2>1 DEF HostGrants
  <2>3. QED
    BY <2>2, <1>3, <1>4
<1>7. ~badGrants
  <2>1. Cardinality(run.grants) <= 8 /\ Cardinality(run.grants) \in Nat
    BY <1>3, AtMostEightGrants, FS_CardinalityType
  <2>2. ~(Cardinality(run.grants) > GrantLimit)
    BY <2>1, ExecutedAssumption
  <2>3. "" \notin declared
    BY <1>4
  <2>4. ~(Cardinality(declared) < 2)
    BY <1>5
  <2>5. ~\E g \in run.grants : g.principal \notin declared
    BY <1>6
  <2> HIDE DEF declared
  <2>6. QED
    BY <2>2, <2>3, <2>4, <2>5, Zenon
<1>8. ~lacks
  <2>1. \A e \in HostEvents : ~incomplete(e)
    <3> TAKE e \in HostEvents
    <3>1. /\ e.principal \in {"principal-A", "principal-B"} /\ e.channel \in Channels
          /\ e.payload \in Payloads /\ e.auth \in {"yes", "no"} /\ e.effect \in Contents \cup {""}
      BY DEF HostEvents
    <3>2. QED
      BY <3>1 DEF Contents, Channels, Payloads
  <2>2. \A k \in DOMAIN run.events : run.events[k] \in HostEvents
    BY <1>2, SeqOfOwnRange
  <2> HIDE DEF incomplete
  <2>3. QED
    BY <2>1, <2>2
<1>9. ~(Len(run.events) > EventLimit)
  <2>1. Len(run.events) \in Nat
    BY <1>2
  <2>2. QED
    BY <2>1, ExecutedAssumption
<1> HIDE DEF r, s, badGrants, lacks, last
<1>10. \/ r = Report("inconclusive", "evidence") /\ run.missing # {}
       \/ r = Report("inconclusive", "completion") /\ run.events = <<>>
       \/ r = last
  BY <1>1, <1>2, <1>7, <1>8, <1>9, Zenon
<1>11. last.knowledge \in {"safe", "violated"} /\ \A w : Report("inconclusive", w).knowledge = "inconclusive"
  BY DEF last, Report
<1>12. QED
  BY <1>10, <1>11 DEF r

-----------------------------------------------------------------------------
(* A record that changed in one place can still be read.                   *)

LEMMA EditOfEvent ==
    ASSUME NEW e \in HostEvents, NEW field, NEW v,
           field = "channel" => v \in Channels \cup {"missing"},
           field = "payload" => v \in Payloads \cup {"missing"}
    PROVE  /\ [e EXCEPT ![field] = v].channel \in Channels \cup {"missing"}
           /\ [e EXCEPT ![field] = v].payload \in Payloads \cup {"missing"}
<1>1. e = [index |-> e.index, principal |-> e.principal, channel |-> e.channel, payload |-> e.payload,
           auth |-> e.auth, local |-> e.local, decision |-> e.decision, effect |-> e.effect]
      /\ e.channel \in Channels /\ e.payload \in Payloads
  BY DEF HostEvents
<1>2. /\ [e EXCEPT ![field] = v].channel = IF field = "channel" THEN v ELSE e.channel
      /\ [e EXCEPT ![field] = v].payload = IF field = "payload" THEN v ELSE e.payload
  BY <1>1
<1>3. QED
  BY <1>1, <1>2

EventEdit(run, k, field, v, changed) == changed = [run EXCEPT !.events[k] = [@ EXCEPT ![field] = v]]

LEMMA EditOfRunEvent ==
    ASSUME NEW run, NEW state, HonestRun(run, state), NEW k \in DOMAIN run.events, NEW field, NEW v,
           field = "channel" => v \in Channels \cup {"missing"},
           field = "payload" => v \in Payloads \cup {"missing"},
           NEW changed, EventEdit(run, k, field, v, changed)
    PROVE  Readable(changed) /\ Len(changed.events) = Len(run.events)
<1>1. /\ RunShape(run) /\ run.guarded \in BOOLEAN /\ run.events \in Seq(HostEvents)
  BY DEF HonestRun
<1>2. /\ DOMAIN run.events = 1..Len(run.events) /\ Len(run.events) \in Nat
      /\ \A i \in 1..Len(run.events) : run.events[i] \in HostEvents
  BY <1>1, SeqOfOwnRange
<1>3. PICK x : x = [run.events[k] EXCEPT ![field] = v]
  OBVIOUS
<1>4. x.channel \in Channels \cup {"missing"} /\ x.payload \in Payloads \cup {"missing"}
  BY <1>2, <1>3, EditOfEvent
<1>5. PICK ev : ev = [run.events EXCEPT ![k] = x]
  OBVIOUS
<1>6. /\ ev \in Seq(HostEvents \cup {x}) /\ Len(ev) = Len(run.events)
      /\ \A i \in 1..Len(ev) : ev[i] = IF i = k THEN x ELSE run.events[i]
  <2>1. run.events \in Seq(HostEvents \cup {x})
    BY <1>1, <1>2
  <2>2. QED
    BY <2>1, <1>2, <1>5, ExceptSeq
<1>7. PICK other : other = [run EXCEPT !.events = ev]
  OBVIOUS
<1>8. other.guarded = run.guarded /\ other.events = ev
  BY <1>1, <1>7 DEF RunShape
<1>9. [run EXCEPT !.events[k] = [@ EXCEPT ![field] = v]] = other
  BY <1>3, <1>5, <1>7
<1>10. ev \in Seq(Range(ev))
  BY <1>6, SeqOfOwnRange
<1>11. \A i \in 1..Len(ev) : ev[i].channel \in Channels \cup {"missing"} /\ ev[i].payload \in Payloads \cup {"missing"}
  <2> TAKE i \in 1..Len(ev)
  <2>1. CASE i = k
    BY <2>1, <1>4, <1>6
  <2>2. CASE i # k
    <3>1. ev[i] = run.events[i] /\ run.events[i] \in HostEvents
      BY <2>2, <1>2, <1>6
    <3>2. QED
      BY <3>1 DEF HostEvents
  <2>3. QED
    BY <2>1, <2>2
<1>12. Readable(other) /\ Len(other.events) = Len(run.events)
  BY <1>1, <1>6, <1>8, <1>10, <1>11 DEF Readable
<1>13. QED
  BY <1>9, <1>12 DEF EventEdit

(* Every other change leaves the events, or drops some of them.            *)
LEMMA EditElsewhere ==
    ASSUME NEW run, NEW state, HonestRun(run, state), NEW other, other.guarded \in BOOLEAN,
           \/ other.events = run.events \/ other.events = <<>>
           \/ run.events # <<>> /\ other.events = Tail(run.events)
    PROVE  Readable(other) /\ Len(other.events) <= Len(run.events)
<1>1. run.events \in Seq(HostEvents)
  BY DEF HonestRun
<1>2. other.events \in Seq(HostEvents) /\ Len(other.events) <= Len(run.events)
  <2>1. run.events # <<>> => /\ Tail(run.events) \in Seq(HostEvents)
                             /\ Len(Tail(run.events)) = Len(run.events) - 1
    BY <1>1, HeadTailProperties
  <2>2. Len(run.events) \in Nat /\ <<>> \in Seq(HostEvents) /\ Len(<<>>) = 0
    BY <1>1
  <2>3. CASE other.events = run.events
    BY <2>3, <2>2, <1>1
  <2>4. CASE other.events = <<>>
    BY <2>4, <2>2
  <2>5. CASE run.events # <<>> /\ other.events = Tail(run.events)
    BY <2>1, <2>2, <2>5
  <2>6. QED
    BY <2>3, <2>4, <2>5
<1>3. /\ other.events \in Seq(Range(other.events))
      /\ \A i \in 1..Len(other.events) : other.events[i] \in HostEvents
  BY <1>2, SeqOfOwnRange
<1>4. \A e \in HostEvents : e.channel \in Channels /\ e.payload \in Payloads
  BY DEF HostEvents
<1>5. QED
  BY <1>2, <1>3, <1>4 DEF Readable

LEMMA ArrivingIsReadable ==
    ASSUME NEW run, NEW state, HonestRun(run, state), NEW other \in Arriving(run)
    PROVE  Readable(other) /\ Len(other.events) <= Len(run.events)
<1>1. run.events \in Seq(HostEvents) /\ RunShape(run) /\ run.guarded \in BOOLEAN
  BY DEF HonestRun
<1>2. CASE other = run
  BY <1>1, <1>2, HonestIsScannable
<1>3. CASE other \in EditedEvents(run)
  <2> DEFINE at(k, field, v) == [run EXCEPT !.events[k] = [@ EXCEPT ![field] = v]]
        values == [index |-> 0..2,
                   principal |-> {"principal-A", "principal-B", "principal-C", "missing"},
                   channel |-> Channels \cup {"missing"}, payload |-> Payloads \cup {"missing"},
                   auth |-> {"yes", "no", "missing"}, local |-> {"permit", "deny", "review"},
                   decision |-> {"permit", "deny", "review"},
                   effect |-> {"", "summary", "fragment-A", "fragment-B", "missing"}]
        In(k, field) == {at(k, field, v) : v \in values[field]}
        change(k) == UNION {In(k, field) : field \in DOMAIN values}
  <2>1. values["channel"] = Channels \cup {"missing"} /\ values["payload"] = Payloads \cup {"missing"}
    OBVIOUS
  <2>2. other \in UNION {change(k) : k \in DOMAIN run.events}
    BY <1>3, Zenon DEF EditedEvents
  <2> HIDE DEF values, at
  <2>3. PICK k \in DOMAIN run.events : other \in change(k)
    <3> HIDE DEF change
    <3> QED BY <2>2
  <2>4. PICK field : other \in In(k, field)
    <3> HIDE DEF In
    <3> QED BY <2>3
  <2>5. PICK v : v \in values[field] /\ other = at(k, field, v)
    BY <2>4
  <2>8. EventEdit(run, k, field, v, other)
    BY <2>5 DEF at, EventEdit
  <2>11. /\ field = "channel" => v \in Channels \cup {"missing"}
         /\ field = "payload" => v \in Payloads \cup {"missing"}
    BY <2>1, <2>5
  <2>9. Readable(other) /\ Len(other.events) = Len(run.events) /\ Len(run.events) \in Nat
    BY <2>8, <2>11, <1>1, EditOfRunEvent
  <2>10. QED
    BY <2>9
<1>4. CASE other \in Edited(run) /\ other \notin EditedEvents(run) /\ run.events # <<>>
  <2>1. /\ other.guarded \in BOOLEAN
        /\ \/ other.events = run.events \/ other.events = <<>>
           \/ run.events # <<>> /\ other.events = Tail(run.events)
    <3> DEFINE P(x) == /\ x.guarded \in BOOLEAN
                       /\ x.events = run.events \/ x.events = <<>> \/ x.events = Tail(run.events)
    <3>1. P([run EXCEPT !.guarded = ~@]) /\ P([run EXCEPT !.complete = ~@]) /\ P([run EXCEPT !.longId = TRUE])
      BY <1>1 DEF RunShape
    <3>2. P([run EXCEPT !.format = "v2"]) /\ P([run EXCEPT !.policy = "other"])
      BY <1>1 DEF RunShape
    <3>3. P([run EXCEPT !.events = <<>>]) /\ P([run EXCEPT !.events = Tail(@)])
      BY <1>1 DEF RunShape
    <3> DEFINE more == HostGrants(FALSE) \cup
                 {[principal |-> "principal-A", channel |-> "public", payload |-> "fragment", task |-> "other"]}
    <3>4. \A v : P([run EXCEPT !.grants = v]) /\ P([run EXCEPT !.missing = v])
      BY <1>1 DEF RunShape
    <3>9. /\ P([run EXCEPT !.principals = <<"principal-A", "principal-A">>])
          /\ P([run EXCEPT !.principals = <<"principal-A", "">>])
      BY <1>1 DEF RunShape
    <3> HIDE DEF more
    <3>10. P([run EXCEPT !.grants = HostGrants(TRUE)]) /\ P([run EXCEPT !.grants = HostGrants(FALSE)])
           /\ P([run EXCEPT !.grants = more])
      BY <1>1 DEF RunShape
    <3>5. \A v : P([run EXCEPT !.public = v]) /\ P([run EXCEPT !.vault = v])
      BY <1>1 DEF RunShape
    <3> HIDE DEF P
    <3>6. P([run EXCEPT !.grants = {[g EXCEPT !.principal = "principal-C"] : g \in @}])
      <4>1. PICK v : v = {[g EXCEPT !.principal = "principal-C"] : g \in run.grants}
        OBVIOUS
      <4>2. QED
        BY <3>4, <4>1
    <3>7. \A x \in Edited(run) : x \in EditedEvents(run) \/ P(x)
      <4> DEFINE sinks == {<<>>, <<"fragment-A">>, <<"fragment-A", "fragment-B">>, <<"summary">>}
                 S1 == {[run EXCEPT !.guarded = ~@], [run EXCEPT !.complete = ~@], [run EXCEPT !.longId = TRUE],
             [run EXCEPT !.format = "v2"], [run EXCEPT !.policy = "other"], [run EXCEPT !.events = <<>>],
             [run EXCEPT !.events = Tail(@)],
             [run EXCEPT !.principals = <<"principal-A", "principal-A">>],
             [run EXCEPT !.principals = <<"principal-A", "">>],
             [run EXCEPT !.grants = HostGrants(TRUE)], [run EXCEPT !.grants = HostGrants(FALSE)],
             [run EXCEPT !.grants = more],
             [run EXCEPT !.grants = {[g EXCEPT !.principal = "principal-C"] : g \in @}]}
                 S2 == {[run EXCEPT !.missing = {m}] : m \in {"principals", "grants", "public", "vault"}}
                 S3 == {[run EXCEPT !.public = x] : x \in sinks}
                 S4 == {[run EXCEPT !.vault = x] : x \in sinks}
      <4>1. Edited(run) = EditedEvents(run) \cup S1 \cup S2 \cup S3 \cup S4
        BY Zenon DEF Edited, more
      <4> HIDE DEF sinks
      <4>2. \A x \in S1 : P(x)
        BY <3>1, <3>2, <3>3, <3>6, <3>9, <3>10, Zenon
      <4>3. \A x \in S2 : P(x)
        BY <3>4, Zenon
      <4>4. \A x \in S3 : P(x)
        BY <3>5, Zenon
      <4>5. \A x \in S4 : P(x)
        BY <3>5, Zenon
      <4> HIDE DEF S1, S2, S3, S4
      <4>6. QED
        BY <4>1, <4>2, <4>3, <4>4, <4>5, Zenon
    <3>8. QED
      BY <3>7, <1>4 DEF P
  <2>2. QED
    BY <2>1, EditElsewhere
<1>5. run.events = <<>> => other = run
  BY <1>1 DEF Arriving
<1>6. QED
  BY <1>2, <1>3, <1>4, <1>5 DEF Arriving

-----------------------------------------------------------------------------
(* The guard.                                                              *)

LEMMA GuardOfHonest ==
    ASSUME NEW run, NEW state, HonestRun(run, state), run.guarded
    PROVE  /\ ~bothExposed(run)
           /\ \A k \in 1..Len(run.events) :
                 run.events[k].local = "permit" /\ run.events[k].decision = "deny" =>
                    {"fragment-A", "fragment-B"} \subseteq
                       ShownBy(run, k - 1)
                         \cup {IF run.events[k].principal = Actors[1] THEN "fragment-A" ELSE "fragment-B"}
<1>1. /\ Scannable(run) /\ Scan(run).error = "none" /\ Scan(run).public = run.public
      /\ run.principals = Actors /\ run.guarded \in BOOLEAN
  BY HonestIsScannable DEF HonestRun
<1>2. LoopInv(run, Scan(run), Len(run.events)) /\ Len(run.events) \in Nat
  BY HonestLoop
<1>3. ~bothExposed(run)
  <2>1. Scan(run).state # 3
    BY <1>2 DEF LoopInv
  <2>2. Scan(run).first = <<>>
    <3> SUFFICES ASSUME Scan(run).first # <<>> PROVE FALSE
      OBVIOUS
    <3>1. PICK f, p, q \in 1..Len(run.events) :
             FoundAt(run, Scan(run), Len(run.events), 1, p) /\ FoundAt(run, Scan(run), Len(run.events), 2, q)
      BY <1>2 DEF LoopInv, Completion
    <3>2. Scan(run).exposed[1] # <<>> /\ Scan(run).exposed[2] # <<>>
      BY <3>1 DEF FoundAt
    <3>3. QED
      BY <3>2, <2>1, <1>2 DEF LoopInv, Bits
  <2>3. QED
    BY <2>2, <1>1, <1>2, SinkShowsExposure
<1>4. ASSUME NEW k \in 1..Len(run.events), run.events[k].local = "permit", run.events[k].decision = "deny",
             NEW a \in 1..2
      PROVE  \/ Fragment[a] \in ShownBy(run, k - 1)
             \/ Fragment[a] = IF run.events[k].principal = Actors[1] THEN "fragment-A" ELSE "fragment-B"
  <2> DEFINE s == Scans(run)[k - 1]
             t == Scans(run)[k]
             e == run.events[k]
             exposes == e.channel = "public" /\ e.payload = "fragment"
  <2>1. PICK m : m = k - 1
    OBVIOUS
  <2>2. m \in 0..Len(run.events) /\ k \in 0..Len(run.events) /\ m \in Nat /\ s = Scans(run)[m]
    BY <1>2, <2>1
  <2>3. s.error = "none" /\ t.error = "none" /\ ScanShape(s) /\ LoopInv(run, s, m)
    BY <1>1, <2>2, NoErrorBefore, LoopHolds
  <2>4. t = ScanEvent(run, s, k)
    BY <1>1, <2>3, ScansUnfold DEF Scannable
  <2> HIDE DEF s, t
  <2>5. PICK actor \in 1..2 : EventStep(run, s, t, k, actor)
    BY <1>1, <2>3, <2>4, ScanEventFacts
  <2>6. ~Baseline(s, actor, exposes) /\ run.principals[actor] = e.principal
    <3>1. /\ run.principals[actor] = e.principal
          /\ run.guarded => (e.decision = "permit" <=> e.local = "permit" /\ Baseline(s, actor, exposes))
      BY <2>5 DEF EventStep
    <3>2. QED
      BY <3>1, <1>4
  <2>7. s.exposed[a] # <<>> \/ a = actor
    BY <2>6 DEF Baseline
  <2>8. CASE s.exposed[a] # <<>>
    <3>1. PICK p \in 1..m : FoundAt(run, s, m, a, p)
      BY <2>3, <2>8 DEF LoopInv, Exposure, Hidden
    <3>2. QED
      BY <3>1, <2>1, ShownByShows DEF FoundAt
  <2>9. CASE a = actor
    <3>1. Actors[1] = "principal-A" /\ Actors[2] = "principal-B"
      BY DEF Actors
    <3>2. e.principal = Actors[a]
      BY <2>6, <2>9, <1>1
    <3>3. QED
      BY <3>1, <3>2, Fragments
  <2>10. QED
    BY <2>7, <2>8, <2>9
<1>5. QED
  BY <1>3, <1>4, Fragments

-----------------------------------------------------------------------------
(* The invariant.                                                          *)

Stages == {"serving", "ended", "writing", "recorded", "refused", "reported"}
FileNames == {"bundle.json", "trust-policy.json", "reports.json"}

HostInv ==
    /\ host = [stage |-> host.stage, state |-> host.state, edited |-> host.edited, run |-> host.run]
    /\ host.stage \in Stages /\ host.edited \in BOOLEAN /\ host.state \in 0..3
    /\ Len(host.run.events) \in Nat /\ Len(host.run.events) <= MaxRequests /\ Readable(host.run)
    /\ host.stage # "reported" => ~host.edited
    /\ ~host.edited => HonestRun(host.run, host.state)

FilesInv ==
    /\ files \in Seq(FileNames) /\ Len(files) <= 3
    /\ host.stage \in {"serving", "ended"} => files = <<>> /\ verdict = <<>>
    /\ host.stage = "writing" => Len(files) <= 2

VerdictInv ==
    /\ Len(signed) \in {0, 1}
    /\ \/ verdict = <<>>
       \/ verdict = <<Report("invalid", "authentication")>>
       \/ verdict = <<Check(host.run)>>
       \/ signed = <<host.run>> /\ verdict = <<[Check(host.run) EXCEPT !.authenticated = TRUE]>>

ExecInv == HostInv /\ FilesInv /\ VerdictInv

LEMMA InitExecInv == ExecInit => ExecInv
<1> SUFFICES ASSUME ExecInit PROVE ExecInv
  OBVIOUS
<1>1. PICK guarded, revoke_b \in BOOLEAN :
          host = [stage |-> "serving", state |-> 0, edited |-> FALSE, run |-> EmptyRun(guarded, revoke_b)]
  BY DEF ExecInit
<1>2. /\ host.stage = "serving" /\ host.state = 0 /\ host.edited = FALSE
      /\ host.run = EmptyRun(guarded, revoke_b)
      /\ host = [stage |-> host.stage, state |-> host.state, edited |-> host.edited, run |-> host.run]
  BY <1>1
<1>3. HonestRun(host.run, 0)
  BY <1>2, EmptyIsHonest
<1>4. Readable(host.run)
  BY <1>3, HonestIsScannable
<1>5. host.run.events = <<>> /\ Len(host.run.events) = 0
  BY <1>2 DEF EmptyRun
<1>10. MaxRequests \in Nat
  BY ExecutedAssumption
<1>11. host.edited \in BOOLEAN /\ ~host.edited
  BY <1>2
<1>6. HostInv
  BY <1>2, <1>3, <1>4, <1>5, <1>10, <1>11 DEF HostInv, Stages
<1>7. FilesInv
  BY <1>2 DEF ExecInit, FilesInv
<1>8. VerdictInv
  BY DEF ExecInit, VerdictInv
<1>9. QED
  BY <1>6, <1>7, <1>8 DEF ExecInv

LEMMA StepHostExecute ==
    ASSUME ExecInv, NEW q \in HostRequests, HostExecute(q)
    PROVE  ExecInv'
<1> DEFINE run == host.run
           other == NextRun(run, host.state, q)
           next == NextState(run, host.state, q)
<1>1. /\ host.stage = "serving" /\ Len(run.events) < MaxRequests /\ UNCHANGED <<signed, files, verdict>>
      /\ ~host.edited /\ HonestRun(run, host.state) /\ Len(run.events) \in Nat
      /\ host = [stage |-> host.stage, state |-> host.state, edited |-> host.edited, run |-> host.run]
  BY DEF HostExecute, ExecInv, HostInv
<1>2. q \in Requests
  BY ExecutedAssumption DEF Requests
<1>3. HonestRun(other, next)
  BY <1>1, <1>2, HonestStep
<1>4. RunShape(run)
  BY <1>1 DEF HonestRun
<1>5. host' = [host EXCEPT !.state = next, !.run = other]
  <2> DEFINE chosen == Chosen(run, RowOf(run, host.state, q))
             effect == EffectOf(run, host.state, q)
             event == EventOf(run, host.state, q, Len(run.events))
             to(channel, sink) == IF chosen /\ q.channel = channel THEN Append(sink, effect) ELSE sink
  <2>1. host' = [host EXCEPT !.state = next,
            !.run.events = Append(@, event),
            !.run.public = to("public", @), !.run.vault = to("vault", @)]
    BY Zenon DEF HostExecute, NextState, RowOf, EffectOf, EventOf
  <2>2. other = [run EXCEPT !.events = Append(@, event), !.public = to("public", @), !.vault = to("vault", @)]
    BY Zenon DEF NextRun
  <2> HIDE DEF event, to, next, other, run
  <2>3. QED
    BY <2>1, <2>2, <1>1, <1>4 DEF RunShape, run
<1> HIDE DEF other, next
<1>6. /\ host'.stage = "serving" /\ host'.state = next /\ host'.edited = host.edited /\ host'.run = other
      /\ host' = [stage |-> host'.stage, state |-> host'.state, edited |-> host'.edited, run |-> host'.run]
  BY <1>1, <1>5
<1>7. Len(other.events) = Len(run.events) + 1
  <2>1. run.events \in Seq(HostEvents)
    BY <1>1 DEF HonestRun
  <2>2. other.events = Append(run.events, EventOf(run, host.state, q, Len(run.events)))
    BY <1>4 DEF other, NextRun, RunShape
  <2>3. EventOf(run, host.state, q, Len(run.events)) \in HostEvents
    <3>1. run.guarded \in BOOLEAN
      BY <1>1 DEF HonestRun
    <3>2. QED
      BY <3>1, <1>1, <1>2, HostEventTyped
  <2> HIDE DEF run
  <2>4. QED
    BY <2>1, <2>2, <2>3, AppendProperties
<1>8. Readable(other) /\ next \in 0..3
  BY <1>3, HonestIsScannable, HonestLoop
<1>13. host'.edited \in BOOLEAN /\ ~host'.edited
  <2>1. host.edited \in BOOLEAN
    BY DEF ExecInv, HostInv
  <2>2. QED
    BY <2>1, <1>1, <1>6
<1>14. MaxRequests \in Nat
  BY ExecutedAssumption
<1>9. HostInv'
  <2> HIDE DEF run
  <2>1. Len(other.events) \in Nat /\ Len(other.events) <= MaxRequests
    BY <1>1, <1>7, <1>14
  <2>2. QED
    BY <1>3, <1>6, <1>8, <1>13, <2>1 DEF HostInv, Stages
<1>10. FilesInv'
  BY <1>1, <1>6 DEF ExecInv, FilesInv
<1>11. VerdictInv'
  BY <1>1 DEF ExecInv, FilesInv, VerdictInv
<1>12. QED
  BY <1>9, <1>10, <1>11 DEF ExecInv

(* A step that leaves the record and the host's own state alone.           *)
LEMMA StageStep ==
    ASSUME ExecInv, NEW st \in Stages, host' = [host EXCEPT !.stage = st],
           host.stage # "reported", st # "reported"
    PROVE  HostInv' /\ host'.run = host.run /\ host'.stage = st
<1>1. /\ host = [stage |-> host.stage, state |-> host.state, edited |-> host.edited, run |-> host.run]
      /\ host.edited \in BOOLEAN /\ ~host.edited /\ host.state \in 0..3
      /\ Len(host.run.events) \in Nat /\ Len(host.run.events) <= MaxRequests /\ Readable(host.run)
      /\ HonestRun(host.run, host.state)
  BY DEF ExecInv, HostInv
<1>2. /\ host'.stage = st /\ host'.state = host.state /\ host'.edited = host.edited /\ host'.run = host.run
      /\ host' = [stage |-> host'.stage, state |-> host'.state, edited |-> host'.edited, run |-> host'.run]
  BY <1>1
<1>3. HostInv'
  BY <1>1, <1>2 DEF HostInv
<1>4. QED
  BY <1>2, <1>3

LEMMA StepHostEnd ==
    ASSUME ExecInv, NEW withheld, HostEnd(withheld)
    PROVE  ExecInv'
<1> DEFINE run == host.run
           other == [run EXCEPT !.missing = withheld]
<1>1. /\ host.stage = "serving" /\ UNCHANGED <<signed, files, verdict>>
      /\ ~host.edited /\ host.edited \in BOOLEAN /\ host.state \in 0..3 /\ HonestRun(run, host.state)
      /\ Len(run.events) \in Nat /\ Len(run.events) <= MaxRequests
      /\ host = [stage |-> host.stage, state |-> host.state, edited |-> host.edited, run |-> host.run]
  BY DEF HostEnd, ExecInv, HostInv
<1>2. HonestRun(other, host.state) /\ other.events = run.events
  BY <1>1, HonestEnd
<1>3. host' = [host EXCEPT !.stage = "ended", !.run = other]
  <2>1. host' = [host EXCEPT !.stage = "ended", !.run.missing = withheld]
    BY DEF HostEnd
  <2>2. QED
    BY <2>1, <1>1
<1>4. Readable(other)
  BY <1>2, HonestIsScannable
<1> HIDE DEF other
<1>5. /\ host'.stage = "ended" /\ host'.state = host.state /\ host'.edited = host.edited /\ host'.run = other
      /\ host' = [stage |-> host'.stage, state |-> host'.state, edited |-> host'.edited, run |-> host'.run]
  BY <1>1, <1>3
<1> HIDE DEF run
<1>6. HostInv'
  BY <1>1, <1>2, <1>4, <1>5 DEF HostInv, Stages
<1>7. FilesInv'
  BY <1>1, <1>5 DEF ExecInv, FilesInv
<1>8. VerdictInv'
  BY <1>1 DEF ExecInv, FilesInv, VerdictInv
<1>9. QED
  BY <1>6, <1>7, <1>8 DEF ExecInv

LEMMA StepSeal ==
    ASSUME ExecInv, Seal
    PROVE  ExecInv'
<1> DEFINE report == [Check(host.run) EXCEPT !.authenticated = TRUE]
<1>1. host.stage = "ended" /\ signed' = <<host.run>> /\ UNCHANGED files
      /\ files = <<>> /\ verdict = <<>>
  BY DEF Seal, ExecInv, FilesInv
<1>2. \/ host' = [host EXCEPT !.stage = "refused"] /\ UNCHANGED verdict
      \/ host' = [host EXCEPT !.stage = "writing"] /\ verdict' = <<report>>
  BY Zenon DEF Seal
<1>3. /\ HostInv' /\ host'.run = host.run
      /\ \/ host'.stage = "refused" /\ UNCHANGED verdict
         \/ host'.stage = "writing" /\ verdict' = <<report>>
  <2>1. "refused" \in Stages /\ "writing" \in Stages
    BY DEF Stages
  <2>2. QED
    BY <1>1, <1>2, <2>1, StageStep
<1> HIDE DEF report
<1>4. FilesInv'
  BY <1>1, <1>3 DEF ExecInv, FilesInv
<1>5. VerdictInv'
  <2>1. Len(signed') = 1
    BY <1>1
  <2>2. \/ verdict' = <<>>
        \/ signed' = <<host'.run>> /\ verdict' = <<[Check(host'.run) EXCEPT !.authenticated = TRUE]>>
    BY <1>1, <1>3, Zenon DEF report
  <2>3. QED
    BY <2>1, <2>2 DEF VerdictInv
<1>6. QED
  BY <1>3, <1>4, <1>5 DEF ExecInv

LEMMA StepWriteOutput ==
    ASSUME ExecInv, WriteOutput
    PROVE  ExecInv'
<1>1. /\ host.stage = "writing" /\ UNCHANGED <<signed, verdict>>
      /\ files \in Seq(FileNames) /\ Len(files) <= 2 /\ Len(files) \in Nat
      /\ host = [stage |-> host.stage, state |-> host.state, edited |-> host.edited, run |-> host.run]
  BY DEF WriteOutput, ExecInv, FilesInv, HostInv
<1>2. Append(files, Outputs[Len(files) + 1]) \in Seq(FileNames)
      /\ Len(Append(files, Outputs[Len(files) + 1])) = Len(files) + 1
  <2>1. Outputs[Len(files) + 1] \in FileNames
    BY <1>1 DEF Outputs, FileNames
  <2>2. QED
    BY <2>1, <1>1, AppendProperties
<1>3. \E st \in {"recorded", "writing", "refused"} :
         /\ host' = [host EXCEPT !.stage = st]
         /\ \/ files' = Append(files, Outputs[Len(files) + 1]) /\ (st = "writing" => Len(files) # 2)
            \/ UNCHANGED files /\ st # "writing"
  <2>1. CASE host' = [host EXCEPT !.stage = "refused"] /\ UNCHANGED files
    BY <2>1
  <2>2. CASE /\ files' = Append(files, Outputs[Len(files) + 1])
             /\ host' = [host EXCEPT !.stage = IF Len(files) = 2 THEN "recorded" ELSE @]
    <3>1. CASE Len(files) = 2
      BY <2>2, <3>1
    <3>2. CASE Len(files) # 2
      <4>1. host' = [host EXCEPT !.stage = "writing"]
        BY <2>2, <3>2, <1>1
      <4>2. QED
        BY <4>1, <2>2, <3>2
    <3>3. QED
      BY <3>1, <3>2
  <2>3. QED
    BY <2>1, <2>2 DEF WriteOutput
<1>4. PICK st \in {"recorded", "writing", "refused"} :
         /\ host' = [host EXCEPT !.stage = st]
         /\ \/ files' = Append(files, Outputs[Len(files) + 1]) /\ (st = "writing" => Len(files) # 2)
            \/ UNCHANGED files /\ st # "writing"
  BY <1>3
<1>5. HostInv' /\ host'.run = host.run /\ host'.stage = st
  <2>1. st \in Stages /\ st # "reported"
    BY DEF Stages
  <2>2. QED
    BY <1>1, <1>4, <2>1, StageStep
<1>6. FilesInv'
  <2>3. ASSUME files' = Append(files, Outputs[Len(files) + 1]), st = "writing" => Len(files) # 2
        PROVE  files' \in Seq(FileNames) /\ Len(files') <= 3 /\ (st = "writing" => Len(files') <= 2)
    <3>1. Len(files') = Len(files) + 1 /\ files' \in Seq(FileNames)
      BY <2>3, <1>2
    <3>2. \A n, m : n \in Nat /\ n <= 2 /\ m = n + 1 => m <= 3 /\ (n # 2 => m <= 2)
      OBVIOUS
    <3>3. Len(files') <= 3 /\ (Len(files) # 2 => Len(files') <= 2)
      BY <3>1, <3>2, <1>1, Zenon
    <3>4. QED
      BY <3>1, <3>3, <2>3, Zenon
  <2>4. ASSUME UNCHANGED files, st # "writing"
        PROVE  files' \in Seq(FileNames) /\ Len(files') <= 3 /\ (st = "writing" => Len(files') <= 2)
    <3>1. files' = files
      BY <2>4
    <3>2. QED
      BY <3>1, <2>4, <1>1
  <2>1. files' \in Seq(FileNames) /\ Len(files') <= 3 /\ (st = "writing" => Len(files') <= 2)
    BY <1>4, <2>3, <2>4
  <2>2. host'.stage \notin {"serving", "ended"}
    BY <1>4, <1>5
  <2>5. QED
    BY <2>1, <2>2, <1>5 DEF FilesInv
<1>7. VerdictInv'
  BY <1>1, <1>5 DEF ExecInv, VerdictInv
<1>8. QED
  BY <1>5, <1>6, <1>7 DEF ExecInv

(* A reader's verdict on what arrived.                                     *)
LEMMA StepReported ==
    ASSUME ExecInv, host.stage # "reported", NEW run \in Arriving(host.run), NEW report, Reported(run, report),
           \/ report = Report("invalid", "authentication")
           \/ report = Check(run)
           \/ signed = <<run>> /\ report = [Check(run) EXCEPT !.authenticated = TRUE]
    PROVE  ExecInv'
<1>1. /\ host = [stage |-> host.stage, state |-> host.state, edited |-> host.edited, run |-> host.run]
      /\ host.state \in 0..3 /\ Len(host.run.events) \in Nat /\ Len(host.run.events) <= MaxRequests
      /\ HonestRun(host.run, host.state)
  BY DEF ExecInv, HostInv
<1>2. verdict' = <<report>> /\ UNCHANGED <<signed, files>>
      /\ host' = [host EXCEPT !.stage = "reported", !.run = run, !.edited = run # host.run]
  BY DEF Reported
<1>3. Readable(run) /\ Len(run.events) <= Len(host.run.events)
  BY <1>1, ArrivingIsReadable
<1>4. /\ host'.stage = "reported" /\ host'.run = run /\ host'.state = host.state
      /\ host'.edited = (run # host.run)
      /\ host' = [stage |-> host'.stage, state |-> host'.state, edited |-> host'.edited, run |-> host'.run]
  BY <1>1, <1>2
<1>5. Len(run.events) \in Nat
  BY <1>3 DEF Readable
<1>6. MaxRequests \in Nat
  BY ExecutedAssumption
<1>7. HostInv'
  <2>1. host'.edited \in BOOLEAN /\ (~host'.edited => run = host.run)
    <3>1. CASE run = host.run
      <4>1. host'.edited = FALSE
        BY <3>1, <1>4
      <4>2. QED
        BY <4>1, <3>1
    <3>2. CASE run # host.run
      <4>1. host'.edited = TRUE
        BY <3>2, <1>4
      <4>2. QED
        BY <4>1
    <3>3. QED
      BY <3>1, <3>2
  <2>2. Len(run.events) <= MaxRequests
    BY <1>1, <1>3, <1>5, <1>6
  <2>3. ~host'.edited => HonestRun(host'.run, host'.state)
    BY <2>1, <1>1, <1>4
  <2>4. QED
    BY <1>1, <1>3, <1>4, <1>5, <2>1, <2>2, <2>3 DEF HostInv, Stages
<1>8. FilesInv'
  BY <1>2, <1>4 DEF ExecInv, FilesInv
<1>9. VerdictInv'
  <2>1. Len(signed') \in {0, 1}
    BY <1>2 DEF ExecInv, VerdictInv
  <2>2. \/ verdict' = <<Report("invalid", "authentication")>>
        \/ verdict' = <<Check(host'.run)>>
        \/ signed' = <<host'.run>> /\ verdict' = <<[Check(host'.run) EXCEPT !.authenticated = TRUE]>>
    BY <1>2, <1>4
  <2>3. QED
    BY <2>1, <2>2 DEF VerdictInv
<1>10. QED
  BY <1>7, <1>8, <1>9 DEF ExecInv

LEMMA NextExecInv == ExecInv /\ [ExecNext]_execVars => ExecInv'
<1> SUFFICES ASSUME ExecInv, [ExecNext]_execVars PROVE ExecInv'
  OBVIOUS
<1>1. ASSUME NEW q \in HostRequests, HostExecute(q) PROVE ExecInv'
  BY <1>1, StepHostExecute
<1>2. ASSUME NEW withheld \in {{}, {"grants"}}, HostEnd(withheld) PROVE ExecInv'
  BY <1>2, StepHostEnd
<1>3. CASE Seal
  BY <1>3, StepSeal
<1>4. CASE WriteOutput
  BY <1>4, StepWriteOutput
<1>5. CASE CheckUnsigned
  <2>1. PICK run \in Arriving(host.run) : Reported(run, Check(run))
    BY <1>5 DEF CheckUnsigned
  <2>2. host.stage # "reported"
    BY <1>5 DEF CheckUnsigned
  <2>3. QED
    BY <2>1, <2>2, StepReported
<1>6. ASSUME NEW trusted \in BOOLEAN, CheckBundle(trusted) PROVE ExecInv'
  <2>1. PICK run \in Arriving(host.run) : Reported(run, CheckSigned(run, trusted))
    BY <1>6 DEF CheckBundle
  <2>2. host.stage # "reported"
    BY <1>6 DEF CheckBundle
  <2>3. \/ CheckSigned(run, trusted) = Report("invalid", "authentication")
        \/ signed = <<run>> /\ CheckSigned(run, trusted) = [Check(run) EXCEPT !.authenticated = TRUE]
    BY Zenon DEF CheckSigned
  <2>4. PICK report : report = CheckSigned(run, trusted)
    OBVIOUS
  <2>5. QED
    BY <2>1, <2>2, <2>3, <2>4, StepReported
<1>7. CASE UNCHANGED execVars
  <2>1. host' = host /\ signed' = signed /\ files' = files /\ verdict' = verdict
    BY <1>7 DEF execVars
  <2>2. HostInv' /\ FilesInv' /\ VerdictInv'
    BY <2>1 DEF ExecInv, HostInv, FilesInv, VerdictInv
  <2>3. QED
    BY <2>2 DEF ExecInv
<1>8. QED
  BY <1>1, <1>2, <1>3, <1>4, <1>5, <1>6, <1>7 DEF ExecNext

(* The report of a check, however it was authenticated.                    *)
LEMMA VerdictIsCheck ==
    ASSUME ExecInv, verdict # <<>>
    PROVE  /\ Len(verdict) <= 1 /\ verdict[1].knowledge \in Knowledge
           /\ verdict[1].authenticated = TRUE => signed = <<host.run>>
           /\ \/ verdict[1] = Report("invalid", "authentication")
              \/ /\ verdict[1].knowledge = Check(host.run).knowledge
                 /\ verdict[1].first = Check(host.run).first
                 /\ verdict[1].participating = Check(host.run).participating
<1> DEFINE c == Check(host.run)
           r == verdict[1]
<1>1. ReportShape(c) /\ c.authenticated = FALSE
  BY CheckFacts DEF ExecInv, HostInv
<1> HIDE DEF c
<1>2. CASE verdict = <<Report("invalid", "authentication")>>
  <2>1. r = Report("invalid", "authentication") /\ Len(verdict) = 1
    BY <1>2
  <2>2. r.knowledge = "invalid" /\ r.authenticated = FALSE
    BY <2>1 DEF Report
  <2>3. QED
    BY <2>1, <2>2 DEF Knowledge
<1>3. CASE verdict = <<c>>
  <2>1. r = c /\ Len(verdict) = 1
    BY <1>3
  <2>2. QED
    BY <2>1, <1>1 DEF ReportShape, c
<1>4. CASE signed = <<host.run>> /\ verdict = <<[c EXCEPT !.authenticated = TRUE]>>
  <2>1. r = [c EXCEPT !.authenticated = TRUE] /\ Len(verdict) = 1
    BY <1>4
  <2>2. r.knowledge = c.knowledge /\ r.first = c.first /\ r.participating = c.participating
    BY <2>1, <1>1 DEF ReportShape
  <2>3. QED
    BY <2>1, <2>2, <1>1, <1>4 DEF ReportShape, c
<1>5. QED
  BY <1>2, <1>3, <1>4, Zenon DEF ExecInv, VerdictInv, c

LEMMA ExecInvIsSound == ExecInv => VerdictsAreSound
<1> SUFFICES ASSUME ExecInv PROVE VerdictsAreSound
  OBVIOUS
<1> DEFINE run == host.run
           r == verdict[1]
           c == Check(run)
<1>1. Readable(run) /\ (~host.edited => HonestRun(run, host.state)) /\ (host.stage # "reported" => ~host.edited)
  BY DEF ExecInv, HostInv
<1>2. verdict # <<>> =>
         /\ Len(verdict) <= 1 /\ r.knowledge \in Knowledge
         /\ r.authenticated = TRUE => signed = <<run>>
         /\ \/ r = Report("invalid", "authentication")
            \/ /\ r.knowledge = c.knowledge /\ r.first = c.first /\ r.participating = c.participating
  BY VerdictIsCheck
<1>3. Report("invalid", "authentication").knowledge = "invalid" /\ Report("invalid", "authentication").why = "authentication"
  BY DEF Report
<1>4. ReportShape(c) /\ (c.knowledge \in {"safe", "violated"} =>
         (c.knowledge = "violated" <=> bothExposed(run)) /\ (c.knowledge = "violated" => Earliest(run, c)))
  BY <1>1, CheckFacts, ConclusionIsSound
<1>5. verdict # <<>> /\ r.knowledge \in {"safe", "violated"} =>
         (r.knowledge = "violated" <=> bothExposed(run)) /\ (r.knowledge = "violated" => Earliest(run, r))
  <2> SUFFICES ASSUME verdict # <<>>, r.knowledge \in {"safe", "violated"}
               PROVE  (r.knowledge = "violated" <=> bothExposed(run)) /\ (r.knowledge = "violated" => Earliest(run, r))
    OBVIOUS
  <2> HIDE DEF r, c, run
  <2>1. r.knowledge = c.knowledge /\ r.first = c.first /\ r.participating = c.participating
    BY <1>2, <1>3
  <2>2. Earliest(run, c) => Earliest(run, r)
    BY <2>1, Zenon DEF Earliest
  <2>3. QED
    BY <2>1, <2>2, <1>4
<1>6. ExecTypeOK
  <2>1. verdict = <<>> => Len(verdict) <= 1
    OBVIOUS
  <2>2. Len(verdict) <= 1 /\ (verdict # <<>> => r.knowledge \in Knowledge)
    BY <1>2, <2>1
  <2>3. host.stage \in Stages /\ host.state \in 0..3 /\ Len(host.run.events) <= MaxRequests
    BY DEF ExecInv, HostInv
  <2>4. Len(files) <= 3
    BY DEF ExecInv, FilesInv
  <2>5. Len(signed) <= 1
    <3>1. Len(signed) \in {0, 1}
      BY DEF ExecInv, VerdictInv
    <3>2. \A n : n \in {0, 1} => n <= 1
      OBVIOUS
    <3>3. QED
      BY <3>1, <3>2, Zenon
  <2>6. QED
    BY <2>2, <2>3, <2>4, <2>5 DEF ExecTypeOK, Stages, Knowledge
<1>7. HonestRunsCheckOut
  <2> SUFFICES ASSUME verdict # <<>>, ~host.edited, Len(run.events) <= EventLimit, r.why # "authentication"
               PROVE  /\ r.knowledge # "invalid"
                      /\ r.knowledge = "violated" => bothExposed(run)
                      /\ r.knowledge = "safe" => ~bothExposed(run)
                      /\ run.missing = {} /\ run.events # <<>> => r.knowledge # "inconclusive"
    BY Zenon DEF HonestRunsCheckOut
  <2> HIDE DEF r, c, run
  <2>1. r.knowledge = c.knowledge
    BY <1>2, <1>3
  <2>2. /\ c.knowledge # "invalid"
        /\ run.missing = {} /\ run.events # <<>> => c.knowledge # "inconclusive"
    BY <1>1, HonestIsNeverInvalid DEF c
  <2>3. QED
    BY <2>1, <2>2, <1>5
<1>8. VerdictFollowsTheSink
  <2>1. verdict # <<>> =>
          /\ r.knowledge = "safe" => ~bothExposed(run)
          /\ r.knowledge = "violated" => bothExposed(run)
          /\ r.authenticated => signed = <<run>>
    <3> HIDE DEF r, c, run
    <3> QED BY <1>2, <1>5
  <2>2. QED
    BY <2>1, Zenon DEF VerdictFollowsTheSink
<1>9. GuardIsExact
  <2> SUFFICES ASSUME host.stage = "serving", run.guarded PROVE
          /\ ~bothExposed(run)
          /\ \A k \in DOMAIN run.events :
                LET e == run.events[k]
                    own == IF e.principal = Actors[1] THEN "fragment-A" ELSE "fragment-B"
                IN e.local = "permit" /\ e.decision = "deny" =>
                      {"fragment-A", "fragment-B"} \subseteq ShownBy(run, k - 1) \cup {own}
    BY Zenon DEF GuardIsExact, ShownBy
  <2>1. HonestRun(run, host.state)
    BY <1>1
  <2>2. DOMAIN run.events = 1..Len(run.events)
    BY <1>1, SeqOfOwnRange DEF Readable
  <2>3. QED
    BY <2>1, <2>2, GuardOfHonest
<1>10. FirstForbiddenIsEarliest
  <2>1. verdict # <<>> /\ r.knowledge = "violated" => Earliest(run, r)
    <3> HIDE DEF r, c, run
    <3> QED BY <1>5
  <2>2. QED
    BY <2>1, Zenon DEF FirstForbiddenIsEarliest, Earliest, ShownBy
<1>11. QED
  BY <1>6, <1>7, <1>8, <1>9, <1>10 DEF VerdictsAreSound

(* In every behaviour of the experiment a verdict is sound: an honest      *)
(* record checks out, the verdict follows what reached the public sink,    *)
(* the guard denies exactly the request that would complete the release,   *)
(* and the report points at the event that completed it                    *)
(* (executed_composition/mod.rs and transport.rs).                         *)
THEOREM ExecVerdictsAreSound == ExecSpec => []VerdictsAreSound
<1>1. ExecInit => ExecInv
  BY InitExecInv
<1>2. ExecInv /\ [ExecNext]_execVars => ExecInv'
  BY NextExecInv
<1>3. ExecInv => VerdictsAreSound
  BY ExecInvIsSound
<1>4. QED
  BY <1>1, <1>2, <1>3, PTL DEF ExecSpec
=============================================================================

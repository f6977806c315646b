------------------------- MODULE ExecutedComposition -------------------------
(***************************************************************************)
(* The executed composition experiment (src/src/executed_composition):     *)
(* an instrumented host delivers or denies the requests of two principals, *)
(* one by one; its record is checked on the spot (demo), or sealed with a  *)
(* replay receipt, written to a new directory (record) and checked later   *)
(* by a reader (check) who did not see the host.                           *)
(*                                                                         *)
(* On its way to the reader the record may change in one place; what was   *)
(* signed does not change with it.  Contents are "fragment-A",             *)
(* "fragment-B", "summary" and "" (no delivery); a field the host did not  *)
(* record is "missing".                                                    *)
(***************************************************************************)
EXTENDS Integers, Sequences, FiniteSets, Values

CONSTANTS HostRequests,  \* [actor, channel, payload, auth] a principal may make
          MaxRequests,   \* requests of one run
          EventLimit,    \* 256 in check
          GrantLimit,    \* 32 in check
          MaxEdited      \* longest run whose record is changed on its way

Channels == {"public", "vault"}
Payloads == {"fragment", "summary"}

(* The principals, channels and payloads are closed sets in the code, and  *)
(* the host's own eight grants are within the checker's limit.             *)
ASSUME ExecutedAssumption ==
    /\ {MaxRequests, EventLimit, GrantLimit, MaxEdited} \subseteq Nat
    /\ HostRequests \subseteq [actor : 1..2, channel : Channels, payload : Payloads, auth : BOOLEAN]
    /\ GrantLimit >= 8

VARIABLES host,      \* the host and its record: [stage, state, run, edited]
          signed,    \* the run the receipt was issued for; <<>> when none was
          files,     \* files of the output directory, in the order written
          verdict    \* the report a check produced: <<>> or <<report>>

execVars == <<host, signed, files, verdict>>

Actors == <<"principal-A", "principal-B">>

(* The generated table, row by row: what a delivery would make the state   *)
(* (bit 2 for A's fragment, bit 1 for B's), [local, guarded permission,    *)
(* next state without the guard, next state with it].                      *)
TransitionLate(state, actor, payload, channel, auth, delegated) ==
    LET bit == IF actor = 1 THEN 2 ELSE 1
        exposes == payload = "fragment" /\ channel = "public"
        reached == IF exposes /\ (state \div bit) % 2 = 0 THEN state + bit ELSE state
        local == auth /\ delegated
    IN [local |-> local, guarded |-> local /\ state # 3,
        unguardedNext |-> IF local THEN reached ELSE state,
        guardedNext |-> IF local /\ state # 3 THEN reached ELSE state]
Transition(state, actor, payload, channel, auth, delegated) ==
    LET bit == IF actor = 1 THEN 2 ELSE 1
        exposes == payload = "fragment" /\ channel = "public"
        reached == IF exposes /\ (state \div bit) % 2 = 0 THEN state + bit ELSE state
        local == auth /\ delegated
    IN [local |-> local, guarded |-> local /\ reached # 3,
        unguardedNext |-> IF local THEN reached ELSE state,
        guardedNext |-> IF local /\ reached # 3 THEN reached ELSE state]

Content(actor, payload) ==
    IF payload = "summary" THEN "summary" ELSE <<"fragment-A", "fragment-B">>[actor]
Delegated(grants, principal, channel, payload) ==
    \E g \in grants : g = [principal |-> principal, channel |-> channel,
                           payload |-> payload, task |-> "synthetic-release"]
Decide(permitted) == IF permitted THEN "permit" ELSE "deny"

HostGrants(revoke_b) ==
    [principal : {Actors[a] : a \in IF revoke_b THEN {1} ELSE {1, 2}}, channel : Channels,
     payload : Payloads, task : {"synthetic-release"}]

EmptyRun(guarded, revoke_b) ==
    [format |-> "v1", policy |-> "own", longId |-> FALSE, guarded |-> guarded, complete |-> TRUE,
     principals |-> Actors, grants |-> HostGrants(revoke_b), missing |-> {},
     events |-> <<>>, public |-> <<>>, vault |-> <<>>]

Chosen(run, row) == IF run.guarded THEN row.guarded ELSE row.local

-----------------------------------------------------------------------------
(* The reader's check                                                      *)

Report(knowledge, why) ==
    [knowledge |-> knowledge, why |-> why, authenticated |-> FALSE, governance |-> "review",
     perCall |-> "review", fullContext |-> "review", first |-> <<>>, participating |-> <<>>]

InitialScan == [error |-> "none", state |-> 0, public |-> <<>>, vault |-> <<>>, exposed |-> <<<<>>, <<>>>>,
                first |-> <<>>, local |-> TRUE, permitted |-> TRUE, conventional |-> TRUE]

(* The full-context baseline: it looks at the deliveries and the candidate,*)
(* not at the table.                                                       *)
Baseline(s, actor, exposes) == \E a \in 1..2 : s.exposed[a] = <<>> /\ ~(exposes /\ a = actor)

FirstForbidden(s, state, k) == IF state = 3 /\ s.first = <<>> THEN <<k - 1>> ELSE s.first

Readback(run, s) == s.public = run.public /\ s.vault = run.vault

(* The loop body of check for the event at place k, in the code's order.   *)
ScanEvent(run, s, k) ==
    LET e == run.events[k]
        known == {a \in 1..2 : run.principals[a] = e.principal}
        actor == CHOOSE a \in known : TRUE
        scope == Delegated(run.grants, e.principal, e.channel, e.payload)
        auth == e.auth = "yes"
        row == Transition(s.state, actor, e.payload, e.channel, auth, scope)
        chosen == Chosen(run, row)
        expected == IF chosen THEN Content(actor, e.payload) ELSE ""
        exposes == e.channel = "public" /\ e.payload = "fragment"
        conventional == auth /\ scope /\ Baseline(s, actor, exposes)
        dispatched == IF run.guarded THEN conventional ELSE auth /\ scope
        exposed == IF chosen /\ exposes /\ s.exposed[actor] = <<>>
                   THEN [s.exposed EXCEPT ![actor] = <<k - 1>>] ELSE s.exposed
        state == IF run.guarded THEN row.guardedNext ELSE row.unguardedNext
        bits == (IF exposed[1] = <<>> THEN 0 ELSE 2) + (IF exposed[2] = <<>> THEN 0 ELSE 1)
        failed(why) == [s EXCEPT !.error = why]
    IN IF known = {} THEN failed("undeclared principal")
       ELSE IF e.index # k - 1 THEN failed("order")
       ELSE IF e.local # Decide(row.local) \/ e.decision # Decide(chosen) \/ e.effect # expected
       THEN failed("decision or effect")
       ELSE IF dispatched # chosen THEN failed("baseline")
       ELSE IF state # bits THEN failed("abstraction")
       ELSE [error |-> "none", state |-> state, exposed |-> exposed,
             public |-> IF chosen /\ e.channel = "public" THEN Append(s.public, expected) ELSE s.public,
             vault |-> IF chosen /\ e.channel = "vault" THEN Append(s.vault, expected) ELSE s.vault,
             first |-> FirstForbidden(s, state, k),
             local |-> s.local /\ row.local, permitted |-> s.permitted /\ chosen,
             conventional |-> s.conventional /\ conventional]

(* What the loop knows after k events; an error ends it.                   *)
Scans(run) ==
    LET after[k \in 0..Len(run.events)] ==
            IF k = 0 THEN InitialScan
            ELSE IF after[k - 1].error # "none" THEN after[k - 1]
            ELSE ScanEvent(run, after[k - 1], k)
    IN after
Scan(run) == Scans(run)[Len(run.events)]

(* check: the order of its early returns decides between Invalid and       *)
(* Inconclusive.                                                           *)
Check(run) ==
    With({run.principals[a] : a \in 1..2}, LAMBDA declared :
    LET incomplete(e) == "missing" \in {e.principal, e.channel, e.payload, e.auth, e.effect} IN
    With(Scan(run), LAMBDA s :
    With(s.first # <<>>, LAMBDA violated :
       IF run.format # "v1" \/ run.policy # "own" THEN Report("invalid", "format or policy")
       ELSE IF Len(run.events) > EventLimit \/ run.longId THEN Report("invalid", "bounds")
       ELSE IF run.missing # {} THEN Report("inconclusive", "evidence")
       ELSE IF ~run.complete \/ run.events = <<>> THEN Report("inconclusive", "completion")
       ELSE IF \/ "" \in declared \/ Cardinality(declared) < 2 \/ Cardinality(run.grants) > GrantLimit
               \/ \E g \in run.grants : g.principal \notin declared
       THEN Report("invalid", "principals or grants")
       ELSE IF \E k \in DOMAIN run.events : incomplete(run.events[k])
       THEN Report("inconclusive", "event facts")
       ELSE IF s.error # "none" THEN Report("invalid", s.error)
       ELSE IF ~Readback(run, s) THEN Report("invalid", "readback")
       ELSE [knowledge |-> IF violated THEN "violated" ELSE "safe", why |-> "checked",
             authenticated |-> FALSE,
             governance |-> Decide(~violated /\ s.permitted),
             perCall |-> Decide(s.local), fullContext |-> Decide(s.conventional),
             first |-> s.first,
             participating |-> IF violated THEN s.exposed[1] \o s.exposed[2] ELSE <<>>])))

(* authenticate and check_signed: the receipt covers the whole record, and *)
(* the reader's trust policy names the key.                                *)
CheckSigned(run, trusted) ==
    IF signed = <<run>> /\ trusted THEN [Check(run) EXCEPT !.authenticated = TRUE]
    ELSE Report("invalid", "authentication")

-----------------------------------------------------------------------------
ExecInit ==
    /\ \E guarded, revoke_b \in BOOLEAN :
          host = [stage |-> "serving", state |-> 0, edited |-> FALSE,
                  run |-> EmptyRun(guarded, revoke_b)]
    /\ signed = <<>> /\ files = <<>> /\ verdict = <<>>

(* One request at the host boundary: decide, deliver, record.              *)
HostExecute(q) ==
    /\ host.stage = "serving" /\ Len(host.run.events) < MaxRequests
    /\ LET run == host.run
           principal == Actors[q.actor]
           row == Transition(host.state, q.actor, q.payload, q.channel, q.auth,
                             Delegated(run.grants, principal, q.channel, q.payload))
           chosen == Chosen(run, row)
           effect == IF chosen THEN Content(q.actor, q.payload) ELSE ""
           to(channel, sink) == IF chosen /\ q.channel = channel THEN Append(sink, effect) ELSE sink
           event == [index |-> Len(run.events), principal |-> principal, channel |-> q.channel,
                     payload |-> q.payload, auth |-> IF q.auth THEN "yes" ELSE "no",
                     local |-> Decide(row.local), decision |-> Decide(chosen), effect |-> effect]
       IN host' = [host EXCEPT
            !.state = IF run.guarded THEN row.guardedNext ELSE row.unguardedNext,
            !.run.events = Append(@, event),
            !.run.public = to("public", @), !.run.vault = to("vault", @)]
    /\ UNCHANGED <<signed, files, verdict>>

(* The run ends; the suite's last run is kept without its grants.          *)
HostEnd(withheld) ==
    /\ host.stage = "serving"
    /\ host' = [host EXCEPT !.stage = "ended", !.run.missing = withheld]
    /\ UNCHANGED <<signed, files, verdict>>

(* record_suite: the fresh capture must verify itself before anything is   *)
(* written; each file is one write, and a failed one ends the command.     *)
Outputs == <<"bundle.json", "trust-policy.json", "reports.json">>
Seal ==
    /\ host.stage = "ended" /\ signed' = <<host.run>>
    /\ \E report \in {[Check(host.run) EXCEPT !.authenticated = TRUE]} :
          IF report.knowledge = "invalid"
          THEN host' = [host EXCEPT !.stage = "refused"] /\ UNCHANGED verdict
          ELSE host' = [host EXCEPT !.stage = "writing"] /\ verdict' = <<report>>
    /\ UNCHANGED files
WriteOutput ==
    /\ host.stage = "writing"
    /\ \/ /\ files' = Append(files, Outputs[Len(files) + 1])
          /\ host' = [host EXCEPT !.stage = IF Len(files) = 2 THEN "recorded" ELSE @]
       \/ host' = [host EXCEPT !.stage = "refused"] /\ UNCHANGED files
    /\ UNCHANGED <<signed, verdict>>

(* A record that differs from run in one place.                            *)
EditedEvents(run) ==
    LET at(k, field, v) == [run EXCEPT !.events[k] = [@ EXCEPT ![field] = v]]
        values == [index |-> 0..2,
                   principal |-> {"principal-A", "principal-B", "principal-C", "missing"},
                   channel |-> Channels \cup {"missing"}, payload |-> Payloads \cup {"missing"},
                   auth |-> {"yes", "no", "missing"}, local |-> {"permit", "deny", "review"},
                   decision |-> {"permit", "deny", "review"},
                   effect |-> {"", "summary", "fragment-A", "fragment-B", "missing"}]
        change(k) == UNION {{at(k, field, v) : v \in values[field]} : field \in DOMAIN values}
    IN UNION {change(k) : k \in DOMAIN run.events}
Edited(run) ==
    LET sinks == {<<>>, <<"fragment-A">>, <<"fragment-A", "fragment-B">>, <<"summary">>}
    IN EditedEvents(run)
       \cup {[run EXCEPT !.guarded = ~@], [run EXCEPT !.complete = ~@], [run EXCEPT !.longId = TRUE],
             [run EXCEPT !.format = "v2"], [run EXCEPT !.policy = "other"], [run EXCEPT !.events = <<>>],
             [run EXCEPT !.events = Tail(@)],
             [run EXCEPT !.principals = <<"principal-A", "principal-A">>],
             [run EXCEPT !.principals = <<"principal-A", "">>],
             [run EXCEPT !.grants = HostGrants(TRUE)], [run EXCEPT !.grants = HostGrants(FALSE)],
             [run EXCEPT !.grants = HostGrants(FALSE) \cup
                 {[principal |-> "principal-A", channel |-> "public", payload |-> "fragment", task |-> "other"]}],
             [run EXCEPT !.grants = {[g EXCEPT !.principal = "principal-C"] : g \in @}]}
       \cup {[run EXCEPT !.missing = {m}] : m \in {"principals", "grants", "public", "vault"}}
       \cup {[run EXCEPT !.public = s] : s \in sinks} \cup {[run EXCEPT !.vault = s] : s \in sinks}

Arriving(run) == {run} \cup (IF Len(run.events) \in 1..MaxEdited THEN Edited(run) ELSE {})

Reported(run, report) ==
    /\ verdict' = <<report>>
    /\ host' = [host EXCEPT !.stage = "reported", !.run = run, !.edited = run # host.run]
    /\ UNCHANGED <<signed, files>>

(* check --trust: the reader's own verdict on what arrived.                *)
CheckBundle(trusted) ==
    /\ host.stage \in {"recorded", "writing"} /\ Len(files) >= 2
    /\ \E run \in Arriving(host.run) : Reported(run, CheckSigned(run, trusted))

(* demo checks the host's record as it is; the library's check takes any   *)
(* record, and nothing authenticates it.                                   *)
CheckUnsigned ==
    /\ host.stage = "ended"
    /\ \E run \in Arriving(host.run) : Reported(run, Check(run))

ExecNext ==
    \/ \E q \in HostRequests : HostExecute(q)
    \/ \E withheld \in {{}, {"grants"}} : HostEnd(withheld)
    \/ Seal \/ WriteOutput \/ CheckUnsigned
    \/ \E trusted \in BOOLEAN : CheckBundle(trusted)

ExecSpec == ExecInit /\ [][ExecNext]_execVars

-----------------------------------------------------------------------------
(* Properties                                                              *)

(* The record, the files and the report within their bounds.               *)
ExecTypeOK ==
    /\ host.stage \in {"serving", "ended", "writing", "recorded", "refused", "reported"}
    /\ host.state \in 0..3 /\ Len(host.run.events) <= MaxRequests
    /\ Len(files) <= 3 /\ Len(verdict) <= 1 /\ Len(signed) <= 1
    /\ verdict # <<>> => verdict[1].knowledge \in {"safe", "violated", "inconclusive", "invalid"}

publicFragments(run) == {run.public[k] : k \in DOMAIN run.public} \ {"summary"}
bothExposed(run) == publicFragments(run) = {"fragment-A", "fragment-B"}

(* The host and the checker agree: the record of a run within the bounds   *)
(* is never called invalid, and a reader of the untouched signed record    *)
(* learns what the sinks hold (check, execute, check_signed).              *)
HonestRunsCheckOut ==
    LET r == verdict[1]  run == host.run
    IN verdict # <<>> /\ ~host.edited /\ Len(run.events) <= EventLimit /\ r.why # "authentication" =>
          /\ r.knowledge # "invalid"
          /\ r.knowledge = "violated" => bothExposed(run)
          /\ r.knowledge = "safe" => ~bothExposed(run)
          /\ run.missing = {} /\ run.events # <<>> => r.knowledge # "inconclusive"

(* A record that changed in one place is never called safe while its       *)
(* public sink holds both fragments, nor violated while it does not; an    *)
(* authenticated verdict is about the record that was signed (check,       *)
(* authenticate).                                                          *)
VerdictFollowsTheSink ==
    LET r == verdict[1]
    IN verdict # <<>> /\ host.stage = "reported" =>
          /\ r.knowledge = "safe" => ~bothExposed(host.run)
          /\ r.knowledge = "violated" => bothExposed(host.run)
          /\ r.authenticated => signed = <<host.run>>

(* With the guard the joint release never happens, and the guard denies a  *)
(* locally permitted request only when delivering it would complete one    *)
(* (transition, execute).                                                  *)
GuardIsExact ==
    LET run == host.run
        delivered(k) == {run.events[j].effect : j \in {j \in 1..(k - 1) : run.events[j].channel = "public"}}
    IN host.stage = "serving" /\ run.guarded =>
          /\ ~bothExposed(run)
          /\ \A k \in DOMAIN run.events :
                LET e == run.events[k]
                    own == IF e.principal = Actors[1] THEN "fragment-A" ELSE "fragment-B"
                IN e.local = "permit" /\ e.decision = "deny" =>
                      {"fragment-A", "fragment-B"} \subseteq delivered(k) \cup {own}

(* The report points at the event that completed the release, no later     *)
(* one, and at the first delivery of each fragment (check).                *)
FirstForbiddenIsEarliest ==
    LET r == verdict[1]
        public(k) == host.run.events[k].channel = "public"
        shown(n) == {host.run.events[k].effect : k \in {k \in 1..n : public(k)}}
    IN verdict # <<>> /\ r.knowledge = "violated" =>
          LET first == r.first[1] + 1
              both == {"fragment-A", "fragment-B"}
          IN /\ both \subseteq shown(first) /\ ~(both \subseteq shown(first - 1))
             /\ \A n \in 1..2 :
                   LET k == r.participating[n] + 1
                   IN /\ host.run.events[k].effect = <<"fragment-A", "fragment-B">>[n]
                      /\ host.run.events[k].effect \notin shown(k - 1)

(* A verdict on an executed composition is sound: an honest record checks  *)
(* out, the verdict follows what reached the public sink, the guard denies *)
(* exactly the request that would complete the release, and the report     *)
(* points at the event that completed it (executed_composition/mod.rs and  *)
(* transport.rs).                                                          *)
VerdictsAreSound ==
    /\ ExecTypeOK
    /\ HonestRunsCheckOut
    /\ VerdictFollowsTheSink
    /\ GuardIsExact
    /\ FirstForbiddenIsEarliest
=============================================================================

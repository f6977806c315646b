------------------------------ MODULE AuditLog ------------------------------
(***************************************************************************)
(* What the ledger promises to its callers, without SQLite, hashes or      *)
(* schema: every table is a list that only grows, a transaction appends    *)
(* all its rows at once, and an audit answers with the newest rows of all  *)
(* tables as they stood together at one moment during the call.            *)
(***************************************************************************)
EXTENDS Integers, Sequences

CONSTANTS Process, Table, Content, Limit

VARIABLES
    store,    \* per table, the contents of its rows, oldest first
    pinned,   \* per process, the stores its audit call has fixed (at most one)
    answer    \* per process, the last audit answer

vars == <<store, pinned, answer>>

Store == [Table -> Seq(Content)]
NoAnswer == [t \in Table |-> <<>>]

NewestFirst(s) ==
    [i \in 1..(IF Len(s) < Limit THEN Len(s) ELSE Limit) |-> s[Len(s) + 1 - i]]

Init ==
    /\ store \in Store
    /\ pinned = [p \in Process |-> {}]
    /\ answer = [p \in Process |-> NoAnswer]

(* A transaction appends at least one row to one table.                    *)
Grow(t) ==
    /\ Len(store'[t]) > Len(store[t])
    /\ SubSeq(store'[t], 1, Len(store[t])) = store[t]
    /\ \A u \in Table \ {t} : store'[u] = store[u]
    /\ DOMAIN store' = Table
    /\ UNCHANGED <<pinned, answer>>

Pin(p) ==
    /\ pinned' = [pinned EXCEPT ![p] = {store}]
    /\ UNCHANGED <<store, answer>>

Reply(p) ==
    /\ \E s \in pinned[p] :
         answer' = [answer EXCEPT ![p] = [t \in Table |-> NewestFirst(s[t])]]
    /\ pinned' = [pinned EXCEPT ![p] = {}]
    /\ UNCHANGED store

(* The call failed, or its caller is done with the answer.                 *)
Drop(p) ==
    /\ pinned' = [pinned EXCEPT ![p] = {}]
    /\ answer' = [answer EXCEPT ![p] = NoAnswer]
    /\ UNCHANGED store

Next ==
    \/ \E t \in Table : Grow(t)
    \/ \E p \in Process : Pin(p) \/ Reply(p) \/ Drop(p)

Spec == Init /\ [][Next]_vars
=============================================================================

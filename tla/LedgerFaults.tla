---------------------------- MODULE LedgerFaults ----------------------------
(***************************************************************************)
(* The ledger on a file that something else changes: a committed row whose *)
(* content is altered, or a last row that disappears.  The three variables *)
(* observe what verify_chain is expected to notice.                        *)
(***************************************************************************)
EXTENDS Ledger

CONSTANT MaxFaults   \* bound: changes made from outside

ASSUME FaultAssumption == MaxFaults \in Nat

VARIABLES
    faults,    \* changes made so far
    altered,   \* some row's content has been changed
    lost,      \* per table, its last row vanished and no row was added since
    exposed    \* processes whose verification reads the file after the change

faultVars == <<faults, altered, lost, exposed>>

FaultInit ==
    /\ Init
    /\ faults = 0
    /\ altered = FALSE
    /\ lost = [t \in Table |-> FALSE]
    /\ exposed = {}

Damaged == altered \/ \E t \in Table : lost[t]

(* A step of the ledger.  A transaction that adds a row to a table writes  *)
(* a head that agrees with what is left of it.                             *)
LedgerStep ==
    /\ Next
    /\ lost' = [t \in Table |-> lost[t] /\ Len(db'[t].rows) <= Len(db[t].rows)]
    /\ exposed' = {p \in Process : \/ p \in exposed /\ pc'[p] # "columns"
                                   \/ pc[p] = "pin" /\ pc'[p] = "scan" /\ Damaged}
    /\ UNCHANGED <<faults, altered>>

(* Only a table whose chain is complete and anchored is protected.         *)
Protected(t) == db[t].head # NoHead /\ ~Unhashed(db[t].rows)

Overwrite(newDb) ==
    /\ faults < MaxFaults
    /\ faults' = faults + 1
    /\ writer = NoProcess
    /\ db' = newDb
    /\ work' = newDb
    /\ current' = {}
    /\ UNCHANGED <<writer, nextBody, pc, op, at, row, locals, out, exposed>>

AlterContent(t, i, c) ==
    /\ Protected(t)
    /\ db[t].rows[i].content # c
    /\ altered' = TRUE
    /\ Overwrite([db EXCEPT ![t].rows[i].content = c])
    /\ UNCHANGED lost

LoseLastRow(t) ==
    /\ Protected(t)
    /\ db[t].rows # <<>>
    /\ lost' = [lost EXCEPT ![t] = TRUE]
    /\ Overwrite([db EXCEPT ![t].rows = SubSeq(@, 1, Len(@) - 1)])
    /\ UNCHANGED altered

FaultNext ==
    \/ LedgerStep
    \/ \E t \in Table : \E i \in 1..Len(db[t].rows), c \in Content : AlterContent(t, i, c)
    \/ \E t \in Table : LoseLastRow(t)

FaultSpec == FaultInit /\ [][FaultNext]_<<vars, faultVars>>

(* verify_chain answers "valid" to no process that read the file after a   *)
(* row was altered, or after the last row was lost and before the next     *)
(* record of that table anchored the shorter chain; other processes may    *)
(* have recorded, migrated and verified meanwhile.                         *)
DamageReported == \A p \in exposed : out[p] # "valid"
=============================================================================

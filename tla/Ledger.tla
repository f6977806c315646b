------------------------------- MODULE Ledger -------------------------------
(***************************************************************************)
(* The hash-chained SQLite ledger (src/src/ledger.rs and                   *)
(* src/src/ledger/chain/).                                                 *)
(*                                                                         *)
(* Several operating-system processes share one database file.  Inside a   *)
(* process LEDGER_LOCK lets one operation run at a time, so a process is   *)
(* one thread of control here.  Every operation opens a connection, runs   *)
(* the schema phase of with_connection (columns, backfill, chain heads) as *)
(* separate auto-committed statements, and then its own body: nothing      *)
(* (open), immediate write transactions (the record calls), or one         *)
(* deferred read transaction (audit, verify_chain).                        *)
(*                                                                         *)
(* SQLite in WAL mode is the external part.  A write transaction works on  *)
(* a private copy that COMMIT publishes; there is one writer; readers      *)
(* never block and a read transaction sees the snapshot of its first read; *)
(* a reader whose snapshot is not the newest cannot become a writer.       *)
(***************************************************************************)
EXTENDS Integers, Sequences, FiniteSets

CONSTANTS
    Process,        \* the processes that share the file
    NoProcess,      \* no process: the write lock is free
    TableSeq,       \* the chained tables, in the order the schema phase visits them
    MaxBody,        \* bound: record contents are numbered 1..MaxBody
    MaxBatch,       \* bound: rows one record call submits
    FirstBody,      \* the first content number the processes submit
    InitialDbs,     \* the database files that may be found on disk
    Limit,          \* rows per table an audit query asks for (LedgerQuery.limit)
    Ops             \* the calls the processes make

ASSUME LedgerAssumption ==
    /\ NoProcess \notin Process
    /\ TableSeq \in Seq({"compiled_rules", "certificates",
                         "declared_sacrifices", "paradox_results"})
    /\ Len(TableSeq) > 0
    /\ \A i, j \in 1..Len(TableSeq) : TableSeq[i] = TableSeq[j] => i = j
    /\ MaxBody \in Nat /\ MaxBatch \in Nat
    /\ FirstBody \in 1..(MaxBody + 1)
    /\ Limit \in Nat \ {0}
    /\ Ops \subseteq {"open", "record", "audit", "verify"}

Table == {TableSeq[i] : i \in 1..Len(TableSeq)}

(* A row's content: what the original columns hold, and the column added   *)
(* later (strategyproofness_json, compiled_rule_hash), "default" or not.   *)
Content == [body : 1..MaxBody, ext : {"default", "set"}]

(* The tables that gained a column after the chain existed.                *)
Extended == {"compiled_rules", "certificates"}

ContentJson(c) == <<c.body, c.ext>>
LegacyContentJson(c) == <<c.body>>

(* SHA-256 over previous hash, rowid and content is taken as injective: a  *)
(* hash is the list of what was hashed, and the empty string is the empty  *)
(* list.  Previous hashes have length 0 or 64 and the content starts with  *)
(* a brace, so the concatenation is unambiguous.                           *)
EmptyHash == <<>>
ChainHash(prev, rowid, json) == Append(prev, <<rowid, json>>)

Column == {"ext", "prev_hash", "row_hash"}
NoHead == [count |-> -1, hash |-> EmptyHash]

NewRow(c, prev) == [content |-> c, prev |-> prev, hash |-> EmptyHash]

(* previous_hash: the row_hash of the last row, or the empty string.       *)
LastHash(rows) == IF rows = <<>> THEN EmptyHash ELSE rows[Len(rows)].hash

(***************************************************************************)
(* The database: per table its columns, its rows and its chain head.  A    *)
(* row's position is its rowid: rowids start at 1 and rows are never       *)
(* deleted by the program.                                                 *)
(***************************************************************************)
JsonValue == {ContentJson(c) : c \in Content} \cup {LegacyContentJson(c) : c \in Content}
Hash == Seq(Nat \X JsonValue)
Row == [content : Content, prev : Hash, hash : Hash]
TableState == [cols : SUBSET Column, rows : Seq(Row),
               head : [count : Nat, hash : Hash] \cup {NoHead}]
Db == [Table -> TableState]
(* Variant: the hash of the older format is accepted whatever the later    *)
(* column holds.                                                           *)
RowHashAcceptedLax(t, rowid, r) ==
    \/ r.hash = ChainHash(r.prev, rowid, ContentJson(r.content))
    \/ /\ t \in Extended
       /\ r.hash = ChainHash(r.prev, rowid, LegacyContentJson(r.content))

(* A row the verifier accepts: it continues the chain, and its hash is the *)
(* one of its content, or for a row whose later column has the default     *)
(* value the one an older version computed without that column.            *)
RowHashAccepted(t, rowid, r) ==
    \/ r.hash = ChainHash(r.prev, rowid, ContentJson(r.content))
    \/ /\ t \in Extended
       /\ r.content.ext = "default"
       /\ r.hash = ChainHash(r.prev, rowid, LegacyContentJson(r.content))

ChainAccepted(t, rows) ==
    \A i \in 1..Len(rows) :
        /\ rows[i].prev = (IF i = 1 THEN EmptyHash ELSE rows[i - 1].hash)
        /\ RowHashAccepted(t, i, rows[i])

HeadAccepted(head, n, h) == head = [count |-> n, hash |-> h]

WithCols(d, t, cols) == [d EXCEPT ![t] = [cols |-> cols, rows |-> d[t].rows, head |-> d[t].head]]
WithRows(d, t, rows) == [d EXCEPT ![t] = [cols |-> d[t].cols, rows |-> rows, head |-> d[t].head]]
WithHead(d, t, head) == [d EXCEPT ![t] = [cols |-> d[t].cols, rows |-> d[t].rows, head |-> head]]

(* UPDATE of the two hashes of row i.                                      *)
SetHashes(rows, i, prev, own) ==
    [rows EXCEPT ![i] = [content |-> rows[i].content, prev |-> prev, hash |-> own]]

Unhashed(rows) == \E i \in 1..Len(rows) : rows[i].hash = EmptyHash

(* Row i continues the chain of hashed rows before it.                     *)
RowLinked(t, rows, i) ==
    /\ rows[i].prev = (IF i = 1 THEN EmptyHash ELSE rows[i - 1].hash)
    /\ i > 1 => rows[i - 1].hash # EmptyHash
    /\ RowHashAccepted(t, i, rows[i])

HashedRowsLinked(t, rows) ==
    \A i \in 1..Len(rows) : rows[i].hash # EmptyHash => RowLinked(t, rows, i)

(* The files earlier runs may have left: a table is without a chain, or    *)
(* completely hashed, by this version or an older one; row contents are    *)
(* told apart by their bodies.                                             *)
FileOK(d) ==
    /\ d \in Db
    /\ \A t \in Table :
         /\ \/ \A i \in 1..Len(d[t].rows) : d[t].rows[i].hash = EmptyHash
            \/ ~Unhashed(d[t].rows)
         /\ HashedRowsLinked(t, d[t].rows)
         /\ \A i \in 1..Len(d[t].rows) : d[t].rows[i].content.body < FirstBody

ASSUME InitialDbsAssumption == \A d \in InitialDbs : FileOK(d)

-----------------------------------------------------------------------------
VARIABLES
    db,        \* the committed database: per table its columns, rows and chain head
    work,      \* the write transaction's private copy; equals db outside one
    writer,    \* the process that holds SQLite's write lock, or NoProcess
    current,   \* processes with an open read cursor on the newest snapshot
    nextBody,  \* the next fresh record content
    pc,        \* per process, the next statement
    op,        \* per process, the call it is executing or last executed
    at,        \* per process, position in the loop it is in
    row,       \* per process, position in the inner loop (row cursor)
    missing,   \* per process, the columns PRAGMA table_info did not show
    hash,      \* per process, the local previous / head_hash / prev_hash
    count,     \* per process, the local row count
    snap,      \* per process, the snapshot of its read transaction
    report,    \* per process, the audit report under construction
    out        \* per process, the result of the last call

vars == <<db, work, writer, current, nextBody, pc, op, at, row, missing, hash,
          count, snap, report, out>>
files == <<db, work, writer, current>>
locals == <<missing, hash, count, snap, report>>

NoOp == [kind |-> "open", table |-> TableSeq[1], batches |-> <<>>]
Contents(d) == [t \in Table |-> [i \in 1..Len(d[t].rows) |-> d[t].rows[i].content]]
EmptyDb == [t \in Table |-> [cols |-> {}, rows |-> <<>>, head |-> NoHead]]
EmptyReport == [t \in Table |-> <<>>]

Init ==
    /\ db \in InitialDbs
    /\ work = db
    /\ writer = NoProcess
    /\ current = {}
    /\ nextBody = FirstBody
    /\ pc = [p \in Process |-> "idle"]
    /\ op = [p \in Process |-> NoOp]
    /\ at = [p \in Process |-> 1]
    /\ row = [p \in Process |-> 1]
    /\ missing = [p \in Process |-> {}]
    /\ hash = [p \in Process |-> EmptyHash]
    /\ count = [p \in Process |-> 0]
    /\ snap = [p \in Process |-> EmptyDb]
    /\ report = [p \in Process |-> EmptyReport]
    /\ out = [p \in Process |-> "none"]

(***************************************************************************)
(* Moving a process on.                                                    *)
(***************************************************************************)
Goto(p, label) == pc' = [pc EXCEPT ![p] = label]

(* The call returns; the connection and every local are dropped.           *)
Return(p, result) ==
    /\ pc' = [pc EXCEPT ![p] = "idle"]
    /\ out' = [out EXCEPT ![p] = result]
    /\ at' = [at EXCEPT ![p] = 1]
    /\ row' = [row EXCEPT ![p] = 1]
    /\ missing' = [missing EXCEPT ![p] = {}]
    /\ hash' = [hash EXCEPT ![p] = EmptyHash]
    /\ count' = [count EXCEPT ![p] = 0]
    /\ snap' = [snap EXCEPT ![p] = EmptyDb]
    /\ UNCHANGED <<op, nextBody>>

(* Variant: an auto-committed write that does not wait for the write lock. *)
AutoCommitUnlocked(p, newDb) ==
    /\ db' = newDb
    /\ work' = newDb
    /\ current' = current \cap {p}
    /\ UNCHANGED writer

(* An auto-committed write: it needs the write lock for the statement, and *)
(* makes every other process's open snapshot an old one.                   *)
AutoCommit(p, newDb) ==
    /\ writer = NoProcess
    /\ db' = newDb
    /\ work' = newDb
    /\ current' = current \cap {p}
    /\ UNCHANGED writer

(* Variant: a transaction per row in every table.                          *)
BatchesPerRow(t, cs) == [i \in 1..Len(cs) |-> <<cs[i]>>]

(***************************************************************************)
(* A call begins: with_connection takes LEDGER_LOCK and opens the file.    *)
(* record_compiled_rule and record_certificate write one row,              *)
(* record_declared_sacrifices all rows in one transaction, and             *)
(* record_paradox_results one transaction per row.                         *)
(***************************************************************************)
Batches(t, cs) ==
    IF t = "paradox_results" THEN [i \in 1..Len(cs) |-> <<cs[i]>>] ELSE <<cs>>

Submission(t, n, ext) == [i \in 1..n |-> [body |-> nextBody + i - 1, ext |-> ext]]

RecordCall(t, n, ext) ==
    /\ n + nextBody <= MaxBody + 1
    /\ t \in Extended => n = 1
    /\ t \notin Extended => ext = "default"

Start(p) ==
    /\ pc[p] = "idle"
    /\ \/ /\ \E k \in Ops \ {"record"} :
               op' = [op EXCEPT ![p] = [NoOp EXCEPT !.kind = k]]
          /\ UNCHANGED nextBody
       \/ /\ "record" \in Ops
          /\ \E t \in Table, n \in 1..MaxBatch, ext \in {"default", "set"} :
               /\ RecordCall(t, n, ext)
               /\ op' = [op EXCEPT ![p] =
                          [kind |-> "record", table |-> t,
                           batches |-> Batches(t, Submission(t, n, ext))]]
               /\ nextBody' = nextBody + n
    /\ Goto(p, "columns")
    /\ at' = [at EXCEPT ![p] = 1]
    /\ out' = [out EXCEPT ![p] = "none"]
    /\ report' = [report EXCEPT ![p] = EmptyReport]
    /\ UNCHANGED <<files, row, missing, hash, count, snap>>

(***************************************************************************)
(* Schema phase, 1: ensure_column, then ensure_chain_columns.  Each step   *)
(* of the plan reads table_info once and then adds what it did not show.   *)
(***************************************************************************)
ColumnPlan ==
    LET n == Len(TableSeq)
    IN  [i \in 1..2 * n |->
           IF i <= n
           THEN [table |-> TableSeq[i],
                 cols  |-> IF TableSeq[i] \in Extended THEN {"ext"} ELSE {}]
           ELSE [table |-> TableSeq[i - n], cols |-> {"prev_hash", "row_hash"}]]

NextPlanStep(p) ==
    IF at[p] < Len(ColumnPlan)
    THEN at' = [at EXCEPT ![p] = @ + 1] /\ Goto(p, "columns")
    ELSE at' = [at EXCEPT ![p] = 1] /\ Goto(p, "check")

ReadColumns(p) ==
    LET step == ColumnPlan[at[p]]
        lack == step.cols \ db[step.table].cols
    IN  /\ pc[p] = "columns"
        /\ missing' = [missing EXCEPT ![p] = lack]
        /\ IF lack = {} THEN NextPlanStep(p)
                        ELSE Goto(p, "alter") /\ UNCHANGED at
        /\ UNCHANGED <<files, nextBody, op, row, hash, count, snap, report, out>>

(* prev_hash is added before row_hash.                                     *)
IsFirstColumn(c, cols) == c = "row_hash" => "prev_hash" \notin cols

AddColumn(p) ==
    LET t == ColumnPlan[at[p]].table
    IN  /\ pc[p] = "alter"
        /\ \E c \in missing[p] :
             /\ IsFirstColumn(c, missing[p])
             /\ c \notin db[t].cols
             /\ AutoCommit(p, WithCols(db, t, db[t].cols \cup {c}))
             /\ missing' = [missing EXCEPT ![p] = @ \ {c}]
             /\ IF missing[p] = {c} THEN NextPlanStep(p) ELSE UNCHANGED <<at, pc>>
        /\ UNCHANGED <<nextBody, op, row, hash, count, snap, report, out>>

(* Another process added it since table_info was read: SQLite refuses.     *)
DuplicateColumn(p) ==
    /\ pc[p] = "alter"
    /\ \E c \in missing[p] :
         IsFirstColumn(c, missing[p]) /\ c \in db[ColumnPlan[at[p]].table].cols
    /\ Return(p, "error")
    /\ UNCHANGED <<files, report>>

(***************************************************************************)
(* Schema phase, 2: per table, count the rows without a hash, and if there *)
(* are any recompute the whole chain, one auto-committed UPDATE per row,   *)
(* while the SELECT that feeds the loop keeps its read snapshot open.      *)
(***************************************************************************)
(* Variant: the loop over the tables runs one step too far.                *)
NextTableTooFar(p, again, done) ==
    IF at[p] <= Len(TableSeq)
    THEN at' = [at EXCEPT ![p] = @ + 1] /\ Goto(p, again)
    ELSE at' = [at EXCEPT ![p] = 1] /\ Goto(p, done)

NextTable(p, again, done) ==
    IF at[p] < Len(TableSeq)
    THEN at' = [at EXCEPT ![p] = @ + 1] /\ Goto(p, again)
    ELSE at' = [at EXCEPT ![p] = 1] /\ Goto(p, done)

CheckBackfill(p) ==
    /\ pc[p] = "check"
    /\ IF Unhashed(db[TableSeq[at[p]]].rows)
       THEN Goto(p, "cursor") /\ UNCHANGED at
       ELSE NextTable(p, "check", "head")
    /\ UNCHANGED <<files, nextBody, op, row, locals, out>>

OpenCursor(p) ==
    /\ pc[p] = "cursor"
    /\ current' = current \cup {p}
    /\ row' = [row EXCEPT ![p] = 1]
    /\ hash' = [hash EXCEPT ![p] = EmptyHash]
    /\ count' = [count EXCEPT ![p] = Len(db[TableSeq[at[p]]].rows)]
    /\ Goto(p, "backfill")
    /\ UNCHANGED <<db, work, writer, nextBody, op, at, missing, snap, report, out>>

(* Variant: the UPDATE sets row_hash and forgets prev_hash.                *)
BackfillRowHashOnly(p) ==
    LET t == TableSeq[at[p]]
        i == row[p]
        h == ChainHash(hash[p], i, ContentJson(db[t].rows[i].content))
    IN  /\ pc[p] = "backfill"
        /\ i <= count[p]
        /\ p \in current
        /\ AutoCommit(p, WithRows(db, t, SetHashes(db[t].rows, i, db[t].rows[i].prev, h)))
        /\ hash' = [hash EXCEPT ![p] = h]
        /\ row' = [row EXCEPT ![p] = i + 1]
        /\ UNCHANGED <<nextBody, pc, op, at, missing, count, snap, report, out>>

BackfillRow(p) ==
    LET t == TableSeq[at[p]]
        i == row[p]
        h == ChainHash(hash[p], i, ContentJson(db[t].rows[i].content))
    IN  /\ pc[p] = "backfill"
        /\ i <= count[p]
        /\ p \in current
        /\ AutoCommit(p, WithRows(db, t, SetHashes(db[t].rows, i, hash[p], h)))
        /\ hash' = [hash EXCEPT ![p] = h]
        /\ row' = [row EXCEPT ![p] = i + 1]
        /\ UNCHANGED <<nextBody, pc, op, at, missing, count, snap, report, out>>

(* Variant: the UPDATE is retried for ever instead of failing the call.    *)
BackfillConflictRetried(p) == FALSE /\ pc[p] = "backfill" /\ UNCHANGED vars

(* SQLITE_BUSY or SQLITE_BUSY_SNAPSHOT: with its cursor open the process   *)
(* cannot write over another process's transaction, and does not wait.     *)
BackfillConflict(p) ==
    /\ pc[p] = "backfill"
    /\ row[p] <= count[p]
    /\ p \notin current \/ writer # NoProcess
    /\ Return(p, "error")
    /\ current' = current \ {p}
    /\ UNCHANGED <<db, work, writer, report>>

BackfillDone(p) ==
    /\ pc[p] = "backfill"
    /\ row[p] > count[p]
    /\ current' = current \ {p}
    /\ NextTable(p, "check", "head")
    /\ UNCHANGED <<db, work, writer, nextBody, op, row, locals, out>>

(***************************************************************************)
(* Schema phase, 3: initialize_chain_head, per table four statements: look *)
(* for the head; if there is none read the last hash, count the rows, and  *)
(* write the head.                                                         *)
(***************************************************************************)
BodyLabel(p) ==
    CASE op[p].kind = "open"   -> "finish"
      [] op[p].kind = "record" -> "begin"
      [] OTHER                 -> "pin"

ReadHead(p) ==
    /\ pc[p] = "head"
    /\ IF db[TableSeq[at[p]]].head = NoHead
       THEN Goto(p, "headhash") /\ UNCHANGED at
       ELSE NextTable(p, "head", BodyLabel(p))
    /\ UNCHANGED <<files, nextBody, op, row, locals, out>>

ReadHeadHash(p) ==
    /\ pc[p] = "headhash"
    /\ hash' = [hash EXCEPT ![p] = LastHash(db[TableSeq[at[p]]].rows)]
    /\ Goto(p, "headcount")
    /\ UNCHANGED <<files, nextBody, op, at, row, missing, count, snap, report, out>>

ReadHeadCount(p) ==
    /\ pc[p] = "headcount"
    /\ count' = [count EXCEPT ![p] = Len(db[TableSeq[at[p]]].rows)]
    /\ Goto(p, "headwrite")
    /\ UNCHANGED <<files, nextBody, op, at, row, missing, hash, snap, report, out>>

WriteHead(p) ==
    /\ pc[p] = "headwrite"
    /\ AutoCommit(p, WithHead(db, TableSeq[at[p]], [count |-> count[p], hash |-> hash[p]]))
    /\ NextTable(p, "head", BodyLabel(p))
    /\ UNCHANGED <<nextBody, op, row, locals, out>>

(***************************************************************************)
(* The body of Ledger::open: nothing.                                      *)
(***************************************************************************)
FinishOpen(p) ==
    /\ pc[p] = "finish"
    /\ Return(p, "ok")
    /\ UNCHANGED <<files, report>>

(***************************************************************************)
(* The record calls: run_in_immediate_transaction around, per row,         *)
(* previous_hash and INSERT with an empty row_hash, UPDATE of row_hash,    *)
(* and update_chain_head.                                                  *)
(***************************************************************************)
Batch(p) == op[p].batches[at[p]]

Begin(p) ==
    /\ pc[p] = "begin"
    /\ writer = NoProcess
    /\ writer' = p
    /\ row' = [row EXCEPT ![p] = 1]
    /\ Goto(p, "insert")
    /\ UNCHANGED <<db, work, current, nextBody, op, at, locals, out>>

Insert(p) ==
    LET t == op[p].table
        prev == LastHash(work[t].rows)
    IN  /\ pc[p] = "insert"
        /\ work' = WithRows(work, t, Append(work[t].rows, NewRow(Batch(p)[row[p]], prev)))
        /\ hash' = [hash EXCEPT ![p] = prev]
        /\ Goto(p, "rowhash")
        /\ UNCHANGED <<db, writer, current, nextBody, op, at, row, missing, count, snap,
                       report, out>>

SetRowHash(p) ==
    LET t == op[p].table
        rowid == Len(work[t].rows)          \* last_insert_rowid
        h == ChainHash(hash[p], rowid, ContentJson(Batch(p)[row[p]]))
    IN  /\ pc[p] = "rowhash"
        /\ work' = WithRows(work, t, SetHashes(work[t].rows, rowid, hash[p], h))
        /\ hash' = [hash EXCEPT ![p] = h]
        /\ Goto(p, "anchor")
        /\ UNCHANGED <<db, writer, current, nextBody, op, at, row, missing, count, snap,
                       report, out>>

(* Variant: the head counts the rows that were there before the insert.    *)
UpdateChainHeadEarly(p) ==
    LET t == op[p].table
    IN  /\ pc[p] = "anchor"
        /\ work' = WithHead(work, t, [count |-> Len(work[t].rows) - 1, hash |-> hash[p]])
        /\ IF row[p] < Len(Batch(p))
           THEN row' = [row EXCEPT ![p] = @ + 1] /\ Goto(p, "insert")
           ELSE UNCHANGED row /\ Goto(p, "commit")
        /\ UNCHANGED <<db, writer, current, nextBody, op, at, locals, out>>

UpdateChainHead(p) ==
    LET t == op[p].table
    IN  /\ pc[p] = "anchor"
        /\ work' = WithHead(work, t, [count |-> Len(work[t].rows), hash |-> hash[p]])
        /\ IF row[p] < Len(Batch(p))
           THEN row' = [row EXCEPT ![p] = @ + 1] /\ Goto(p, "insert")
           ELSE UNCHANGED row /\ Goto(p, "commit")
        /\ UNCHANGED <<db, writer, current, nextBody, op, at, locals, out>>

(* Variant: the transaction is rolled back and the call still returns Ok.  *)
CommitLost(p) ==
    /\ pc[p] = "commit"
    /\ work' = db
    /\ writer' = NoProcess
    /\ Return(p, "ok")
    /\ UNCHANGED <<db, current, report>>

Commit(p) ==
    /\ pc[p] = "commit"
    /\ db' = work
    /\ writer' = NoProcess
    /\ current' = current \cap {p}
    /\ IF at[p] < Len(op[p].batches)
       THEN /\ at' = [at EXCEPT ![p] = @ + 1]
            /\ Goto(p, "begin")
            /\ UNCHANGED <<nextBody, op, row, missing, hash, count, snap, out>>
       ELSE Return(p, "ok")
    /\ UNCHANGED <<work, report>>

(***************************************************************************)
(* The read calls: run_in_deferred_transaction.  The first read pins the   *)
(* snapshot every later read of the transaction sees.                      *)
(***************************************************************************)
PinSnapshot(p) ==
    /\ pc[p] = "pin"
    /\ snap' = [snap EXCEPT ![p] = db]
    /\ Goto(p, IF op[p].kind = "audit" THEN "load" ELSE "scan")
    /\ UNCHANGED <<files, nextBody, op, at, row, missing, hash, count, report, out>>

(* Variant: no read transaction, every statement sees the newest data.     *)
VisibleLive(p) == db

(* What the statements of the read transaction see.                        *)
Visible(p) == snap[p]

(* The load functions: newest row first, at most Limit rows.               *)
Newest(rows) ==
    [i \in 1..(IF Len(rows) < Limit THEN Len(rows) ELSE Limit) |->
        rows[Len(rows) + 1 - i].content]

LoadTable(p) ==
    LET t == TableSeq[at[p]]
    IN  /\ pc[p] = "load"
        /\ report' = [report EXCEPT ![p][t] = Newest(Visible(p)[t].rows)]
        /\ IF at[p] < Len(TableSeq)
           THEN /\ at' = [at EXCEPT ![p] = @ + 1]
                /\ UNCHANGED <<nextBody, pc, op, row, missing, hash, count, snap, out>>
           ELSE Return(p, "ok")
        /\ UNCHANGED files

(* The scan of a table's rows.  A broken row settles the table without the *)
(* head lookup; the remaining tables do not change the overall answer.     *)
ScanTable(p) ==
    LET t == TableSeq[at[p]]
        rows == Visible(p)[t].rows
    IN  /\ pc[p] = "scan"
        /\ IF ChainAccepted(t, rows)
           THEN /\ hash' = [hash EXCEPT ![p] = LastHash(rows)]
                /\ count' = [count EXCEPT ![p] = Len(rows)]
                /\ Goto(p, "anchorcheck")
                /\ UNCHANGED <<nextBody, op, at, row, missing, snap, out>>
           ELSE Return(p, "invalid")
        /\ UNCHANGED <<files, report>>

(* verify_chain_head.                                                      *)
CheckHead(p) ==
    LET t == TableSeq[at[p]]
    IN  /\ pc[p] = "anchorcheck"
        /\ IF ~HeadAccepted(Visible(p)[t].head, count[p], hash[p])
           THEN Return(p, "invalid")
           ELSE IF at[p] < Len(TableSeq)
                THEN /\ at' = [at EXCEPT ![p] = @ + 1]
                     /\ Goto(p, "scan")
                     /\ UNCHANGED <<nextBody, op, row, missing, hash, count, snap, out>>
                ELSE Return(p, "valid")
        /\ UNCHANGED <<files, report>>

(***************************************************************************)
(* Failures.  A statement that needs the write lock gives up after the     *)
(* busy timeout; any statement may fail, and the process may die: the      *)
(* transaction is rolled back, the lock released, the connection dropped.  *)
(***************************************************************************)
WaitsForLock == {"alter", "headwrite", "begin"}

BusyTimeout(p) ==
    /\ pc[p] \in WaitsForLock
    /\ writer # NoProcess
    /\ Return(p, "error")
    /\ UNCHANGED <<files, report>>

Abort(p) ==
    /\ pc[p] # "idle"
    /\ Return(p, "error")
    /\ current' = current \ {p}
    /\ writer' = IF writer = p THEN NoProcess ELSE writer
    /\ work' = IF writer = p THEN db ELSE work
    /\ UNCHANGED <<db, report>>

-----------------------------------------------------------------------------
Schema(p) ==
    \/ ReadColumns(p) \/ AddColumn(p) \/ DuplicateColumn(p)
    \/ CheckBackfill(p) \/ OpenCursor(p) \/ BackfillRow(p)
    \/ BackfillConflict(p) \/ BackfillDone(p)
    \/ ReadHead(p) \/ ReadHeadHash(p) \/ ReadHeadCount(p) \/ WriteHead(p)

Record(p) == Begin(p) \/ Insert(p) \/ SetRowHash(p) \/ UpdateChainHead(p) \/ Commit(p)

Read(p) == PinSnapshot(p) \/ LoadTable(p) \/ ScanTable(p) \/ CheckHead(p)

Step(p) == Schema(p) \/ FinishOpen(p) \/ Record(p) \/ Read(p) \/ BusyTimeout(p)

Next == \E p \in Process : Start(p) \/ Step(p) \/ Abort(p)

Spec == Init /\ [][Next]_vars

(* The scheduler runs every process that has a statement to execute, and   *)
(* SQLite's busy handler gives up; a process need not start a call.        *)
FairSpec == Spec /\ \A p \in Process : WF_vars(Step(p))

-----------------------------------------------------------------------------
(***************************************************************************)
(* Properties.                                                             *)
(***************************************************************************)
Call == [kind : {"open", "audit", "verify"}, table : Table, batches : {<<>>}] \cup
        [kind : {"record"}, table : Table,
         batches : Seq(Seq(Content) \ {<<>>}) \ {<<>>}]

TransactionLabels == {"insert", "rowhash", "anchor", "commit"}
TableLabels == {"check", "cursor", "backfill", "head", "headhash", "headcount",
                "headwrite", "pin", "load", "scan", "anchorcheck"}
PlanLabels == {"columns", "alter"}

Label == TransactionLabels \cup TableLabels \cup PlanLabels \cup {"idle", "begin", "finish"}

FileTypes ==
    /\ db \in Db
    /\ work \in Db
    /\ writer \in Process \cup {NoProcess}
    /\ current \in SUBSET Process
    /\ nextBody \in 1..(MaxBody + 1)

CallTypes ==
    /\ pc \in [Process -> Label]
    /\ op \in [Process -> Call]
    /\ at \in [Process -> Nat \ {0}]
    /\ row \in [Process -> Nat \ {0}]
    /\ out \in [Process -> {"none", "ok", "error", "valid", "invalid"}]

LocalTypes ==
    /\ missing \in [Process -> SUBSET Column]
    /\ hash \in [Process -> Hash]
    /\ count \in [Process -> Nat]
    /\ snap \in [Process -> Db]
    /\ report \in [Process -> [Table -> Seq(Content)]]

Types == FileTypes /\ CallTypes /\ LocalTypes

InRange(p) ==
    /\ pc[p] \in PlanLabels => at[p] \in 1..Len(ColumnPlan)
    /\ pc[p] \in TableLabels => at[p] \in 1..Len(TableSeq)
    /\ pc[p] \in TransactionLabels \cup {"begin"} => at[p] \in 1..Len(op[p].batches)
    /\ pc[p] \in {"insert", "rowhash", "anchor"} => row[p] \in 1..Len(Batch(p))

(* Types of the variables, and that every loop stays within what it ranges *)
(* over: the plan's steps, the tables, the batches and their rows.         *)
TypeOK == Types /\ \A p \in Process : InRange(p)

(***************************************************************************)
(* The parts of the inductive invariant behind the chain properties.       *)
(***************************************************************************)
(* The tables process p has found, or made, completely hashed.             *)
Settled(p) ==
    CASE pc[p] \in {"check", "cursor", "backfill"} ->
           {TableSeq[i] : i \in 1..(at[p] - 1)}
      [] pc[p] \in PlanLabels \cup {"idle"} -> {}
      [] OTHER -> Table

SettledHashed == \A p \in Process : \A t \in Settled(p) : ~Unhashed(db[t].rows)

(* The process inside a write transaction is the one that has the lock,    *)
(* its copy differs from the database only in its own table, and there     *)
(* only by added rows and the head.                                        *)
OwnTableOnly(p) ==
    /\ op[p].kind = "record"
    /\ \A t \in Table \ {op[p].table} : work[t] = db[t]
    /\ Len(db[op[p].table].rows) <= Len(work[op[p].table].rows)
    /\ \A i \in 1..Len(db[op[p].table].rows) :
         work[op[p].table].rows[i] = db[op[p].table].rows[i]

LockInv ==
    /\ \A p \in Process : pc[p] \in TransactionLabels <=> writer = p
    /\ writer = NoProcess => work = db
    /\ \A p \in Process : writer = p => OwnTableOnly(p)

(* Hashes of the current format only.                                      *)
CurrentFormat(rows) ==
    \A i \in 1..Len(rows) :
        rows[i].hash # EmptyHash =>
            rows[i].hash = ChainHash(rows[i].prev, i, ContentJson(rows[i].content))

(* A table that is being backfilled has no hash of an older format.        *)
BackfillFormat ==
    /\ \A t \in Table : Unhashed(db[t].rows) => CurrentFormat(db[t].rows)
    /\ \A p \in Process : pc[p] \in {"cursor", "backfill"} =>
                            CurrentFormat(db[TableSeq[at[p]]].rows)

(* Every row the backfill has passed, or that came after its cursor was    *)
(* opened, has a hash, and the local hash is the one of the row passed     *)
(* last.                                                                   *)
BackfillState(p) ==
    LET rows == db[TableSeq[at[p]]].rows
    IN  /\ row[p] <= count[p] + 1
        /\ count[p] <= Len(rows)
        /\ \A i \in 1..Len(rows) : i < row[p] \/ i > count[p] => rows[i].hash # EmptyHash
        /\ hash[p] = (IF row[p] = 1 THEN EmptyHash ELSE rows[row[p] - 1].hash)

BackfillInv == \A p \in Process : pc[p] = "backfill" => BackfillState(p)

(* What the transaction has done so far: after the INSERT the last row,    *)
(* and only it, waits for its hash.                                        *)
InsertedRow(p, rows) ==
    /\ rows # <<>>
    /\ \A i \in 1..(Len(rows) - 1) : rows[i].hash # EmptyHash
    /\ rows[Len(rows)] = NewRow(Batch(p)[row[p]], hash[p])
    /\ hash[p] = (IF Len(rows) = 1 THEN EmptyHash ELSE rows[Len(rows) - 1].hash)

TransactionState(p) ==
    LET t == op[p].table
        rows == work[t].rows
    IN  /\ HashedRowsLinked(t, rows)
        /\ CurrentFormat(db[t].rows) => CurrentFormat(rows)
        /\ pc[p] # "rowhash" => ~Unhashed(rows)
        /\ pc[p] = "rowhash" => InsertedRow(p, rows)
        /\ pc[p] = "anchor" => hash[p] = LastHash(rows)
        /\ pc[p] = "commit" => HeadAccepted(work[t].head, Len(rows), LastHash(rows))

TransactionInv == \A p \in Process : writer = p => TransactionState(p)

(* Whatever the order in which processes migrate an old file, append to it *)
(* and die, a committed row that has a hash continues the chain: its       *)
(* predecessor has a hash too, is the one it names, and its own hash is    *)
(* one verify_chain accepts.                                               *)
ChainSound == \A t \in Table : HashedRowsLinked(t, db[t].rows)

(* The inductive invariant behind the chain properties.                    *)
ChainInv ==
    /\ ChainSound
    /\ SettledHashed
    /\ LockInv
    /\ BackfillFormat
    /\ BackfillInv
    /\ TransactionInv

(* verify_chain never reports a broken chain on a file that only this      *)
(* program wrote: the deferred transaction excludes the false break that a *)
(* concurrent writer would otherwise cause.                                *)
NoFalseBreak == \A p \in Process : out[p] # "invalid"

Bodies(t) == {db[t].rows[i].content.body : i \in 1..Len(db[t].rows)}
Submitted(p) == UNION {{op[p].batches[b][i].body : i \in 1..Len(op[p].batches[b])} :
                       b \in 1..Len(op[p].batches)}

(* Exactly one committed row of the table holds the content numbered x.    *)
HeldOnce(t, x) ==
    \E i \in 1..Len(db[t].rows) :
        \A j \in 1..Len(db[t].rows) : db[t].rows[j].content.body = x <=> j = i

(* A record call that returned Ok has every row it submitted in the        *)
(* committed table, each exactly once, whatever other processes did.       *)
RecordedOnce ==
    \A p \in Process :
        (op[p].kind = "record" /\ out[p] = "ok") =>
            \A x \in Submitted(p) : HeldOnce(op[p].table, x)

(* record_declared_sacrifices is all or nothing: of the sacrifices of one  *)
(* certificate the ledger holds either every one or none, even when the    *)
(* call failed or the process died.                                        *)
SacrificesAllOrNothing ==
    \A p \in Process :
        (op[p].kind = "record" /\ op[p].table = "declared_sacrifices") =>
            \/ Submitted(p) \subseteq Bodies("declared_sacrifices")
            \/ Submitted(p) \cap Bodies("declared_sacrifices") = {}

(* No step ever removes a committed row, changes its content, or replaces  *)
(* a hash that has been written: migration only fills in what was empty.   *)
AppendOnly ==
    [][\A t \in Table :
         /\ Len(db'[t].rows) >= Len(db[t].rows)
         /\ \A i \in 1..Len(db[t].rows) :
              /\ db'[t].rows[i].content = db[t].rows[i].content
              /\ db[t].rows[i].hash \in {EmptyHash, db'[t].rows[i].hash}]_db

(* Every transaction that adds rows leaves its table verifiable: rows and  *)
(* chain head agree at the commit, even if the head was wrong before.      *)
CommitAnchors ==
    [][\A t \in Table :
         Len(db'[t].rows) > Len(db[t].rows) =>
            /\ ChainAccepted(t, db'[t].rows)
            /\ HeadAccepted(db'[t].head, Len(db'[t].rows), LastHash(db'[t].rows))]_db

(* Every call that was started returns: nobody waits for the write lock    *)
(* while holding it, and waiting for it is bounded by the busy timeout.    *)
CallsReturn == \A p \in Process : pc[p] # "idle" ~> pc[p] = "idle"

(* What an audit under way has fixed, and what the last call answered.     *)
Pinned == [p \in Process |-> IF pc[p] = "load" THEN {Contents(snap[p])} ELSE {}]
Answer == [p \in Process |-> IF op[p].kind = "audit" /\ out[p] = "ok"
                             THEN report[p] ELSE EmptyReport]

Abstract == INSTANCE AuditLog WITH
    store <- Contents(db), pinned <- Pinned, answer <- Answer

(* The ledger implements AuditLog: migration, hashing and anchoring are    *)
(* invisible, a transaction's rows appear at its commit and at once, and   *)
(* an audit answers from one moment of the file.                           *)
ImplementsAuditLog == Abstract!Spec
=============================================================================

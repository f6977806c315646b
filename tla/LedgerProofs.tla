---------------------------- MODULE LedgerProofs ----------------------------
(***************************************************************************)
(* Proofs about Ledger, for every set of processes, sequence of tables,    *)
(* initial file and bound.                                                 *)
(***************************************************************************)
EXTENDS Ledger, TLAPS, SequenceTheorems

(***************************************************************************)
(* What the operators on the database return.                              *)
(***************************************************************************)
(* chain_hash of a hash, a rowid and a row's content is a hash.            *)
LEMMA ChainHashType ==
    ASSUME NEW h \in Hash, NEW i \in Nat, NEW c \in Content
    PROVE  /\ ChainHash(h, i, ContentJson(c)) \in Hash
           /\ ChainHash(h, i, ContentJson(c)) # EmptyHash
<1>1. ContentJson(c) \in JsonValue
  BY DEF JsonValue
<1>2. <<i, ContentJson(c)>> \in Nat \X JsonValue
  BY <1>1
<1>3. h \in Seq(Nat \X JsonValue)
  BY DEF Hash
<1>4. /\ Append(h, <<i, ContentJson(c)>>) \in Seq(Nat \X JsonValue)
      /\ Append(h, <<i, ContentJson(c)>>) # <<>>
  BY <1>2, <1>3, AppendProperties
<1>5. QED
  BY <1>4 DEF ChainHash, Hash, EmptyHash

LEMMA EmptyHashType == EmptyHash \in Hash
BY DEF EmptyHash, Hash

(* previous_hash returns a hash.                                           *)
LEMMA LastHashType ==
    ASSUME NEW rows \in Seq(Row)
    PROVE  LastHash(rows) \in Hash
<1>1. CASE rows = <<>>
  BY <1>1, EmptyHashType DEF LastHash
<1>2. CASE rows # <<>>
  <2>1. Len(rows) \in 1..Len(rows)
    BY <1>2, EmptySeq
  <2>2. rows[Len(rows)] \in Row
    BY <2>1, ElementOfSeq
  <2>3. QED
    BY <1>2, <2>2 DEF LastHash, Row
<1>3. QED
  BY <1>1, <1>2

(* The tables are the members of TableSeq.                                 *)
LEMMA TableOfIndex ==
    ASSUME NEW i \in 1..Len(TableSeq)
    PROVE  TableSeq[i] \in Table
BY DEF Table

LEMMA PlanType ==
    /\ Len(ColumnPlan) = 2 * Len(TableSeq)
    /\ \A i \in 1..Len(ColumnPlan) :
         /\ ColumnPlan[i].table \in Table
         /\ ColumnPlan[i].cols \subseteq Column
<1>1. Len(TableSeq) \in Nat
  BY LedgerAssumption
<1>2. ColumnPlan = [i \in 1..2 * Len(TableSeq) |-> ColumnPlan[i]]
  BY <1>1 DEF ColumnPlan
<1>3. Len(ColumnPlan) = 2 * Len(TableSeq)
  BY <1>1, <1>2 
<1>4. ASSUME NEW i \in 1..2 * Len(TableSeq)
      PROVE  /\ ColumnPlan[i].table \in Table
             /\ ColumnPlan[i].cols \subseteq Column
  <2>1. CASE i <= Len(TableSeq)
    BY <1>1, <2>1, TableOfIndex DEF ColumnPlan, Column
  <2>2. CASE i > Len(TableSeq)
    <3>1. i - Len(TableSeq) \in 1..Len(TableSeq)
      BY <1>1, <2>2
    <3>2. QED
      BY <1>1, <2>2, <3>1, TableOfIndex DEF ColumnPlan, Column
  <2>3. QED
    BY <1>1, <2>1, <2>2
<1>5. QED
  BY <1>3, <1>4

(* Updates keep the database well formed: adding a column,                 *)
LEMMA ColumnUpdate ==
    ASSUME NEW d \in Db, NEW t \in Table, NEW cols \in SUBSET Column
    PROVE  WithCols(d, t, cols) \in Db
BY DEF Db, TableState, WithCols

(* writing a chain head,                                                   *)
LEMMA HeadUpdate ==
    ASSUME NEW d \in Db, NEW t \in Table, NEW n \in Nat, NEW h \in Hash
    PROVE  WithHead(d, t, [count |-> n, hash |-> h]) \in Db
BY DEF Db, TableState, WithHead

(* changing the rows,                                                      *)
LEMMA RowsUpdate ==
    ASSUME NEW d \in Db, NEW t \in Table, NEW rows \in Seq(Row)
    PROVE  WithRows(d, t, rows) \in Db
BY DEF Db, TableState, WithRows

LEMMA RowsOfTable ==
    ASSUME NEW d \in Db, NEW t \in Table
    PROVE  d[t].rows \in Seq(Row)
BY DEF Db, TableState

(* by an INSERT,                                                           *)
LEMMA RowAppend ==
    ASSUME NEW rows \in Seq(Row), NEW c \in Content, NEW h \in Hash
    PROVE  Append(rows, NewRow(c, h)) \in Seq(Row)
<1>1. NewRow(c, h) \in Row
  BY EmptyHashType DEF NewRow, Row
<1>2. QED
  BY <1>1, AppendProperties

(* or by an UPDATE of a row's hashes.                                      *)
LEMMA HashesUpdate ==
    ASSUME NEW rows \in Seq(Row), NEW i \in 1..Len(rows), NEW g \in Hash, NEW h \in Hash
    PROVE  /\ SetHashes(rows, i, g, h) \in Seq(Row)
           /\ Len(SetHashes(rows, i, g, h)) = Len(rows)
<1>1. rows[i] \in Row
  BY ElementOfSeq
<1>2. [content |-> rows[i].content, prev |-> g, hash |-> h] \in Row
  BY <1>1 DEF Row
<1>3. QED
  BY <1>2, ExceptSeq DEF SetHashes

-----------------------------------------------------------------------------
(***************************************************************************)
(* Type correctness.                                                       *)
(***************************************************************************)
USE DEF Goto

(* The steps that end a call.                                              *)
LEMMA ReturnType ==
    ASSUME TypeOK, NEW p \in Process, NEW r \in {"ok", "error", "valid", "invalid"},
           Return(p, r), report' \in [Process -> [Table -> Seq(Content)]],
           db' \in Db, work' \in Db, writer' \in Process \cup {NoProcess},
           current' \in SUBSET Process
    PROVE  TypeOK'
<1>1. EmptyDb \in Db
  BY EmptyHashType DEF EmptyDb, Db, TableState, NoHead
<1>2. Types'
  <2>1. FileTypes'
    BY DEF TypeOK, Types, FileTypes, Return
  <2>2. CallTypes'
    BY DEF TypeOK, Types, CallTypes, Return, Label
  <2>3. LocalTypes'
    BY <1>1, EmptyHashType DEF TypeOK, Types, LocalTypes, Return
  <2>4. QED
    BY <2>1, <2>2, <2>3 DEF Types
<1>3. ASSUME NEW q \in Process
      PROVE  InRange(q)'
  <2>1. CASE q = p
    <3>1. pc'[q] = "idle"
      BY <2>1 DEF Return, TypeOK, Types, CallTypes
    <3>2. QED
      BY <3>1 DEF InRange, PlanLabels, TableLabels, TransactionLabels
  <2>2. CASE q # p
    <3>1. pc'[q] = pc[q] /\ at'[q] = at[q] /\ row'[q] = row[q] /\ op'[q] = op[q]
      BY <2>2 DEF Return, TypeOK, Types, CallTypes
    <3>2. QED
      BY <3>1 DEF InRange, TypeOK, Batch
  <2>3. QED
    BY <2>1, <2>2
<1>4. QED
  BY <1>2, <1>3 DEF TypeOK

(* What a step leaves alone in the other processes.                        *)
Others(p) ==
    \A q \in Process \ {p} :
        /\ pc'[q] = pc[q] /\ op'[q] = op[q] /\ at'[q] = at[q]
        /\ row'[q] = row[q] /\ hash'[q] = hash[q] /\ count'[q] = count[q]

LEMMA ReturnOthers ==
    ASSUME TypeOK, NEW p \in Process, NEW r, Return(p, r)
    PROVE  Others(p)
BY DEF TypeOK, Types, CallTypes, LocalTypes, Return, Others

(* A step types if its variables do and its own process stays in range.    *)
LEMMA StepType ==
    ASSUME TypeOK, NEW p \in Process, Others(p),
           FileTypes', CallTypes', LocalTypes', InRange(p)'
    PROVE  TypeOK'
<1>1. ASSUME NEW q \in Process, q # p
      PROVE  InRange(q)'
  BY <1>1 DEF InRange, TypeOK, Batch, Others
<1>2. QED
  BY <1>1 DEF TypeOK, Types

LEMMA SubmissionType ==
    ASSUME TypeOK, NEW t \in Table, NEW n \in 1..MaxBatch, NEW ext \in {"default", "set"},
           RecordCall(t, n, ext)
    PROVE  /\ Batches(t, Submission(t, n, ext)) \in Seq(Seq(Content) \ {<<>>}) \ {<<>>}
           /\ nextBody + n \in 1..(MaxBody + 1)
<1> DEFINE cs == Submission(t, n, ext)
<1>1. n \in Nat /\ n > 0 /\ MaxBody \in Nat
  BY LedgerAssumption
<1>2. nextBody \in 1..(MaxBody + 1)
  BY DEF TypeOK, Types, FileTypes
<1>3. \A i \in 1..n : [body |-> nextBody + i - 1, ext |-> ext] \in Content
  BY <1>1, <1>2 DEF RecordCall, Content
<1>4. cs \in Seq(Content) /\ Len(cs) = n
  BY <1>1, <1>3 DEF Submission
<1>5. \A i \in 1..n : <<cs[i]>> \in Seq(Content) \ {<<>>}
  BY <1>4
<1>6. [i \in 1..Len(cs) |-> <<cs[i]>>] \in Seq(Seq(Content) \ {<<>>}) \ {<<>>}
  BY <1>1, <1>4, <1>5
<1>7. cs # <<>>
  BY <1>1, <1>4
<1>8. <<cs>> \in Seq(Seq(Content) \ {<<>>}) \ {<<>>}
  BY <1>4, <1>7
<1>9. QED
  BY <1>1, <1>2, <1>6, <1>8 DEF Batches, RecordCall

LEMMA StartType ==
    ASSUME TypeOK, NEW p \in Process, Start(p)
    PROVE  TypeOK' /\ Others(p)
<1> USE DEF TypeOK, Types
<1>1. FileTypes' /\ op' \in [Process -> Call]
  <2>1. CASE \E k \in Ops \ {"record"} : op' = [op EXCEPT ![p] = [NoOp EXCEPT !.kind = k]]
                                            /\ UNCHANGED nextBody
    <3>1. PICK k \in Ops \ {"record"} : op' = [op EXCEPT ![p] = [NoOp EXCEPT !.kind = k]]
      BY <2>1
    <3>2. [NoOp EXCEPT !.kind = k] \in Call
      <4>1. TableSeq[1] \in Table
        BY TableOfIndex, LedgerAssumption
      <4>2. QED
        BY <4>1, LedgerAssumption DEF NoOp, Call
    <3>3. QED
      BY <2>1, <3>1, <3>2 DEF FileTypes, CallTypes, Start, files
  <2>2. CASE \E t \in Table, n \in 1..MaxBatch, ext \in {"default", "set"} :
               /\ RecordCall(t, n, ext)
               /\ op' = [op EXCEPT ![p] =
                          [kind |-> "record", table |-> t,
                           batches |-> Batches(t, Submission(t, n, ext))]]
               /\ nextBody' = nextBody + n
    <3>1. PICK t \in Table, n \in 1..MaxBatch, ext \in {"default", "set"} :
               /\ RecordCall(t, n, ext)
               /\ op' = [op EXCEPT ![p] =
                          [kind |-> "record", table |-> t,
                           batches |-> Batches(t, Submission(t, n, ext))]]
               /\ nextBody' = nextBody + n
      BY <2>2
    <3>2. [kind |-> "record", table |-> t,
           batches |-> Batches(t, Submission(t, n, ext))] \in Call
      BY <3>1, SubmissionType DEF Call
    <3>3. nextBody' \in 1..(MaxBody + 1)
      BY <3>1, SubmissionType
    <3>4. QED
      BY <3>1, <3>2, <3>3 DEF FileTypes, CallTypes, Start, files
  <2>3. QED
    BY <2>1, <2>2 DEF Start
<1>2. CallTypes'
  BY <1>1 DEF CallTypes, Start, Label, PlanLabels
<1>3. LocalTypes'
  <2>1. EmptyReport \in [Table -> Seq(Content)]
    BY DEF EmptyReport
  <2>2. QED
    BY <2>1 DEF LocalTypes, Start
<1>4. InRange(p)'
  <2>1. pc'[p] = "columns" /\ at'[p] = 1
    BY DEF Start, CallTypes
  <2>2. 1 \in 1..Len(ColumnPlan)
    BY PlanType, LedgerAssumption
  <2>3. QED
    BY <2>1, <2>2 DEF InRange, PlanLabels, TableLabels, TransactionLabels
<1>5. Others(p)
  BY DEF Start, CallTypes, LocalTypes, Others
<1>6. QED
  BY <1>1, <1>2, <1>3, <1>4, <1>5, StepType

(* Moving on in the two loops of the schema phase stays in range.          *)
LEMMA NextPlanStepType ==
    ASSUME TypeOK, NEW p \in Process, at[p] \in 1..Len(ColumnPlan), NextPlanStep(p)
    PROVE  /\ pc' \in [Process -> Label]
           /\ at' \in [Process -> Nat \ {0}]
           /\ \A q \in Process \ {p} : pc'[q] = pc[q] /\ at'[q] = at[q]
           /\ \/ pc'[p] = "columns" /\ at'[p] \in 1..Len(ColumnPlan)
              \/ pc'[p] = "check" /\ at'[p] = 1
<1>1. Len(ColumnPlan) \in Nat
  BY PlanType, LedgerAssumption
<1>2. pc \in [Process -> Label] /\ at \in [Process -> Nat \ {0}]
  BY DEF TypeOK, Types, CallTypes
<1>3. "columns" \in Label /\ "check" \in Label
  BY DEF Label, PlanLabels, TableLabels
<1>4. CASE at[p] < Len(ColumnPlan)
  BY <1>1, <1>2, <1>3, <1>4 DEF NextPlanStep
<1>5. CASE ~(at[p] < Len(ColumnPlan))
  BY <1>1, <1>2, <1>3, <1>5 DEF NextPlanStep
<1>6. QED
  BY <1>4, <1>5

LEMMA NextTableType ==
    ASSUME TypeOK, NEW p \in Process, at[p] \in 1..Len(TableSeq),
           NEW again \in Label, NEW done \in Label, NextTable(p, again, done)
    PROVE  /\ pc' \in [Process -> Label]
           /\ at' \in [Process -> Nat \ {0}]
           /\ \A q \in Process \ {p} : pc'[q] = pc[q] /\ at'[q] = at[q]
           /\ \/ pc'[p] = again /\ at'[p] = at[p] + 1 /\ at'[p] \in 1..Len(TableSeq)
              \/ pc'[p] = done /\ at'[p] = 1 /\ at[p] = Len(TableSeq)
<1>1. Len(TableSeq) \in Nat
  BY LedgerAssumption
<1>2. pc \in [Process -> Label] /\ at \in [Process -> Nat \ {0}]
  BY DEF TypeOK, Types, CallTypes
<1>3. CASE at[p] < Len(TableSeq)
  BY <1>1, <1>2, <1>3 DEF NextTable
<1>4. CASE ~(at[p] < Len(TableSeq))
  BY <1>1, <1>2, <1>4 DEF NextTable
<1>5. QED
  BY <1>3, <1>4

(* Where the body of a call starts, its loop is in range.                  *)
LEMMA BodyLabelType ==
    ASSUME TypeOK, NEW p \in Process
    PROVE  /\ BodyLabel(p) \in {"finish", "begin", "pin"}
           /\ BodyLabel(p) = "begin" => /\ op[p].kind = "record"
                                        /\ 1 \in 1..Len(op[p].batches)
<1>1. op[p] \in Call
  BY DEF TypeOK, Types, CallTypes
<1>2. op[p].kind \in {"open", "record", "audit", "verify"}
  BY <1>1 DEF Call
<1>3. ASSUME op[p].kind = "record"
      PROVE  1 \in 1..Len(op[p].batches)
  <2>1. op[p].batches \in Seq(Seq(Content) \ {<<>>}) \ {<<>>}
    BY <1>1, <1>3 DEF Call
  <2>2. QED
    BY <2>1, EmptySeq
<1>4. QED
  BY <1>2, <1>3 DEF BodyLabel

LEMMA ReadColumnsType ==
    ASSUME TypeOK, NEW p \in Process, ReadColumns(p)
    PROVE  TypeOK' /\ Others(p)
<1> USE DEF TypeOK, Types
<1>1. at[p] \in 1..Len(ColumnPlan)
  BY DEF ReadColumns, InRange, PlanLabels
<1>2. ColumnPlan[at[p]].cols \ db[ColumnPlan[at[p]].table].cols \in SUBSET Column
  BY <1>1, PlanType
<1>3. FileTypes' /\ LocalTypes'
  BY <1>2 DEF ReadColumns, FileTypes, LocalTypes, files
<1>4. /\ CallTypes'
      /\ Others(p)
      /\ InRange(p)'
  <2>1. CASE NextPlanStep(p)
    BY <1>1, <2>1, NextPlanStepType, LedgerAssumption
       DEF ReadColumns, CallTypes, LocalTypes, InRange, PlanLabels, TableLabels,
           TransactionLabels, Others
  <2>2. CASE pc' = [pc EXCEPT ![p] = "alter"] /\ UNCHANGED at
    BY <1>1, <2>2
       DEF ReadColumns, CallTypes, LocalTypes, InRange, PlanLabels, TableLabels,
           TransactionLabels, Others, Label
  <2>3. QED
    BY <2>1, <2>2 DEF ReadColumns
<1>5. QED
  BY <1>3, <1>4, StepType

LEMMA AddColumnType ==
    ASSUME TypeOK, NEW p \in Process, AddColumn(p)
    PROVE  TypeOK' /\ Others(p)
<1> USE DEF TypeOK, Types
<1>1. at[p] \in 1..Len(ColumnPlan)
  BY DEF AddColumn, InRange, PlanLabels
<1> DEFINE t == ColumnPlan[at[p]].table
<1>2. PICK c \in missing[p] :
         /\ AutoCommit(p, WithCols(db, t, db[t].cols \cup {c}))
         /\ missing' = [missing EXCEPT ![p] = @ \ {c}]
         /\ IF missing[p] = {c} THEN NextPlanStep(p) ELSE UNCHANGED <<at, pc>>
  BY DEF AddColumn
<1>3. missing[p] \in SUBSET Column
  BY DEF LocalTypes
<1>4. FileTypes'
  <2>1. t \in Table
    BY <1>1, PlanType
  <2>2. db[t].cols \cup {c} \in SUBSET Column
    BY <1>3, <2>1 DEF FileTypes, Db, TableState
  <2>3. WithCols(db, t, db[t].cols \cup {c}) \in Db
    BY <2>1, <2>2, ColumnUpdate DEF FileTypes
  <2>4. QED
    BY <1>2, <2>3 DEF AddColumn, AutoCommit, FileTypes
<1>5. LocalTypes'
  BY <1>2, <1>3 DEF AddColumn, LocalTypes
<1>6. /\ CallTypes'
      /\ Others(p)
      /\ InRange(p)'
  <2>1. CASE NextPlanStep(p)
    BY <1>1, <2>1, NextPlanStepType, LedgerAssumption
       DEF AddColumn, CallTypes, LocalTypes, InRange, PlanLabels, TableLabels,
           TransactionLabels, Others
  <2>2. CASE UNCHANGED <<at, pc>>
    BY <1>1, <2>2
       DEF AddColumn, CallTypes, LocalTypes, InRange, PlanLabels, TableLabels,
           TransactionLabels, Others, Label
  <2>3. QED
    BY <1>2, <2>1, <2>2
<1>7. QED
  BY <1>4, <1>5, <1>6, StepType

LEMMA CheckBackfillType ==
    ASSUME TypeOK, NEW p \in Process, CheckBackfill(p)
    PROVE  TypeOK' /\ Others(p)
<1> USE DEF TypeOK, Types
<1>1. at[p] \in 1..Len(TableSeq)
  BY DEF CheckBackfill, InRange, TableLabels
<1>2. FileTypes' /\ LocalTypes'
  BY DEF CheckBackfill, FileTypes, LocalTypes, files, locals
<1>3. /\ CallTypes'
      /\ Others(p)
      /\ InRange(p)'
  <2>1. CASE NextTable(p, "check", "head")
    <3>1. "check" \in Label /\ "head" \in Label
      BY DEF Label, TableLabels
    <3>2. QED
      BY <1>1, <2>1, <3>1, NextTableType, LedgerAssumption
         DEF CheckBackfill, CallTypes, InRange, PlanLabels, TableLabels,
             TransactionLabels, Others, locals
  <2>2. CASE pc' = [pc EXCEPT ![p] = "cursor"] /\ UNCHANGED at
    BY <1>1, <2>2
       DEF CheckBackfill, CallTypes, InRange, PlanLabels, TableLabels,
           TransactionLabels, Others, Label, locals
  <2>3. QED
    BY <2>1, <2>2 DEF CheckBackfill
<1>4. QED
  BY <1>2, <1>3, StepType

LEMMA OpenCursorType ==
    ASSUME TypeOK, NEW p \in Process, OpenCursor(p)
    PROVE  TypeOK' /\ Others(p)
<1> USE DEF TypeOK, Types
<1>1. at[p] \in 1..Len(TableSeq)
  BY DEF OpenCursor, InRange, TableLabels
<1>2. Len(db[TableSeq[at[p]]].rows) \in Nat
  BY <1>1, TableOfIndex, RowsOfTable DEF FileTypes
<1>3. FileTypes'
  BY DEF OpenCursor, FileTypes
<1>4. LocalTypes'
  BY <1>2, EmptyHashType DEF OpenCursor, LocalTypes
<1>5. CallTypes' /\ Others(p)
  BY DEF OpenCursor, CallTypes, LocalTypes, Others, Label, TableLabels
<1>6. InRange(p)'
  BY <1>1 DEF OpenCursor, CallTypes, InRange, PlanLabels, TableLabels, TransactionLabels
<1>7. QED
  BY <1>3, <1>4, <1>5, <1>6, StepType

LEMMA DuplicateColumnType ==
    ASSUME TypeOK, NEW p \in Process, DuplicateColumn(p)
    PROVE  TypeOK' /\ Others(p)
<1>1. Return(p, "error") /\ UNCHANGED <<files, report>>
  BY DEF DuplicateColumn
<1>2. QED
  BY <1>1, ReturnType, ReturnOthers DEF TypeOK, Types, FileTypes, LocalTypes, files

LEMMA BackfillRowType ==
    ASSUME TypeOK, ChainInv, NEW p \in Process, BackfillRow(p)
    PROVE  TypeOK' /\ Others(p)
<1> USE DEF TypeOK, Types
<1> DEFINE t == TableSeq[at[p]]
           h == ChainHash(hash[p], row[p], ContentJson(db[t].rows[row[p]].content))
<1>1. at[p] \in 1..Len(TableSeq) /\ t \in Table
  BY TableOfIndex DEF BackfillRow, InRange, TableLabels
<1>2. db[t].rows \in Seq(Row)
  BY <1>1, RowsOfTable DEF FileTypes
<1>3. row[p] \in 1..Len(db[t].rows)
  <2>1. row[p] <= count[p] /\ count[p] <= Len(db[t].rows)
    BY DEF BackfillRow, ChainInv, BackfillInv, BackfillState
  <2>2. row[p] \in Nat \ {0} /\ count[p] \in Nat /\ Len(db[t].rows) \in Nat
    BY <1>2 DEF CallTypes, LocalTypes
  <2>3. QED
    BY <2>1, <2>2
<1>4. hash[p] \in Hash /\ h \in Hash
  <2>1. db[t].rows[row[p]] \in Row
    BY <1>2, <1>3, ElementOfSeq
  <2>2. db[t].rows[row[p]].content \in Content
    BY <2>1 DEF Row
  <2>3. hash[p] \in Hash /\ row[p] \in Nat
    BY DEF LocalTypes, CallTypes
  <2>4. QED
    BY <2>2, <2>3, ChainHashType
<1>5. WithRows(db, t, SetHashes(db[t].rows, row[p], hash[p], h)) \in Db
  BY <1>1, <1>2, <1>3, <1>4, HashesUpdate, RowsUpdate DEF FileTypes
<1>6. FileTypes'
  BY <1>5 DEF BackfillRow, AutoCommit, FileTypes
<1>7. LocalTypes'
  BY <1>4 DEF BackfillRow, LocalTypes
<1>8. CallTypes' /\ Others(p)
  BY DEF BackfillRow, CallTypes, LocalTypes, Others
<1>9. InRange(p)'
  BY <1>1 DEF BackfillRow, CallTypes, InRange, PlanLabels, TableLabels, TransactionLabels
<1>10. QED
  BY <1>6, <1>7, <1>8, <1>9, StepType

LEMMA BackfillConflictType ==
    ASSUME TypeOK, NEW p \in Process, BackfillConflict(p)
    PROVE  TypeOK' /\ Others(p)
<1>1. Return(p, "error") /\ current' = current \ {p} /\ UNCHANGED <<db, work, writer, report>>
  BY DEF BackfillConflict
<1>2. QED
  BY <1>1, ReturnType, ReturnOthers DEF TypeOK, Types, FileTypes, LocalTypes

LEMMA BackfillDoneType ==
    ASSUME TypeOK, NEW p \in Process, BackfillDone(p)
    PROVE  TypeOK' /\ Others(p)
<1> USE DEF TypeOK, Types
<1>1. at[p] \in 1..Len(TableSeq)
  BY DEF BackfillDone, InRange, TableLabels
<1>2. "check" \in Label /\ "head" \in Label
  BY DEF Label, TableLabels
<1>3. FileTypes' /\ LocalTypes'
  BY DEF BackfillDone, FileTypes, LocalTypes, locals
<1>4. /\ CallTypes'
      /\ Others(p)
      /\ InRange(p)'
  BY <1>1, <1>2, NextTableType, LedgerAssumption
     DEF BackfillDone, CallTypes, InRange, PlanLabels, TableLabels, TransactionLabels,
         Others, locals
<1>5. QED
  BY <1>3, <1>4, StepType

(* ReadHead and WriteHead move on in the same way.                         *)
LEMMA NextHeadType ==
    ASSUME TypeOK, NEW p \in Process, at[p] \in 1..Len(TableSeq),
           NextTable(p, "head", BodyLabel(p)), UNCHANGED <<nextBody, op, row, locals, out>>
    PROVE  CallTypes' /\ LocalTypes' /\ Others(p) /\ InRange(p)'
<1> USE DEF TypeOK, Types
<1>1. "head" \in Label /\ BodyLabel(p) \in Label
  BY BodyLabelType DEF Label, TableLabels
<1>2. CallTypes' /\ Others(p)
  BY <1>1, NextTableType DEF CallTypes, Others, locals
<1>3. LocalTypes'
  BY DEF LocalTypes, locals
<1>4. InRange(p)'
  <2>1. CASE pc'[p] = "head" /\ at'[p] \in 1..Len(TableSeq)
    BY <2>1 DEF InRange, PlanLabels, TableLabels, TransactionLabels
  <2>2. CASE pc'[p] = BodyLabel(p) /\ at'[p] = 1
    <3>1. 1 \in 1..Len(TableSeq)
      BY LedgerAssumption
    <3>2. QED
      BY <2>2, <3>1, BodyLabelType DEF InRange, PlanLabels, TableLabels, TransactionLabels
  <2>3. QED
    BY <1>1, <2>1, <2>2, NextTableType
<1>5. QED
  BY <1>2, <1>3, <1>4

LEMMA ReadHeadType ==
    ASSUME TypeOK, NEW p \in Process, ReadHead(p)
    PROVE  TypeOK' /\ Others(p)
<1> USE DEF TypeOK, Types
<1>1. at[p] \in 1..Len(TableSeq)
  BY DEF ReadHead, InRange, TableLabels
<1>2. FileTypes'
  BY DEF ReadHead, FileTypes, files
<1>3. CASE NextTable(p, "head", BodyLabel(p))
  BY <1>1, <1>2, <1>3, NextHeadType, StepType DEF ReadHead
<1>4. CASE pc' = [pc EXCEPT ![p] = "headhash"] /\ UNCHANGED at
  <2>1. CallTypes' /\ LocalTypes' /\ Others(p)
    BY <1>4 DEF ReadHead, CallTypes, LocalTypes, Others, Label, TableLabels, locals
  <2>2. InRange(p)'
    BY <1>1, <1>4 DEF CallTypes, InRange, PlanLabels, TableLabels, TransactionLabels
  <2>3. QED
    BY <1>2, <2>1, <2>2, StepType
<1>5. QED
  BY <1>3, <1>4 DEF ReadHead

LEMMA ReadHeadHashType ==
    ASSUME TypeOK, NEW p \in Process, ReadHeadHash(p)
    PROVE  TypeOK' /\ Others(p)
<1> USE DEF TypeOK, Types
<1>1. at[p] \in 1..Len(TableSeq)
  BY DEF ReadHeadHash, InRange, TableLabels
<1>2. LastHash(db[TableSeq[at[p]]].rows) \in Hash
  BY <1>1, TableOfIndex, RowsOfTable, LastHashType DEF FileTypes
<1>3. FileTypes' /\ LocalTypes'
  BY <1>2 DEF ReadHeadHash, FileTypes, LocalTypes, files
<1>4. CallTypes' /\ Others(p)
  BY DEF ReadHeadHash, CallTypes, LocalTypes, Others, Label, TableLabels
<1>5. InRange(p)'
  BY <1>1 DEF ReadHeadHash, CallTypes, InRange, PlanLabels, TableLabels, TransactionLabels
<1>6. QED
  BY <1>3, <1>4, <1>5, StepType

LEMMA ReadHeadCountType ==
    ASSUME TypeOK, NEW p \in Process, ReadHeadCount(p)
    PROVE  TypeOK' /\ Others(p)
<1> USE DEF TypeOK, Types
<1>1. at[p] \in 1..Len(TableSeq)
  BY DEF ReadHeadCount, InRange, TableLabels
<1>2. Len(db[TableSeq[at[p]]].rows) \in Nat
  BY <1>1, TableOfIndex, RowsOfTable DEF FileTypes
<1>3. FileTypes' /\ LocalTypes'
  BY <1>2 DEF ReadHeadCount, FileTypes, LocalTypes, files
<1>4. CallTypes' /\ Others(p)
  BY DEF ReadHeadCount, CallTypes, LocalTypes, Others, Label, TableLabels
<1>5. InRange(p)'
  BY <1>1 DEF ReadHeadCount, CallTypes, InRange, PlanLabels, TableLabels, TransactionLabels
<1>6. QED
  BY <1>3, <1>4, <1>5, StepType

LEMMA WriteHeadType ==
    ASSUME TypeOK, NEW p \in Process, WriteHead(p)
    PROVE  TypeOK' /\ Others(p)
<1> USE DEF TypeOK, Types
<1>1. at[p] \in 1..Len(TableSeq) /\ TableSeq[at[p]] \in Table
  BY TableOfIndex DEF WriteHead, InRange, TableLabels
<1>2. WithHead(db, TableSeq[at[p]], [count |-> count[p], hash |-> hash[p]]) \in Db
  BY <1>1, HeadUpdate DEF FileTypes, LocalTypes
<1>3. FileTypes'
  BY <1>2 DEF WriteHead, AutoCommit, FileTypes
<1>4. QED
  BY <1>1, <1>3, NextHeadType, StepType DEF WriteHead

LEMMA FinishOpenType ==
    ASSUME TypeOK, NEW p \in Process, FinishOpen(p)
    PROVE  TypeOK' /\ Others(p)
<1>1. Return(p, "ok") /\ UNCHANGED <<files, report>>
  BY DEF FinishOpen
<1>2. QED
  BY <1>1, ReturnType, ReturnOthers DEF TypeOK, Types, FileTypes, LocalTypes, files

(* A record call's batches are not empty.                                  *)
LEMMA BatchType ==
    ASSUME TypeOK, NEW p \in Process, at[p] \in 1..Len(op[p].batches)
    PROVE  /\ op[p].kind = "record"
           /\ op[p].table \in Table
           /\ op[p].batches \in Seq(Seq(Content) \ {<<>>})
           /\ Batch(p) \in Seq(Content)
           /\ 1 \in 1..Len(Batch(p))
<1>1. op[p] \in Call
  BY DEF TypeOK, Types, CallTypes
<1>2. op[p].batches # <<>>
  OBVIOUS
<1>3. /\ op[p].kind = "record"
      /\ op[p].table \in Table
      /\ op[p].batches \in Seq(Seq(Content) \ {<<>>})
  BY <1>1, <1>2 DEF Call
<1>4. Batch(p) \in Seq(Content) \ {<<>>}
  BY <1>3, ElementOfSeq DEF Batch
<1>5. QED
  BY <1>3, <1>4, EmptySeq

LEMMA BeginType ==
    ASSUME TypeOK, NEW p \in Process, Begin(p)
    PROVE  TypeOK' /\ Others(p)
<1> USE DEF TypeOK, Types
<1>1. at[p] \in 1..Len(op[p].batches)
  BY DEF Begin, InRange
<1>2. FileTypes' /\ LocalTypes'
  BY DEF Begin, FileTypes, LocalTypes, locals
<1>3. CallTypes' /\ Others(p)
  BY DEF Begin, CallTypes, Others, Label, TransactionLabels, locals
<1>4. InRange(p)'
  <2>1. pc'[p] = "insert" /\ at'[p] = at[p] /\ op'[p] = op[p] /\ row'[p] = 1
    BY DEF Begin, CallTypes
  <2>2. 1 \in 1..Len(Batch(p))
    BY <1>1, BatchType
  <2>3. QED
    BY <1>1, <2>1, <2>2 DEF InRange, Batch, PlanLabels, TableLabels, TransactionLabels
<1>5. QED
  BY <1>2, <1>3, <1>4, StepType

(* What the three statements of a record work on.                          *)
LEMMA RecordContext ==
    ASSUME TypeOK, NEW p \in Process, pc[p] \in {"insert", "rowhash", "anchor"}
    PROVE  /\ at[p] \in 1..Len(op[p].batches)
           /\ row[p] \in 1..Len(Batch(p))
           /\ op[p].table \in Table
           /\ work[op[p].table].rows \in Seq(Row)
           /\ hash[p] \in Hash
           /\ Batch(p)[row[p]] \in Content
<1> USE DEF TypeOK, Types
<1>1. at[p] \in 1..Len(op[p].batches) /\ row[p] \in 1..Len(Batch(p))
  BY DEF InRange, TransactionLabels
<1>2. op[p].table \in Table /\ Batch(p) \in Seq(Content)
  BY <1>1, BatchType
<1>3. Batch(p)[row[p]] \in Content
  BY <1>1, <1>2, ElementOfSeq
<1>4. work[op[p].table].rows \in Seq(Row)
  BY <1>2, RowsOfTable DEF FileTypes
<1>5. QED
  BY <1>1, <1>2, <1>3, <1>4 DEF LocalTypes

LEMMA InsertType ==
    ASSUME TypeOK, NEW p \in Process, Insert(p)
    PROVE  TypeOK' /\ Others(p)
<1> USE DEF TypeOK, Types
<1> DEFINE rows == work[op[p].table].rows
<1>1. pc[p] = "insert"
  BY DEF Insert
<1>2. LastHash(rows) \in Hash
  BY <1>1, RecordContext, LastHashType
<1>3. WithRows(work, op[p].table, Append(rows, NewRow(Batch(p)[row[p]], LastHash(rows)))) \in Db
  BY <1>1, <1>2, RecordContext, RowAppend, RowsUpdate DEF FileTypes
<1>4. FileTypes'
  BY <1>3 DEF Insert, FileTypes
<1>5. LocalTypes'
  BY <1>2 DEF Insert, LocalTypes
<1>6. CallTypes' /\ Others(p)
  BY DEF Insert, CallTypes, LocalTypes, Others, Label, TransactionLabels
<1>7. InRange(p)'
  <2>1. pc'[p] = "rowhash" /\ at'[p] = at[p] /\ op'[p] = op[p] /\ row'[p] = row[p]
    BY DEF Insert, CallTypes
  <2>2. QED
    BY <1>1, <2>1, RecordContext
       DEF InRange, Batch, PlanLabels, TableLabels, TransactionLabels
<1>8. QED
  BY <1>4, <1>5, <1>6, <1>7, StepType

LEMMA SetRowHashType ==
    ASSUME TypeOK, NEW p \in Process, SetRowHash(p), work[op[p].table].rows # <<>>
    PROVE  TypeOK' /\ Others(p)
<1> USE DEF TypeOK, Types
<1> DEFINE rows == work[op[p].table].rows
           h == ChainHash(hash[p], Len(rows), ContentJson(Batch(p)[row[p]]))
<1>1. pc[p] = "rowhash"
  BY DEF SetRowHash
<1>2. rows # <<>>
  OBVIOUS
<1>3. rows \in Seq(Row) /\ hash[p] \in Hash /\ Batch(p)[row[p]] \in Content
  BY <1>1, RecordContext
<1>4. Len(rows) \in 1..Len(rows)
  BY <1>2, <1>3, EmptySeq
<1>5. h \in Hash
  BY <1>3, <1>4, ChainHashType
<1>6. WithRows(work, op[p].table, SetHashes(rows, Len(rows), hash[p], h)) \in Db
  BY <1>1, <1>3, <1>4, <1>5, RecordContext, HashesUpdate, RowsUpdate DEF FileTypes
<1>7. FileTypes'
  BY <1>6 DEF SetRowHash, FileTypes
<1>8. LocalTypes'
  BY <1>5 DEF SetRowHash, LocalTypes
<1>9. CallTypes' /\ Others(p)
  BY DEF SetRowHash, CallTypes, LocalTypes, Others, Label, TransactionLabels
<1>10. InRange(p)'
  <2>1. pc'[p] = "anchor" /\ at'[p] = at[p] /\ op'[p] = op[p] /\ row'[p] = row[p]
    BY DEF SetRowHash, CallTypes
  <2>2. QED
    BY <1>1, <2>1, RecordContext
       DEF InRange, Batch, PlanLabels, TableLabels, TransactionLabels
<1>11. QED
  BY <1>7, <1>8, <1>9, <1>10, StepType

(* The UPDATE of row_hash finds the row that the INSERT has added.         *)
LEMMA RowIsThere ==
    ASSUME ChainInv, NEW p \in Process, SetRowHash(p)
    PROVE  work[op[p].table].rows # <<>>
BY DEF SetRowHash, ChainInv, LockInv, TransactionInv, TransactionState, InsertedRow,
       TransactionLabels

LEMMA UpdateChainHeadType ==
    ASSUME TypeOK, NEW p \in Process, UpdateChainHead(p)
    PROVE  TypeOK' /\ Others(p)
<1> USE DEF TypeOK, Types
<1> DEFINE rows == work[op[p].table].rows
<1>1. pc[p] = "anchor"
  BY DEF UpdateChainHead
<1>2. Len(rows) \in Nat /\ hash[p] \in Hash
  BY <1>1, RecordContext
<1>3. WithHead(work, op[p].table, [count |-> Len(rows), hash |-> hash[p]]) \in Db
  BY <1>1, <1>2, RecordContext, HeadUpdate DEF FileTypes
<1>4. FileTypes' /\ LocalTypes'
  BY <1>3 DEF UpdateChainHead, FileTypes, LocalTypes, locals
<1>5. at'[p] = at[p] /\ op'[p] = op[p] /\ Others(p)
  <2>1. CASE row' = [row EXCEPT ![p] = @ + 1] /\ pc' = [pc EXCEPT ![p] = "insert"]
    BY <2>1 DEF UpdateChainHead, CallTypes, Others, locals
  <2>2. CASE UNCHANGED row /\ pc' = [pc EXCEPT ![p] = "commit"]
    BY <2>2 DEF UpdateChainHead, CallTypes, Others, locals
  <2>3. QED
    BY <2>1, <2>2 DEF UpdateChainHead
<1>6. CallTypes' /\ InRange(p)'
  <2>1. CASE row[p] < Len(Batch(p))
    <3>1. row' = [row EXCEPT ![p] = row[p] + 1] /\ pc' = [pc EXCEPT ![p] = "insert"]
      BY <2>1 DEF UpdateChainHead
    <3>2. row[p] + 1 \in 1..Len(Batch(p))
      BY <1>1, <2>1, RecordContext, BatchType
    <3>3. CallTypes'
      BY <3>1, <3>2 DEF UpdateChainHead, CallTypes, Label, TransactionLabels
    <3>4. pc'[p] = "insert" /\ row'[p] = row[p] + 1
      BY <3>1 DEF CallTypes
    <3>5. QED
      BY <1>1, <1>5, <3>2, <3>3, <3>4, RecordContext
         DEF InRange, Batch, PlanLabels, TableLabels, TransactionLabels
  <2>2. CASE ~(row[p] < Len(Batch(p)))
    <3>1. UNCHANGED row /\ pc' = [pc EXCEPT ![p] = "commit"]
      BY <2>2 DEF UpdateChainHead
    <3>2. CallTypes' /\ pc'[p] = "commit"
      BY <3>1 DEF UpdateChainHead, CallTypes, Label, TransactionLabels
    <3>3. QED
      BY <1>1, <1>5, <3>2, RecordContext
         DEF InRange, PlanLabels, TableLabels, TransactionLabels
  <2>3. QED
    BY <2>1, <2>2
<1>7. QED
  BY <1>4, <1>5, <1>6, StepType

LEMMA CommitType ==
    ASSUME TypeOK, NEW p \in Process, Commit(p)
    PROVE  TypeOK' /\ Others(p)
<1> USE DEF TypeOK, Types
<1>1. at[p] \in 1..Len(op[p].batches)
  BY DEF Commit, InRange, TransactionLabels
<1>2. /\ db' \in Db /\ work' \in Db /\ writer' \in Process \cup {NoProcess}
      /\ current' \in SUBSET Process
      /\ report' \in [Process -> [Table -> Seq(Content)]]
  BY DEF Commit, FileTypes, LocalTypes
<1>3. CASE at[p] < Len(op[p].batches)
  <2>1. /\ at' = [at EXCEPT ![p] = at[p] + 1] /\ pc' = [pc EXCEPT ![p] = "begin"]
        /\ UNCHANGED <<nextBody, op, row, missing, hash, count, snap, out>>
    BY <1>3 DEF Commit
  <2>2. FileTypes' /\ LocalTypes'
    BY <1>2, <2>1 DEF FileTypes, LocalTypes
  <2>3. CallTypes' /\ Others(p)
    BY <2>1 DEF CallTypes, Others, Label
  <2>4. InRange(p)'
    <3>1. pc'[p] = "begin" /\ at'[p] = at[p] + 1 /\ op'[p] = op[p]
      BY <2>1 DEF CallTypes
    <3>2. Len(op[p].batches) \in Nat
      BY <1>1, BatchType
    <3>3. at[p] + 1 \in 1..Len(op[p].batches)
      BY <1>1, <1>3, <3>2
    <3>4. QED
      BY <3>1, <3>3 DEF InRange, PlanLabels, TableLabels, TransactionLabels
  <2>5. QED
    BY <2>2, <2>3, <2>4, StepType
<1>4. CASE ~(at[p] < Len(op[p].batches))
  <2>1. Return(p, "ok")
    BY <1>4 DEF Commit
  <2>2. QED
    BY <1>2, <2>1, ReturnType, ReturnOthers
<1>5. QED
  BY <1>3, <1>4

LEMMA PinSnapshotType ==
    ASSUME TypeOK, NEW p \in Process, PinSnapshot(p)
    PROVE  TypeOK' /\ Others(p)
<1> USE DEF TypeOK, Types
<1>1. at[p] \in 1..Len(TableSeq)
  BY DEF PinSnapshot, InRange, TableLabels
<1>2. FileTypes' /\ LocalTypes'
  BY DEF PinSnapshot, FileTypes, LocalTypes, files
<1>3. CallTypes' /\ Others(p)
  BY DEF PinSnapshot, CallTypes, LocalTypes, Others, Label, TableLabels
<1>4. InRange(p)'
  <2>1. pc'[p] \in {"load", "scan"} /\ at'[p] = at[p]
    BY DEF PinSnapshot, CallTypes
  <2>2. QED
    BY <1>1, <2>1 DEF InRange, PlanLabels, TableLabels, TransactionLabels
<1>5. QED
  BY <1>2, <1>3, <1>4, StepType

(* A query returns contents of rows.                                       *)
LEMMA NewestType ==
    ASSUME NEW rows \in Seq(Row)
    PROVE  Newest(rows) \in Seq(Content)
<1> DEFINE n == IF Len(rows) < Limit THEN Len(rows) ELSE Limit
<1>1. n \in Nat /\ n <= Len(rows)
  BY LedgerAssumption
<1>2. \A i \in 1..n : rows[Len(rows) + 1 - i].content \in Content
  <2>1. TAKE i \in 1..n
  <2>2. Len(rows) + 1 - i \in 1..Len(rows)
    BY <1>1
  <2>3. rows[Len(rows) + 1 - i] \in Row
    BY <2>2, ElementOfSeq
  <2>4. QED
    BY <2>3 DEF Row
<1>3. Newest(rows) \in [1..n -> Content]
  BY <1>2 DEF Newest
<1> HIDE DEF n
<1>4. QED
  BY <1>1, <1>3, SeqDef

LEMMA LoadTableType ==
    ASSUME TypeOK, NEW p \in Process, LoadTable(p)
    PROVE  TypeOK' /\ Others(p)
<1> USE DEF TypeOK, Types
<1> DEFINE t == TableSeq[at[p]]
<1>1. at[p] \in 1..Len(TableSeq) /\ t \in Table
  BY TableOfIndex DEF LoadTable, InRange, TableLabels
<1>2. Newest(Visible(p)[t].rows) \in Seq(Content)
  BY <1>1, RowsOfTable, NewestType DEF Visible, LocalTypes
<1>3. report' \in [Process -> [Table -> Seq(Content)]]
  BY <1>1, <1>2 DEF LoadTable, LocalTypes
<1>4. CASE at[p] < Len(TableSeq)
  <2>1. /\ at' = [at EXCEPT ![p] = at[p] + 1]
        /\ UNCHANGED <<nextBody, pc, op, row, missing, hash, count, snap, out>>
    BY <1>4 DEF LoadTable
  <2>2. FileTypes' /\ LocalTypes'
    BY <1>3, <2>1 DEF LoadTable, FileTypes, LocalTypes, files
  <2>3. CallTypes' /\ Others(p)
    BY <2>1 DEF CallTypes, Others
  <2>4. InRange(p)'
    <3>1. pc'[p] = "load" /\ at'[p] = at[p] + 1
      BY <2>1 DEF LoadTable, CallTypes
    <3>2. at[p] + 1 \in 1..Len(TableSeq)
      BY <1>1, <1>4, LedgerAssumption
    <3>3. QED
      BY <3>1, <3>2 DEF InRange, PlanLabels, TableLabels, TransactionLabels
  <2>5. QED
    BY <2>2, <2>3, <2>4, StepType
<1>5. CASE ~(at[p] < Len(TableSeq))
  <2>1. Return(p, "ok") /\ UNCHANGED files
    BY <1>5 DEF LoadTable
  <2>2. QED
    BY <1>3, <2>1, ReturnType, ReturnOthers DEF FileTypes, files
<1>6. QED
  BY <1>4, <1>5

LEMMA ScanTableType ==
    ASSUME TypeOK, NEW p \in Process, ScanTable(p)
    PROVE  TypeOK' /\ Others(p)
<1> USE DEF TypeOK, Types
<1> DEFINE rows == Visible(p)[TableSeq[at[p]]].rows
<1>1. at[p] \in 1..Len(TableSeq) /\ TableSeq[at[p]] \in Table
  BY TableOfIndex DEF ScanTable, InRange, TableLabels
<1>2. rows \in Seq(Row)
  BY <1>1, RowsOfTable DEF Visible, LocalTypes
<1>3. LastHash(rows) \in Hash /\ Len(rows) \in Nat
  BY <1>2, LastHashType
<1>4. CASE ChainAccepted(TableSeq[at[p]], rows)
  <2>1. /\ hash' = [hash EXCEPT ![p] = LastHash(rows)]
        /\ count' = [count EXCEPT ![p] = Len(rows)]
        /\ pc' = [pc EXCEPT ![p] = "anchorcheck"]
        /\ UNCHANGED <<nextBody, op, at, row, missing, snap, out>>
        /\ UNCHANGED <<files, report>>
    BY <1>4 DEF ScanTable
  <2>2. FileTypes' /\ LocalTypes'
    BY <1>3, <2>1 DEF FileTypes, LocalTypes, files
  <2>3. CallTypes' /\ Others(p)
    BY <2>1 DEF CallTypes, LocalTypes, Others, Label, TableLabels
  <2>4. InRange(p)'
    <3>1. pc'[p] = "anchorcheck" /\ at'[p] = at[p]
      BY <2>1 DEF CallTypes
    <3>2. QED
      BY <1>1, <3>1 DEF InRange, PlanLabels, TableLabels, TransactionLabels
  <2>5. QED
    BY <2>2, <2>3, <2>4, StepType
<1>5. CASE ~ChainAccepted(TableSeq[at[p]], rows)
  <2>1. Return(p, "invalid") /\ UNCHANGED <<files, report>>
    BY <1>5 DEF ScanTable
  <2>2. QED
    BY <2>1, ReturnType, ReturnOthers DEF FileTypes, LocalTypes, files
<1>6. QED
  BY <1>4, <1>5

LEMMA CheckHeadType ==
    ASSUME TypeOK, NEW p \in Process, CheckHead(p)
    PROVE  TypeOK' /\ Others(p)
<1> USE DEF TypeOK, Types
<1>1. at[p] \in 1..Len(TableSeq)
  BY DEF CheckHead, InRange, TableLabels
<1>2. UNCHANGED <<files, report>>
  BY DEF CheckHead
<1>3. CASE \E r \in {"valid", "invalid"} : Return(p, r)
  BY <1>2, <1>3, ReturnType, ReturnOthers DEF FileTypes, LocalTypes, files
<1>4. CASE /\ at[p] < Len(TableSeq)
           /\ at' = [at EXCEPT ![p] = @ + 1]
           /\ pc' = [pc EXCEPT ![p] = "scan"]
           /\ UNCHANGED <<nextBody, op, row, missing, hash, count, snap, out>>
  <2>1. FileTypes' /\ LocalTypes'
    BY <1>2, <1>4 DEF FileTypes, LocalTypes, files
  <2>2. CallTypes' /\ Others(p)
    BY <1>4 DEF CallTypes, Others, Label, TableLabels
  <2>3. InRange(p)'
    <3>1. pc'[p] = "scan" /\ at'[p] = at[p] + 1
      BY <1>4 DEF CallTypes
    <3>2. at[p] + 1 \in 1..Len(TableSeq)
      BY <1>1, <1>4, LedgerAssumption
    <3>3. QED
      BY <3>1, <3>2 DEF InRange, PlanLabels, TableLabels, TransactionLabels
  <2>4. QED
    BY <2>1, <2>2, <2>3, StepType
<1>5. QED
  BY <1>3, <1>4 DEF CheckHead

LEMMA BusyTimeoutType ==
    ASSUME TypeOK, NEW p \in Process, BusyTimeout(p)
    PROVE  TypeOK' /\ Others(p)
<1>1. Return(p, "error") /\ UNCHANGED <<files, report>>
  BY DEF BusyTimeout
<1>2. QED
  BY <1>1, ReturnType, ReturnOthers DEF TypeOK, Types, FileTypes, LocalTypes, files

LEMMA AbortType ==
    ASSUME TypeOK, NEW p \in Process, Abort(p)
    PROVE  TypeOK' /\ Others(p)
<1>1. Return(p, "error") /\ current' = current \ {p} /\ UNCHANGED <<db, report>>
  BY DEF Abort
<1>2. writer' \in Process \cup {NoProcess} /\ work' \in Db
  BY DEF Abort, TypeOK, Types, FileTypes
<1>3. QED
  BY <1>1, <1>2, ReturnType, ReturnOthers DEF TypeOK, Types, FileTypes, LocalTypes

-----------------------------------------------------------------------------
(***************************************************************************)
(* The chain.  First what the operators on rows do to it.                  *)
(***************************************************************************)
(* The rows of a table are rows, with hashes.                              *)
LEMMA RowFields ==
    ASSUME NEW rows \in Seq(Row), NEW i \in 1..Len(rows)
    PROVE  /\ rows[i] \in Row
           /\ rows[i].content \in Content /\ rows[i].prev \in Hash /\ rows[i].hash \in Hash
<1>1. rows[i] \in Row
  BY ElementOfSeq
<1>2. QED
  BY <1>1 DEF Row

(* Backfilling row i from the hash of row i - 1: a row that has a hash is  *)
(* written as it was, and the row that had none continues the chain.       *)
LEMMA BackfillUpdate ==
    ASSUME NEW t \in Table, NEW rows \in Seq(Row), NEW i \in 1..Len(rows), NEW g \in Hash,
           HashedRowsLinked(t, rows), CurrentFormat(rows),
           g = (IF i = 1 THEN EmptyHash ELSE rows[i - 1].hash),
           i > 1 => rows[i - 1].hash # EmptyHash,
           NEW new,
           new = SetHashes(rows, i, g, ChainHash(g, i, ContentJson(rows[i].content)))
    PROVE  /\ new \in Seq(Row) /\ Len(new) = Len(rows)
           /\ \A j \in 1..Len(rows) :
                /\ new[j].content = rows[j].content
                /\ rows[j].hash # EmptyHash => new[j] = rows[j]
           /\ new[i].hash = ChainHash(g, i, ContentJson(rows[i].content))
           /\ new[i].hash # EmptyHash
           /\ HashedRowsLinked(t, new)
           /\ CurrentFormat(new)
<1> DEFINE h == ChainHash(g, i, ContentJson(rows[i].content))
<1>1. h \in Hash /\ h # EmptyHash
  <2>1. i \in Nat /\ rows[i].content \in Content
    BY RowFields
  <2>2. QED
    BY <2>1, ChainHashType
<1>2. new \in Seq(Row) /\ Len(new) = Len(rows)
  BY <1>1, HashesUpdate
<1>3. new[i] = [content |-> rows[i].content, prev |-> g, hash |-> h]
  BY DEF SetHashes
<1>4. \A j \in 1..Len(rows) : j # i => new[j] = rows[j]
  BY DEF SetHashes
<1>5. rows[i].hash # EmptyHash => new[i] = rows[i]
  <2>1. HAVE rows[i].hash # EmptyHash
  <2>2. rows[i].prev = g
    BY <2>1 DEF HashedRowsLinked, RowLinked
  <2>3. rows[i].hash = h
    BY <2>1, <2>2 DEF CurrentFormat
  <2>4. rows[i] = [content |-> rows[i].content, prev |-> rows[i].prev, hash |-> rows[i].hash]
    BY RowFields DEF Row
  <2>5. QED
    BY <1>3, <2>2, <2>3, <2>4
<1> HIDE DEF h
<1>6. \A j \in 1..Len(rows) :
         /\ new[j].content = rows[j].content
         /\ rows[j].hash # EmptyHash => new[j] = rows[j]
  BY <1>3, <1>4, <1>5
<1>7. HashedRowsLinked(t, new)
  <2>1. SUFFICES ASSUME NEW j \in 1..Len(rows), new[j].hash # EmptyHash
                 PROVE  RowLinked(t, new, j)
    BY <1>2 DEF HashedRowsLinked
  <2>2. CASE j = i
    <3>1. new[j].prev = (IF j = 1 THEN EmptyHash ELSE new[j - 1].hash)
      <4>1. CASE j = 1
        BY <1>3, <2>2, <4>1
      <4>2. CASE j # 1
        <5>1. j - 1 \in 1..Len(rows) /\ j - 1 # i
          BY <2>2, <4>2
        <5>2. QED
          BY <1>3, <1>4, <2>2, <4>2, <5>1
      <4>3. QED
        BY <4>1, <4>2
    <3>2. j > 1 => new[j - 1].hash # EmptyHash
      <4>1. HAVE j > 1
      <4>2. j - 1 \in 1..Len(rows) /\ j - 1 # i
        BY <2>2, <4>1
      <4>3. QED
        BY <1>4, <2>2, <4>1, <4>2
    <3>3. RowHashAccepted(t, j, new[j])
      BY <1>3, <2>2 DEF RowHashAccepted, h
    <3>4. QED
      BY <3>1, <3>2, <3>3 DEF RowLinked
  <2>3. CASE j # i
    <3>1. new[j] = rows[j] /\ RowLinked(t, rows, j)
      BY <1>4, <2>1, <2>3 DEF HashedRowsLinked
    <3>2. j > 1 => new[j - 1] = rows[j - 1]
      <4>1. HAVE j > 1
      <4>2. j - 1 \in 1..Len(rows)
        BY <4>1
      <4>3. rows[j - 1].hash # EmptyHash
        BY <3>1, <4>1 DEF RowLinked
      <4>4. QED
        BY <1>6, <4>2, <4>3
    <3>3. QED
      BY <3>1, <3>2 DEF RowLinked
  <2>4. QED
    BY <2>2, <2>3
<1>8. CurrentFormat(new)
  <2>1. SUFFICES ASSUME NEW j \in 1..Len(rows), new[j].hash # EmptyHash
                 PROVE  new[j].hash = ChainHash(new[j].prev, j, ContentJson(new[j].content))
    BY <1>2 DEF CurrentFormat
  <2>2. CASE j = i
    BY <1>3, <2>2 DEF h
  <2>3. CASE j # i
    BY <1>4, <2>1, <2>3 DEF CurrentFormat
  <2>4. QED
    BY <2>2, <2>3
<1>9. QED
  BY <1>1, <1>2, <1>3, <1>6, <1>7, <1>8 DEF h

(* INSERT: the new row has no hash, the chain before it is the old one.    *)
InsertResult(t, rows, r, new) ==
    /\ Len(new) = Len(rows) + 1 /\ Len(rows) \in Nat
    /\ \A j \in 1..Len(rows) : new[j] = rows[j]
    /\ new[Len(new)] = r
    /\ new # <<>>
    /\ \A j \in 1..(Len(new) - 1) : new[j].hash # EmptyHash
    /\ LastHash(rows) = (IF Len(new) = 1 THEN EmptyHash ELSE new[Len(new) - 1].hash)
    /\ HashedRowsLinked(t, new)
    /\ CurrentFormat(rows) => CurrentFormat(new)

LEMMA InsertUpdate ==
    ASSUME NEW t \in Table, NEW rows \in Seq(Row), NEW r \in Row, r.hash = EmptyHash,
           HashedRowsLinked(t, rows), ~Unhashed(rows)
    PROVE  InsertResult(t, rows, r, Append(rows, r))
<1> DEFINE new == Append(rows, r)
<1>1. /\ Len(new) = Len(rows) + 1 /\ Len(rows) \in Nat
      /\ \A j \in 1..Len(rows) : new[j] = rows[j]
      /\ new[Len(new)] = r
      /\ new # <<>>
  BY AppendProperties
<1> HIDE DEF new
<1>2. ASSUME NEW j \in 1..Len(new), new[j].hash # EmptyHash
      PROVE  /\ j \in 1..Len(rows)
             /\ new[j] = rows[j]
             /\ j > 1 => new[j - 1] = rows[j - 1]
  <2>1. j # Len(rows) + 1
    BY <1>1, <1>2
  <2>2. j \in 1..Len(rows) /\ (j > 1 => j - 1 \in 1..Len(rows))
    BY <1>1, <2>1
  <2>3. QED
    BY <1>1, <2>2
<1>3. HashedRowsLinked(t, new)
  <2>1. SUFFICES ASSUME NEW j \in 1..Len(new), new[j].hash # EmptyHash
                 PROVE  RowLinked(t, new, j)
    BY DEF HashedRowsLinked
  <2>2. RowLinked(t, rows, j)
    BY <1>2, <2>1 DEF HashedRowsLinked
  <2>3. QED
    BY <1>2, <2>1, <2>2 DEF RowLinked
<1>4. CurrentFormat(rows) => CurrentFormat(new)
  BY <1>2 DEF CurrentFormat
<1>5. \A j \in 1..(Len(new) - 1) : new[j].hash # EmptyHash
  <2>1. \A j \in 1..Len(rows) : rows[j].hash # EmptyHash
    BY DEF Unhashed
  <2>2. QED
    BY <1>1, <2>1
<1>6. LastHash(rows) = (IF Len(new) = 1 THEN EmptyHash ELSE new[Len(new) - 1].hash)
  <2>1. CASE rows = <<>>
    BY <1>1, <2>1 DEF LastHash
  <2>2. CASE rows # <<>>
    <3>1. Len(rows) \in 1..Len(rows)
      BY <2>2, EmptySeq
    <3>2. Len(new) # 1 /\ Len(new) - 1 = Len(rows)
      BY <1>1, <3>1
    <3>3. QED
      BY <1>1, <2>2, <3>1, <3>2 DEF LastHash
  <2>3. QED
    BY <2>1, <2>2
<1>7. QED
  BY <1>1, <1>3, <1>4, <1>5, <1>6 DEF InsertResult, new

(* UPDATE of the last row's hash: the chain is complete.                   *)
LEMMA LastRowUpdate ==
    ASSUME NEW t \in Table, NEW rows \in Seq(Row), rows # <<>>, NEW g \in Hash,
           NEW c \in Content,
           HashedRowsLinked(t, rows),
           \A i \in 1..(Len(rows) - 1) : rows[i].hash # EmptyHash,
           rows[Len(rows)] = NewRow(c, g),
           g = (IF Len(rows) = 1 THEN EmptyHash ELSE rows[Len(rows) - 1].hash),
           NEW new,
           new = SetHashes(rows, Len(rows), g, ChainHash(g, Len(rows), ContentJson(c)))
    PROVE  /\ new \in Seq(Row) /\ Len(new) = Len(rows)
           /\ \A j \in 1..(Len(rows) - 1) : new[j] = rows[j]
           /\ HashedRowsLinked(t, new)
           /\ ~Unhashed(new)
           /\ LastHash(new) = ChainHash(g, Len(rows), ContentJson(c))
           /\ CurrentFormat(rows) => CurrentFormat(new)
<1> DEFINE n == Len(rows)
           h == ChainHash(g, n, ContentJson(c))
<1>1. n \in Nat /\ n \in 1..Len(rows)
  BY EmptySeq
<1>2. h \in Hash /\ h # EmptyHash
  BY <1>1, ChainHashType
<1>3. new \in Seq(Row) /\ Len(new) = n
  BY <1>1, <1>2, HashesUpdate
<1>4. rows[n].content = c
  BY DEF NewRow
<1>5. new[n].content = c /\ new[n].prev = g /\ new[n].hash = h
  BY <1>1, <1>4 DEF SetHashes
<1>6. \A j \in 1..(n - 1) : new[j] = rows[j]
  BY <1>1 DEF SetHashes
<1> HIDE DEF h
<1>7. HashedRowsLinked(t, new)
  <2>1. SUFFICES ASSUME NEW j \in 1..n
                 PROVE  RowLinked(t, new, j)
    BY <1>3 DEF HashedRowsLinked
  <2>2. j > 1 => j - 1 \in 1..(n - 1)
    BY <1>1
  <2>3. CASE j = n
    <3>1. new[j].prev = (IF j = 1 THEN EmptyHash ELSE new[j - 1].hash)
      <4>1. new[j].prev = g
        BY <1>5, <2>3
      <4>2. CASE j = 1
        BY <2>3, <4>1, <4>2
      <4>3. CASE j # 1
        BY <1>6, <2>2, <2>3, <4>1, <4>3
      <4>4. QED
        BY <4>2, <4>3
    <3>2. j > 1 => new[j - 1].hash # EmptyHash
      BY <1>6, <2>2
    <3>3. new[j].hash = ChainHash(new[j].prev, j, ContentJson(new[j].content))
      BY <1>5, <2>3 DEF h
    <3>4. RowHashAccepted(t, j, new[j])
      BY <3>3 DEF RowHashAccepted
    <3>5. QED
      BY <3>1, <3>2, <3>4 DEF RowLinked
  <2>4. CASE j # n
    <3>1. j \in 1..(n - 1)
      BY <1>1, <2>4
    <3>2. RowLinked(t, rows, j)
      BY <1>1, <3>1 DEF HashedRowsLinked
    <3>3. QED
      BY <1>6, <2>2, <3>1, <3>2 DEF RowLinked
  <2>5. QED
    BY <2>3, <2>4
<1>8. ~Unhashed(new)
  <2>1. SUFFICES ASSUME NEW j \in 1..n
                 PROVE  new[j].hash # EmptyHash
    BY <1>3 DEF Unhashed
  <2>2. j = n \/ j \in 1..(n - 1)
    BY <1>1
  <2>3. QED
    BY <1>2, <1>5, <1>6, <2>2
<1>9. LastHash(new) = h
  BY <1>1, <1>3, <1>5, EmptySeq DEF LastHash
<1>10. CurrentFormat(rows) => CurrentFormat(new)
  <2>1. SUFFICES ASSUME CurrentFormat(rows), NEW j \in 1..n, new[j].hash # EmptyHash
                 PROVE  new[j].hash = ChainHash(new[j].prev, j, ContentJson(new[j].content))
    BY <1>3 DEF CurrentFormat
  <2>2. j = n \/ j \in 1..(n - 1)
    BY <1>1
  <2>3. CASE j = n
    BY <1>5, <2>3 DEF h
  <2>4. CASE j \in 1..(n - 1)
    BY <1>6, <2>1, <2>4 DEF CurrentFormat
  <2>5. QED
    BY <2>2, <2>3, <2>4
<1>11. QED
  BY <1>3, <1>6, <1>7, <1>8, <1>9, <1>10 DEF h

(***************************************************************************)
(* Then what the steps do to it.  Most steps of a process are quiet: they  *)
(* change no row, and the process is outside a write transaction before    *)
(* and after.                                                              *)
(***************************************************************************)
Quiet(p) ==
    /\ pc[p] \notin TransactionLabels /\ pc'[p] \notin TransactionLabels
    /\ writer' = writer
    /\ \A t \in Table : db'[t].rows = db[t].rows
    /\ \/ db' = db /\ work' = work
       \/ writer = NoProcess /\ work' = db'

(* What the process itself has to show after a quiet step.                 *)
QuietDuty(p) ==
    /\ \A t \in Settled(p) : ~Unhashed(db[t].rows)
    /\ pc[p] \in {"cursor", "backfill"} => CurrentFormat(db[TableSeq[at[p]]].rows)
    /\ pc[p] = "backfill" => BackfillState(p)

(* The table a process is busy with in the backfill is a table.            *)
LEMMA BackfillTable ==
    ASSUME TypeOK, NEW p \in Process, pc[p] \in {"check", "cursor", "backfill"}
    PROVE  TableSeq[at[p]] \in Table
<1>1. at[p] \in 1..Len(TableSeq)
  BY DEF TypeOK, InRange, TableLabels
<1>2. QED
  BY <1>1, TableOfIndex

LEMMA SettledTables ==
    ASSUME TypeOK, NEW p \in Process
    PROVE  Settled(p) \subseteq Table
<1>1. CASE pc[p] \in {"check", "cursor", "backfill"}
  <2>1. at[p] \in 1..Len(TableSeq)
    BY <1>1 DEF TypeOK, InRange, TableLabels
  <2>2. Settled(p) = {TableSeq[i] : i \in 1..(at[p] - 1)}
    BY <1>1 DEF Settled, PlanLabels
  <2>3. \A i \in 1..(at[p] - 1) : i \in 1..Len(TableSeq)
    BY <2>1, LedgerAssumption
  <2>4. QED
    BY <2>2, <2>3, TableOfIndex
<1>2. CASE pc[p] \notin {"check", "cursor", "backfill"}
  <2>1. Settled(p) = {} \/ Settled(p) = Table
    BY <1>2 DEF Settled, PlanLabels
  <2>2. QED
    BY <2>1
<1>3. QED
  BY <1>1, <1>2

(* A process another one's step leaves alone keeps what it knows.          *)
LEMMA OthersKept ==
    ASSUME NEW p \in Process, Others(p), NEW q \in Process, q # p
    PROVE  /\ pc'[q] = pc[q] /\ op'[q] = op[q] /\ at'[q] = at[q] /\ row'[q] = row[q]
           /\ hash'[q] = hash[q] /\ count'[q] = count[q]
           /\ Settled(q)' = Settled(q)
BY DEF Others, Settled

LEMMA QuietChain ==
    ASSUME TypeOK, TypeOK', ChainInv, NEW p \in Process, Others(p), Quiet(p), QuietDuty(p)'
    PROVE  ChainInv'
<1> USE DEF ChainInv
<1>1. ChainSound'
  BY DEF ChainSound, Quiet
<1>2. SettledHashed'
  <2>1. SUFFICES ASSUME NEW q \in Process, NEW t \in Settled(q)'
                 PROVE  ~Unhashed(db'[t].rows)
    BY DEF SettledHashed
  <2>2. CASE q = p
    BY <2>2 DEF QuietDuty
  <2>3. CASE q # p
    BY <2>3, OthersKept, SettledTables DEF SettledHashed, Quiet
  <2>4. QED
    BY <2>2, <2>3
<1>3. LockInv'
  <2>1. ASSUME NEW q \in Process
        PROVE  pc'[q] \in TransactionLabels <=> writer' = q
    <3>1. CASE q = p
      BY <3>1 DEF LockInv, Quiet
    <3>2. CASE q # p
      BY <3>2, OthersKept DEF LockInv, Quiet
    <3>3. QED
      BY <3>1, <3>2
  <2>2. writer' = NoProcess => work' = db'
    BY DEF LockInv, Quiet
  <2>3. ASSUME NEW q \in Process, writer' = q
        PROVE  OwnTableOnly(q)'
    <3>1. writer = q /\ UNCHANGED <<db, work>> /\ q # p
      BY <2>3, LedgerAssumption DEF Quiet, LockInv
    <3>2. OwnTableOnly(q)
      BY <3>1 DEF LockInv
    <3>3. op'[q] = op[q] /\ db' = db /\ work' = work
      BY <3>1, OthersKept
    <3>4. QED
      BY <3>2, <3>3 DEF OwnTableOnly
  <2>4. QED
    BY <2>1, <2>2, <2>3 DEF LockInv
<1>4. BackfillFormat'
  <2>1. \A t \in Table : Unhashed(db'[t].rows) => CurrentFormat(db'[t].rows)
    BY DEF BackfillFormat, Quiet
  <2>2. ASSUME NEW q \in Process, pc'[q] \in {"cursor", "backfill"}
        PROVE  CurrentFormat(db'[TableSeq[at'[q]]].rows)
    <3>1. CASE q = p
      BY <2>2, <3>1 DEF QuietDuty
    <3>2. CASE q # p
      BY <2>2, <3>2, OthersKept, BackfillTable DEF BackfillFormat, Quiet
    <3>3. QED
      BY <3>1, <3>2
  <2>3. QED
    BY <2>1, <2>2 DEF BackfillFormat
<1>5. BackfillInv'
  <2>1. SUFFICES ASSUME NEW q \in Process, pc'[q] = "backfill"
                 PROVE  BackfillState(q)'
    BY DEF BackfillInv
  <2>2. CASE q = p
    BY <2>1, <2>2 DEF QuietDuty
  <2>3. CASE q # p
    <3>1. pc[q] = "backfill" /\ BackfillState(q)
      BY <2>1, <2>3, OthersKept DEF BackfillInv
    <3>2. db'[TableSeq[at[q]]].rows = db[TableSeq[at[q]]].rows
      BY <3>1, BackfillTable DEF Quiet
    <3>3. QED
      BY <2>3, <3>1, <3>2, OthersKept DEF BackfillState
  <2>4. QED
    BY <2>2, <2>3
<1>6. TransactionInv'
  <2>1. SUFFICES ASSUME NEW q \in Process, writer' = q
                 PROVE  TransactionState(q)'
    BY DEF TransactionInv
  <2>2. writer = q /\ UNCHANGED <<db, work>> /\ q # p
    BY <2>1, LedgerAssumption DEF Quiet, LockInv
  <2>3. TransactionState(q)
    BY <2>2 DEF TransactionInv
  <2>4. QED
    BY <2>2, <2>3, OthersKept DEF TransactionState, InsertedRow, Batch
<1>7. QED
  BY <1>1, <1>2, <1>3, <1>4, <1>5, <1>6

(* A call that returns outside a transaction is quiet.                     *)
LEMMA QuietReturn ==
    ASSUME TypeOK, TypeOK', ChainInv, NEW p \in Process, NEW r, Return(p, r),
           pc[p] \notin TransactionLabels, UNCHANGED <<db, work, writer>>
    PROVE  ChainInv'
<1>1. Others(p)
  BY ReturnOthers
<1>2. pc'[p] = "idle"
  BY DEF Return, TypeOK, Types, CallTypes
<1>3. Quiet(p)
  BY <1>2 DEF Quiet, TransactionLabels
<1>4. QuietDuty(p)'
  BY <1>2 DEF QuietDuty, Settled, PlanLabels
<1>5. QED
  BY <1>1, <1>3, <1>4, QuietChain

(* So is a step after the backfill.                                        *)
Migrated == Label \ (TransactionLabels \cup PlanLabels \cup {"idle", "check", "cursor", "backfill"})

LEMMA MigratedSettled ==
    ASSUME NEW p \in Process, pc[p] \in Migrated
    PROVE  Settled(p) = Table
BY DEF Migrated, Settled, PlanLabels

LEMMA QuietMigrated ==
    ASSUME TypeOK, TypeOK', ChainInv, NEW p \in Process, Others(p),
           pc[p] \in Migrated, pc'[p] \in Migrated, UNCHANGED <<db, work, writer>>
    PROVE  ChainInv'
<1>1. Quiet(p)
  BY DEF Quiet, Migrated
<1>2. \A t \in Table : ~Unhashed(db[t].rows)
  BY MigratedSettled DEF ChainInv, SettledHashed
<1>3. Settled(p)' = Table
  BY DEF Migrated, Settled, PlanLabels
<1>4. QuietDuty(p)'
  BY <1>2, <1>3 DEF QuietDuty, Migrated
<1>5. QED
  BY <1>1, <1>4, QuietChain

LEMMA StartChain ==
    ASSUME TypeOK, TypeOK', ChainInv, NEW p \in Process, Start(p)
    PROVE  ChainInv'
<1>1. pc[p] = "idle" /\ pc'[p] = "columns"
  BY DEF Start, TypeOK, Types, CallTypes
<1>2. Quiet(p)
  BY <1>1 DEF Start, files, Quiet, TransactionLabels
<1>3. QuietDuty(p)'
  BY <1>1 DEF QuietDuty, Settled, PlanLabels
<1>4. QED
  BY <1>2, <1>3, StartType, QuietChain

(* Where the column plan goes on, nothing is settled yet.                  *)
LEMMA PlanDuty ==
    ASSUME TypeOK, TypeOK', NEW p \in Process,
           pc'[p] \in PlanLabels \/ (pc'[p] = "check" /\ at'[p] = 1)
    PROVE  QuietDuty(p)' /\ pc'[p] \notin TransactionLabels
<1>1. Settled(p)' = {}
  BY DEF Settled, PlanLabels
<1>2. QED
  BY <1>1 DEF QuietDuty, PlanLabels, TransactionLabels

LEMMA ReadColumnsChain ==
    ASSUME TypeOK, TypeOK', ChainInv, NEW p \in Process, ReadColumns(p)
    PROVE  ChainInv'
<1>1. at[p] \in 1..Len(ColumnPlan) /\ pc[p] = "columns"
  BY DEF ReadColumns, TypeOK, InRange, PlanLabels
<1>2. pc'[p] \in PlanLabels \/ (pc'[p] = "check" /\ at'[p] = 1)
  <2>1. CASE NextPlanStep(p)
    BY <1>1, <2>1, NextPlanStepType DEF PlanLabels
  <2>2. CASE pc' = [pc EXCEPT ![p] = "alter"]
    BY <2>2 DEF TypeOK, Types, CallTypes, PlanLabels
  <2>3. QED
    BY <2>1, <2>2 DEF ReadColumns
<1>3. Quiet(p)
  BY <1>1, <1>2, PlanDuty DEF ReadColumns, files, Quiet, TransactionLabels
<1>4. QED
  BY <1>2, <1>3, PlanDuty, ReadColumnsType, QuietChain

LEMMA AddColumnChain ==
    ASSUME TypeOK, TypeOK', ChainInv, NEW p \in Process, AddColumn(p)
    PROVE  ChainInv'
<1> DEFINE t == ColumnPlan[at[p]].table
<1>1. at[p] \in 1..Len(ColumnPlan) /\ pc[p] = "alter" /\ t \in Table
  BY PlanType DEF AddColumn, TypeOK, InRange, PlanLabels
<1>2. PICK c \in missing[p] :
         /\ AutoCommit(p, WithCols(db, t, db[t].cols \cup {c}))
         /\ IF missing[p] = {c} THEN NextPlanStep(p) ELSE UNCHANGED <<at, pc>>
  BY DEF AddColumn
<1>3. pc'[p] \in PlanLabels \/ (pc'[p] = "check" /\ at'[p] = 1)
  <2>1. CASE NextPlanStep(p)
    BY <1>1, <2>1, NextPlanStepType DEF PlanLabels
  <2>2. CASE UNCHANGED <<at, pc>>
    BY <1>1, <2>2 DEF PlanLabels
  <2>3. QED
    BY <1>2, <2>1, <2>2
<1>4. /\ writer = NoProcess /\ writer' = writer /\ work' = db'
      /\ \A u \in Table : db'[u].rows = db[u].rows
  BY <1>1, <1>2 DEF AutoCommit, WithCols, TypeOK, Types, FileTypes, Db
<1>5. Quiet(p)
  BY <1>1, <1>3, <1>4, PlanDuty DEF Quiet, TransactionLabels
<1>6. QED
  BY <1>3, <1>5, PlanDuty, AddColumnType, QuietChain

LEMMA DuplicateColumnChain ==
    ASSUME TypeOK, TypeOK', ChainInv, NEW p \in Process, DuplicateColumn(p)
    PROVE  ChainInv'
BY QuietReturn DEF DuplicateColumn, files, TransactionLabels

(* The backfill of one table is over: the table joins the settled ones.    *)
LEMMA TableSettled ==
    ASSUME TypeOK, ChainInv, NEW p \in Process, pc[p] \in {"check", "backfill"},
           ~Unhashed(db[TableSeq[at[p]]].rows), NextTable(p, "check", "head"),
           UNCHANGED db
    PROVE  QuietDuty(p)' /\ pc'[p] \notin TransactionLabels
<1>1. at[p] \in 1..Len(TableSeq) /\ Len(TableSeq) \in Nat
  BY LedgerAssumption DEF TypeOK, InRange, TableLabels
<1>2. Settled(p) = {TableSeq[i] : i \in 1..(at[p] - 1)}
  BY DEF Settled, PlanLabels
<1>3. \A i \in 1..(at[p] - 1) : ~Unhashed(db[TableSeq[i]].rows)
  BY <1>2 DEF ChainInv, SettledHashed
<1>4. \A i \in 1..at[p] : ~Unhashed(db[TableSeq[i]].rows)
  BY <1>1, <1>3
<1>5. "check" \in Label /\ "head" \in Label
  BY DEF Label, TableLabels
<1>6. CASE pc'[p] = "check" /\ at'[p] = at[p] + 1
  <2>1. Settled(p)' = {TableSeq[i] : i \in 1..at[p]}
    <3>1. Settled(p)' = {TableSeq[i] : i \in 1..(at'[p] - 1)}
      BY <1>6 DEF Settled, PlanLabels
    <3>2. at'[p] - 1 = at[p]
      BY <1>1, <1>6
    <3>3. QED
      BY <3>1, <3>2
  <2>2. \A t \in Settled(p)' : ~Unhashed(db'[t].rows)
    BY <1>4, <2>1
  <2>3. QED
    BY <1>6, <2>2 DEF QuietDuty, TransactionLabels
<1>7. CASE pc'[p] = "head" /\ at[p] = Len(TableSeq)
  <2>1. Settled(p)' = Table
    BY <1>7 DEF Settled, PlanLabels
  <2>2. \A t \in Table : ~Unhashed(db[t].rows)
    BY <1>4, <1>7 DEF Table
  <2>3. QED
    BY <1>7, <2>1, <2>2 DEF QuietDuty, TransactionLabels
<1>8. QED
  BY <1>1, <1>5, <1>6, <1>7, NextTableType

LEMMA CheckBackfillChain ==
    ASSUME TypeOK, TypeOK', ChainInv, NEW p \in Process, CheckBackfill(p)
    PROVE  ChainInv'
<1>1. pc[p] = "check" /\ UNCHANGED <<db, work, writer>>
  BY DEF CheckBackfill, files
<1>2. QuietDuty(p)' /\ pc'[p] \notin TransactionLabels
  <2>1. CASE Unhashed(db[TableSeq[at[p]]].rows)
    <3>1. pc'[p] = "cursor" /\ at'[p] = at[p]
      BY <2>1 DEF CheckBackfill, TypeOK, Types, CallTypes
    <3>2. CurrentFormat(db[TableSeq[at[p]]].rows)
      BY <1>1, <2>1, BackfillTable DEF ChainInv, BackfillFormat
    <3>3. Settled(p)' = Settled(p)
      BY <1>1, <3>1 DEF Settled, PlanLabels
    <3>4. \A t \in Settled(p)' : ~Unhashed(db'[t].rows)
      BY <1>1, <3>3 DEF ChainInv, SettledHashed
    <3>5. QED
      BY <1>1, <3>1, <3>2, <3>4 DEF QuietDuty, TransactionLabels
  <2>2. CASE ~Unhashed(db[TableSeq[at[p]]].rows)
    BY <1>1, <2>2, TableSettled DEF CheckBackfill
  <2>3. QED
    BY <2>1, <2>2
<1>3. Quiet(p)
  BY <1>1, <1>2 DEF Quiet, TransactionLabels
<1>4. QED
  BY <1>2, <1>3, CheckBackfillType, QuietChain

LEMMA OpenCursorChain ==
    ASSUME TypeOK, TypeOK', ChainInv, NEW p \in Process, OpenCursor(p)
    PROVE  ChainInv'
<1>1. pc[p] = "cursor" /\ UNCHANGED <<db, work, writer>>
  BY DEF OpenCursor
<1>2. /\ pc'[p] = "backfill" /\ at'[p] = at[p] /\ row'[p] = 1 /\ hash'[p] = EmptyHash
      /\ count'[p] = Len(db[TableSeq[at[p]]].rows)
  BY DEF OpenCursor, TypeOK, Types, CallTypes, LocalTypes
<1>3. db[TableSeq[at[p]]].rows \in Seq(Row)
  BY <1>1, BackfillTable, RowsOfTable DEF TypeOK, Types, FileTypes
<1>4. BackfillState(p)'
  BY <1>1, <1>2, <1>3 DEF BackfillState
<1>5. Settled(p)' = Settled(p)
  BY <1>1, <1>2 DEF Settled, PlanLabels
<1>6. QuietDuty(p)'
  BY <1>1, <1>2, <1>4, <1>5 DEF QuietDuty, ChainInv, SettledHashed, BackfillFormat
<1>7. Quiet(p)
  BY <1>1, <1>2 DEF Quiet, TransactionLabels
<1>8. QED
  BY <1>6, <1>7, OpenCursorType, QuietChain

LEMMA BackfillConflictChain ==
    ASSUME TypeOK, TypeOK', ChainInv, NEW p \in Process, BackfillConflict(p)
    PROVE  ChainInv'
BY QuietReturn DEF BackfillConflict, TransactionLabels

LEMMA BackfillDoneChain ==
    ASSUME TypeOK, TypeOK', ChainInv, NEW p \in Process, BackfillDone(p)
    PROVE  ChainInv'
<1> DEFINE rows == db[TableSeq[at[p]]].rows
<1>1. pc[p] = "backfill" /\ row[p] > count[p] /\ UNCHANGED <<db, work, writer>>
  BY DEF BackfillDone
<1>2. rows \in Seq(Row) /\ count[p] \in Nat /\ row[p] \in Nat
  BY <1>1, BackfillTable, RowsOfTable DEF TypeOK, Types, FileTypes, CallTypes, LocalTypes
<1>3. \A i \in 1..Len(rows) : i < row[p] \/ i > count[p]
  BY <1>1, <1>2
<1>4. ~Unhashed(rows)
  BY <1>1, <1>3 DEF ChainInv, BackfillInv, BackfillState, Unhashed
<1>5. QuietDuty(p)' /\ pc'[p] \notin TransactionLabels
  BY <1>1, <1>4, TableSettled DEF BackfillDone
<1>6. Quiet(p)
  BY <1>1, <1>5 DEF Quiet, TransactionLabels
<1>7. QED
  BY <1>5, <1>6, BackfillDoneType, QuietChain

(* The heads: the process stays among migrated tables.                     *)
LEMMA NextHeadMigrated ==
    ASSUME TypeOK, NEW p \in Process, at[p] \in 1..Len(TableSeq),
           NextTable(p, "head", BodyLabel(p))
    PROVE  pc'[p] \in Migrated
<1>1. "head" \in Label /\ BodyLabel(p) \in Label
  BY BodyLabelType DEF Label, TableLabels
<1>2. pc'[p] = "head" \/ pc'[p] = BodyLabel(p)
  BY <1>1, NextTableType
<1>3. QED
  BY <1>1, <1>2, BodyLabelType DEF Migrated, TransactionLabels, PlanLabels

LEMMA ReadHeadChain ==
    ASSUME TypeOK, TypeOK', ChainInv, NEW p \in Process, ReadHead(p)
    PROVE  ChainInv'
<1> USE DEF Migrated, Label, TableLabels, TransactionLabels, PlanLabels
<1>1. at[p] \in 1..Len(TableSeq) /\ pc[p] \in Migrated
  BY DEF ReadHead, TypeOK, InRange
<1>2. pc'[p] \in Migrated
  <2>1. CASE NextTable(p, "head", BodyLabel(p))
    BY <1>1, <2>1, NextHeadMigrated
  <2>2. CASE pc' = [pc EXCEPT ![p] = "headhash"]
    BY <2>2 DEF TypeOK, Types, CallTypes
  <2>3. QED
    BY <2>1, <2>2 DEF ReadHead
<1>3. QED
  BY <1>1, <1>2, ReadHeadType, QuietMigrated DEF ReadHead, files

LEMMA ReadHeadHashChain ==
    ASSUME TypeOK, TypeOK', ChainInv, NEW p \in Process, ReadHeadHash(p)
    PROVE  ChainInv'
<1>1. pc[p] \in Migrated /\ pc'[p] \in Migrated
  BY DEF ReadHeadHash, TypeOK, Types, CallTypes, Migrated, Label, TableLabels,
         TransactionLabels, PlanLabels
<1>2. QED
  BY <1>1, ReadHeadHashType, QuietMigrated DEF ReadHeadHash, files

LEMMA ReadHeadCountChain ==
    ASSUME TypeOK, TypeOK', ChainInv, NEW p \in Process, ReadHeadCount(p)
    PROVE  ChainInv'
<1>1. pc[p] \in Migrated /\ pc'[p] \in Migrated
  BY DEF ReadHeadCount, TypeOK, Types, CallTypes, Migrated, Label, TableLabels,
         TransactionLabels, PlanLabels
<1>2. QED
  BY <1>1, ReadHeadCountType, QuietMigrated DEF ReadHeadCount, files

LEMMA WriteHeadChain ==
    ASSUME TypeOK, TypeOK', ChainInv, NEW p \in Process, WriteHead(p)
    PROVE  ChainInv'
<1>1. at[p] \in 1..Len(TableSeq) /\ pc[p] = "headwrite" /\ TableSeq[at[p]] \in Table
  BY TableOfIndex DEF WriteHead, TypeOK, InRange, TableLabels
<1>2. pc[p] \in Migrated /\ pc'[p] \in Migrated
  BY <1>1, NextHeadMigrated
     DEF WriteHead, Migrated, Label, TableLabels, TransactionLabels, PlanLabels
<1>3. /\ writer = NoProcess /\ writer' = writer /\ work' = db'
      /\ \A u \in Table : db'[u].rows = db[u].rows
  BY <1>1 DEF WriteHead, AutoCommit, WithHead, TypeOK, Types, FileTypes, Db
<1>4. Quiet(p)
  BY <1>2, <1>3 DEF Quiet, Migrated
<1>5. Settled(p)' = Table
  BY <1>2 DEF Migrated, Settled, PlanLabels
<1>6. \A t \in Table : ~Unhashed(db[t].rows)
  BY <1>2, MigratedSettled DEF ChainInv, SettledHashed
<1>7. QuietDuty(p)'
  BY <1>2, <1>3, <1>5, <1>6 DEF QuietDuty, Migrated
<1>8. QED
  BY <1>4, <1>7, WriteHeadType, QuietChain

LEMMA FinishOpenChain ==
    ASSUME TypeOK, TypeOK', ChainInv, NEW p \in Process, FinishOpen(p)
    PROVE  ChainInv'
BY QuietReturn DEF FinishOpen, files, TransactionLabels

LEMMA PinSnapshotChain ==
    ASSUME TypeOK, TypeOK', ChainInv, NEW p \in Process, PinSnapshot(p)
    PROVE  ChainInv'
<1>1. pc[p] \in Migrated /\ pc'[p] \in Migrated
  BY DEF PinSnapshot, TypeOK, Types, CallTypes, Migrated, Label, TableLabels,
         TransactionLabels, PlanLabels
<1>2. QED
  BY <1>1, PinSnapshotType, QuietMigrated DEF PinSnapshot, files

LEMMA LoadTableChain ==
    ASSUME TypeOK, TypeOK', ChainInv, NEW p \in Process, LoadTable(p)
    PROVE  ChainInv'
<1>1. pc[p] = "load" /\ UNCHANGED <<db, work, writer>>
  BY DEF LoadTable, files
<1>2. CASE Return(p, "ok")
  BY <1>1, <1>2, QuietReturn DEF TransactionLabels
<1>3. CASE UNCHANGED pc
  <2>1. pc[p] \in Migrated /\ pc'[p] \in Migrated
    BY <1>1, <1>3 DEF Migrated, Label, TableLabels, TransactionLabels, PlanLabels
  <2>2. QED
    BY <1>1, <2>1, LoadTableType, QuietMigrated
<1>4. QED
  BY <1>2, <1>3 DEF LoadTable

LEMMA ScanTableChain ==
    ASSUME TypeOK, TypeOK', ChainInv, NEW p \in Process, ScanTable(p)
    PROVE  ChainInv'
<1>1. pc[p] = "scan" /\ UNCHANGED <<db, work, writer>>
  BY DEF ScanTable, files
<1>2. CASE Return(p, "invalid")
  BY <1>1, <1>2, QuietReturn DEF TransactionLabels
<1>3. CASE pc' = [pc EXCEPT ![p] = "anchorcheck"]
  <2>1. pc[p] \in Migrated /\ pc'[p] \in Migrated
    BY <1>1, <1>3 DEF TypeOK, Types, CallTypes, Migrated, Label, TableLabels,
                      TransactionLabels, PlanLabels
  <2>2. QED
    BY <1>1, <2>1, ScanTableType, QuietMigrated
<1>4. QED
  BY <1>2, <1>3 DEF ScanTable

LEMMA CheckHeadChain ==
    ASSUME TypeOK, TypeOK', ChainInv, NEW p \in Process, CheckHead(p)
    PROVE  ChainInv'
<1>1. pc[p] = "anchorcheck" /\ UNCHANGED <<db, work, writer>>
  BY DEF CheckHead, files
<1>2. CASE \E r \in {"valid", "invalid"} : Return(p, r)
  BY <1>1, <1>2, QuietReturn DEF TransactionLabels
<1>3. CASE pc' = [pc EXCEPT ![p] = "scan"]
  <2>1. pc[p] \in Migrated /\ pc'[p] \in Migrated
    BY <1>1, <1>3 DEF TypeOK, Types, CallTypes, Migrated, Label, TableLabels,
                      TransactionLabels, PlanLabels
  <2>2. QED
    BY <1>1, <2>1, CheckHeadType, QuietMigrated
<1>4. QED
  BY <1>2, <1>3 DEF CheckHead

LEMMA BusyTimeoutChain ==
    ASSUME TypeOK, TypeOK', ChainInv, NEW p \in Process, BusyTimeout(p)
    PROVE  ChainInv'
BY QuietReturn DEF BusyTimeout, files, TransactionLabels, WaitsForLock

(* A row backfilled under the cursor of one process leaves what the others *)
(* know about that table true.                                             *)
LEMMA BackfillRowChain ==
    ASSUME TypeOK, TypeOK', ChainInv, NEW p \in Process, BackfillRow(p)
    PROVE  ChainInv'
<1>t. PICK t : t = TableSeq[at[p]]
  OBVIOUS
<1>r. PICK rows : rows = db[t].rows
  OBVIOUS
<1>i. PICK i : i = row[p]
  OBVIOUS
<1>h. PICK h : h = ChainHash(hash[p], i, ContentJson(rows[i].content))
  OBVIOUS
<1>n. PICK new : new = SetHashes(rows, i, hash[p], h)
  OBVIOUS
<1>1. /\ pc[p] = "backfill" /\ i <= count[p] /\ writer = NoProcess
      /\ db' = WithRows(db, t, new) /\ work' = db' /\ writer' = NoProcess
  BY <1>t, <1>r, <1>i, <1>h, <1>n DEF BackfillRow, AutoCommit
<1>2. t \in Table /\ rows \in Seq(Row) /\ i \in Nat \ {0} /\ count[p] \in Nat /\ hash[p] \in Hash
  BY <1>1, <1>t, <1>r, <1>i, BackfillTable, RowsOfTable
     DEF TypeOK, Types, FileTypes, CallTypes, LocalTypes
<1>3. /\ i <= count[p] + 1 /\ count[p] <= Len(rows)
      /\ \A j \in 1..Len(rows) : j < i \/ j > count[p] => rows[j].hash # EmptyHash
      /\ hash[p] = (IF i = 1 THEN EmptyHash ELSE rows[i - 1].hash)
  BY <1>1, <1>t, <1>r, <1>i DEF ChainInv, BackfillInv, BackfillState
<1>4. i \in 1..Len(rows)
  BY <1>1, <1>2, <1>3
<1>5. HashedRowsLinked(t, rows) /\ CurrentFormat(rows)
  BY <1>1, <1>2, <1>t, <1>r DEF ChainInv, ChainSound, BackfillFormat
<1>6. hash[p] = (IF i = 1 THEN EmptyHash ELSE rows[i - 1].hash)
  BY <1>3
<1>7. i > 1 => rows[i - 1].hash # EmptyHash
  <2>1. HAVE i > 1
  <2>2. i - 1 \in 1..Len(rows) /\ i - 1 < i
    BY <1>4, <2>1
  <2>3. QED
    BY <1>3, <2>2
<1>8. /\ new \in Seq(Row) /\ Len(new) = Len(rows)
      /\ \A j \in 1..Len(rows) : rows[j].hash # EmptyHash => new[j] = rows[j]
      /\ new[i].hash = h /\ new[i].hash # EmptyHash
      /\ HashedRowsLinked(t, new)
      /\ CurrentFormat(new)
  BY <1>2, <1>4, <1>5, <1>6, <1>7, <1>h, <1>n, BackfillUpdate
<1>9. /\ db'[t].rows = new
      /\ \A u \in Table \ {t} : db'[u].rows = db[u].rows
  BY <1>1, <1>2 DEF WithRows, TypeOK, Types, FileTypes, Db
<1>10. Others(p)
  BY BackfillRowType
<1>11. /\ pc'[p] = "backfill" /\ at'[p] = at[p] /\ row'[p] = i + 1
       /\ hash'[p] = h /\ count'[p] = count[p]
  BY <1>1, <1>t, <1>r, <1>i, <1>h DEF BackfillRow, TypeOK, Types, CallTypes, LocalTypes
<1>12. ASSUME NEW u \in Table, ~Unhashed(db[u].rows)
       PROVE  ~Unhashed(db'[u].rows)
  BY <1>8, <1>9, <1>12, <1>r DEF Unhashed
<1>13. ASSUME NEW u \in Table, CurrentFormat(db[u].rows)
       PROVE  CurrentFormat(db'[u].rows)
  BY <1>8, <1>9, <1>13
<1>14. ChainSound'
  BY <1>8, <1>9 DEF ChainInv, ChainSound
<1>15. SettledHashed'
  <2>1. SUFFICES ASSUME NEW q \in Process
                 PROVE  \A u \in Settled(q)' : ~Unhashed(db'[u].rows)
    BY DEF SettledHashed
  <2>2. Settled(q)' = Settled(q)
    <3>1. CASE q = p
      BY <1>1, <1>11, <3>1 DEF Settled, PlanLabels
    <3>2. CASE q # p
      BY <1>10, <3>2, OthersKept
    <3>3. QED
      BY <3>1, <3>2
  <2>3. QED
    BY <1>12, <2>2, SettledTables DEF ChainInv, SettledHashed
<1>16. LockInv'
  <2>1. ASSUME NEW q \in Process
        PROVE  pc'[q] = pc[q]
    BY <1>1, <1>10, <1>11, OthersKept
  <2>2. QED
    BY <1>1, <2>1, LedgerAssumption DEF ChainInv, LockInv
<1>17. BackfillFormat'
  <2>1. ASSUME NEW u \in Table, Unhashed(db'[u].rows)
        PROVE  CurrentFormat(db'[u].rows)
    BY <1>12, <1>13, <2>1 DEF ChainInv, BackfillFormat
  <2>2. ASSUME NEW q \in Process, pc'[q] \in {"cursor", "backfill"}
        PROVE  CurrentFormat(db'[TableSeq[at'[q]]].rows)
    <3>1. pc[q] = pc'[q] /\ at[q] = at'[q]
      BY <1>1, <1>10, <1>11, OthersKept
    <3>2. TableSeq[at[q]] \in Table /\ CurrentFormat(db[TableSeq[at[q]]].rows)
      BY <2>2, <3>1, BackfillTable DEF ChainInv, BackfillFormat
    <3>3. QED
      BY <1>13, <3>1, <3>2
  <2>3. QED
    BY <2>1, <2>2 DEF BackfillFormat
<1>18. BackfillInv'
  <2>1. SUFFICES ASSUME NEW q \in Process, pc'[q] = "backfill"
                 PROVE  BackfillState(q)'
    BY DEF BackfillInv
  <2>2. CASE q = p
    <3>1. db'[TableSeq[at'[q]]].rows = new
      BY <1>9, <1>11, <1>t, <2>2
    <3>2. i + 1 <= count[p] + 1 /\ count[p] <= Len(new)
      BY <1>1, <1>2, <1>3, <1>8
    <3>3. \A j \in 1..Len(new) : j < i + 1 \/ j > count[p] => new[j].hash # EmptyHash
      <4>1. TAKE j \in 1..Len(new)
      <4>2. HAVE j < i + 1 \/ j > count[p]
      <4>3. CASE j = i
        BY <1>8, <4>3
      <4>4. CASE j # i
        <5>1. j < i \/ j > count[p]
          BY <1>2, <1>8, <4>2, <4>4
        <5>2. j \in 1..Len(rows) /\ rows[j].hash # EmptyHash
          BY <1>3, <1>8, <5>1
        <5>3. QED
          BY <1>8, <5>2
      <4>5. QED
        BY <4>3, <4>4
    <3>4. i + 1 # 1 /\ new[(i + 1) - 1].hash = h
      BY <1>2, <1>8
    <3>5. QED
      BY <1>11, <2>2, <3>1, <3>2, <3>3, <3>4 DEF BackfillState
  <2>3. CASE q # p
    <3>1. /\ pc[q] = "backfill" /\ at'[q] = at[q] /\ row'[q] = row[q]
          /\ hash'[q] = hash[q] /\ count'[q] = count[q]
      BY <1>10, <2>1, <2>3, OthersKept
    <3>2. BackfillState(q) /\ TableSeq[at[q]] \in Table
      BY <3>1, BackfillTable DEF ChainInv, BackfillInv
    <3>3. CASE TableSeq[at[q]] = t
      <4>1. row[q] \in Nat \ {0} /\ count[q] \in Nat /\ Len(rows) \in Nat
        BY <1>2 DEF TypeOK, Types, CallTypes, LocalTypes
      <4>2. db[TableSeq[at[q]]].rows = rows /\ db'[TableSeq[at'[q]]].rows = new
        BY <1>9, <1>r, <3>1, <3>3
      <4>3. \A j \in 1..Len(rows) : j < row[q] \/ j > count[q] =>
              rows[j].hash # EmptyHash /\ new[j] = rows[j]
        BY <1>8, <3>2, <4>2 DEF BackfillState
      <4>4. hash[q] = (IF row[q] = 1 THEN EmptyHash ELSE new[row[q] - 1].hash)
        <5>1. CASE row[q] = 1
          BY <3>2, <5>1 DEF BackfillState
        <5>2. CASE row[q] # 1
          <6>1. row[q] <= count[q] + 1 /\ count[q] <= Len(rows)
            BY <3>2, <4>2 DEF BackfillState
          <6>2. row[q] - 1 \in 1..Len(rows) /\ row[q] - 1 < row[q]
            BY <4>1, <5>2, <6>1
          <6>3. hash[q] = rows[row[q] - 1].hash
            BY <3>2, <4>2, <5>2 DEF BackfillState
          <6>4. QED
            BY <4>3, <5>2, <6>2, <6>3
        <5>3. QED
          BY <5>1, <5>2
      <4>5. row[q] <= count[q] + 1 /\ count[q] <= Len(new)
        BY <1>8, <3>2, <4>2 DEF BackfillState
      <4>6. \A j \in 1..Len(new) : j < row[q] \/ j > count[q] => new[j].hash # EmptyHash
        BY <1>8, <4>3
      <4>7. QED
        BY <3>1, <4>2, <4>4, <4>5, <4>6 DEF BackfillState
    <3>4. CASE TableSeq[at[q]] # t
      <4>1. db'[TableSeq[at[q]]].rows = db[TableSeq[at[q]]].rows
        BY <1>9, <3>2, <3>4
      <4>2. QED
        BY <3>1, <3>2, <4>1 DEF BackfillState
    <3>5. QED
      BY <3>3, <3>4
  <2>4. QED
    BY <2>2, <2>3
<1>19. TransactionInv'
  BY <1>1, LedgerAssumption DEF TransactionInv
<1>20. QED
  BY <1>14, <1>15, <1>16, <1>17, <1>18, <1>19 DEF ChainInv

(* A step inside the write transaction is invisible to the others.         *)
LEMMA TransactionChain ==
    ASSUME TypeOK, TypeOK', ChainInv, NEW p \in Process, Others(p),
           Settled(p) = Table, pc'[p] \in TransactionLabels,
           writer \in {p, NoProcess}, writer' = p, db' = db,
           OwnTableOnly(p)', TransactionState(p)'
    PROVE  ChainInv'
<1>1. ASSUME NEW q \in Process
      PROVE  Settled(q)' = Settled(q)
  <2>1. CASE q = p
    <3>1. Settled(p)' = Table
      BY DEF Settled, TransactionLabels, PlanLabels
    <3>2. QED
      BY <2>1, <3>1
  <2>2. CASE q # p
    BY <2>2, OthersKept
  <2>3. QED
    BY <2>1, <2>2
<1>2. ChainSound' /\ SettledHashed'
  BY <1>1 DEF ChainInv, ChainSound, SettledHashed
<1>3. LockInv'
  <2>1. ASSUME NEW q \in Process
        PROVE  pc'[q] \in TransactionLabels <=> writer' = q
    <3>1. CASE q = p
      BY <3>1
    <3>2. CASE q # p
      BY <3>2, OthersKept, LedgerAssumption DEF ChainInv, LockInv
    <3>3. QED
      BY <3>1, <3>2
  <2>2. writer' # NoProcess
    BY LedgerAssumption
  <2>3. QED
    BY <2>1, <2>2 DEF LockInv
<1>4. ASSUME NEW q \in Process, pc'[q] \in {"cursor", "backfill"}
      PROVE  /\ pc[q] = pc'[q] /\ at[q] = at'[q] /\ row[q] = row'[q]
             /\ hash[q] = hash'[q] /\ count[q] = count'[q]
  <2>1. q # p
    BY <1>4 DEF TransactionLabels
  <2>2. QED
    BY <2>1, OthersKept
<1>5. BackfillFormat'
  BY <1>4 DEF ChainInv, BackfillFormat
<1>6. BackfillInv'
  BY <1>4 DEF ChainInv, BackfillInv, BackfillState
<1>7. TransactionInv'
  BY DEF TransactionInv
<1>8. QED
  BY <1>2, <1>3, <1>5, <1>6, <1>7 DEF ChainInv

(* What is known of the process that holds the lock.                       *)
LEMMA InTransaction ==
    ASSUME TypeOK, ChainInv, NEW p \in Process, pc[p] \in TransactionLabels
    PROVE  /\ writer = p /\ Settled(p) = Table
           /\ OwnTableOnly(p) /\ TransactionState(p)
BY DEF ChainInv, LockInv, TransactionInv, Settled, TransactionLabels, PlanLabels

LEMMA BeginChain ==
    ASSUME TypeOK, TypeOK', ChainInv, NEW p \in Process, Begin(p)
    PROVE  ChainInv'
<1>1. pc[p] = "begin" /\ writer = NoProcess /\ writer' = p /\ UNCHANGED <<db, work, op>>
  BY DEF Begin
<1>2. pc'[p] = "insert"
  BY DEF Begin, TypeOK, Types, CallTypes
<1>3. at[p] \in 1..Len(op[p].batches)
  BY <1>1 DEF TypeOK, InRange
<1>4. op[p].kind = "record" /\ op[p].table \in Table
  BY <1>3, BatchType
<1>5. work = db
  BY <1>1 DEF ChainInv, LockInv
<1>6. OwnTableOnly(p)'
  BY <1>1, <1>4, <1>5, RowsOfTable DEF OwnTableOnly, TypeOK, Types, FileTypes
<1>7. Settled(p) = Table
  BY <1>1 DEF Settled, PlanLabels
<1>8. HashedRowsLinked(op[p].table, db[op[p].table].rows) /\ ~Unhashed(db[op[p].table].rows)
  BY <1>4, <1>7 DEF ChainInv, ChainSound, SettledHashed
<1>9. TransactionState(p)'
  BY <1>1, <1>2, <1>5, <1>8 DEF TransactionState
<1>10. QED
  BY <1>1, <1>2, <1>6, <1>7, <1>9, BeginType, TransactionChain DEF TransactionLabels

LEMMA InsertChain ==
    ASSUME TypeOK, TypeOK', ChainInv, NEW p \in Process, Insert(p)
    PROVE  ChainInv'
<1>1. PICK t : t = op[p].table
  OBVIOUS
<1>2. PICK rows : rows = work[t].rows
  OBVIOUS
<1>3. PICK r : r = NewRow(Batch(p)[row[p]], LastHash(rows))
  OBVIOUS
<1>4. PICK new : new = Append(rows, r)
  OBVIOUS
<1>5. /\ pc[p] = "insert" /\ work' = WithRows(work, t, new)
      /\ UNCHANGED <<db, writer, op, at, row>>
  BY <1>1, <1>2, <1>3, <1>4 DEF Insert
<1>6. /\ writer = p /\ Settled(p) = Table /\ OwnTableOnly(p)
      /\ HashedRowsLinked(t, rows) /\ (CurrentFormat(db[t].rows) => CurrentFormat(rows))
      /\ ~Unhashed(rows)
  BY <1>1, <1>2, <1>5, InTransaction DEF TransactionState, TransactionLabels
<1>7. t \in Table /\ rows \in Seq(Row) /\ Batch(p)[row[p]] \in Content
  BY <1>1, <1>2, <1>5, RecordContext
<1>8. r \in Row /\ r.hash = EmptyHash
  BY <1>3, <1>7, LastHashType, EmptyHashType DEF NewRow, Row
<1>9. pc'[p] = "rowhash" /\ hash'[p] = LastHash(rows)
  BY <1>1, <1>2 DEF Insert, TypeOK, Types, CallTypes, LocalTypes
<1>10. work'[t].rows = new /\ \A u \in Table \ {t} : work'[u] = work[u]
  BY <1>5, <1>7 DEF WithRows, TypeOK, Types, FileTypes, Db
<1>11. InsertResult(t, rows, r, new)
  BY <1>4, <1>6, <1>7, <1>8, InsertUpdate
<1>12. db[t].rows \in Seq(Row)
  BY <1>7, RowsOfTable DEF TypeOK, Types, FileTypes
<1>13. op'[p] = op[p] /\ db' = db /\ op'[p].table = t
  BY <1>1, <1>5
<1>14. OwnTableOnly(p)'
  <2>1. /\ op[p].kind = "record" /\ \A u \in Table \ {t} : work[u] = db[u]
        /\ Len(db[t].rows) <= Len(rows) /\ \A j \in 1..Len(db[t].rows) : rows[j] = db[t].rows[j]
    BY <1>1, <1>2, <1>6 DEF OwnTableOnly
  <2>2. Len(db[t].rows) \in Nat
    BY <1>12
  <2>3. Len(db[t].rows) <= Len(new)
    BY <1>11, <2>1, <2>2 DEF InsertResult
  <2>4. \A j \in 1..Len(db[t].rows) : new[j] = db[t].rows[j]
    BY <1>11, <2>1, <2>2 DEF InsertResult
  <2>5. QED
    BY <1>10, <1>13, <2>1, <2>3, <2>4 DEF OwnTableOnly
<1>15. TransactionState(p)'
  <2>1. Batch(p)' = Batch(p) /\ row'[p] = row[p]
    BY <1>5 DEF Batch
  <2>2. InsertedRow(p, new)'
    BY <1>3, <1>9, <1>11, <2>1 DEF InsertedRow, InsertResult
  <2>3. QED
    BY <1>6, <1>9, <1>10, <1>11, <1>13, <2>2 DEF TransactionState, InsertResult
<1>16. QED
  BY <1>5, <1>6, <1>9, <1>13, <1>14, <1>15, InsertType, TransactionChain DEF TransactionLabels

LEMMA SetRowHashChain ==
    ASSUME TypeOK, TypeOK', ChainInv, NEW p \in Process, SetRowHash(p)
    PROVE  ChainInv'
<1>1. PICK t : t = op[p].table
  OBVIOUS
<1>2. PICK rows : rows = work[t].rows
  OBVIOUS
<1>3. PICK c : c = Batch(p)[row[p]]
  OBVIOUS
<1>4. PICK g : g = hash[p]
  OBVIOUS
<1>5. PICK new : new = SetHashes(rows, Len(rows), g, ChainHash(g, Len(rows), ContentJson(c)))
  OBVIOUS
<1>6. /\ pc[p] = "rowhash" /\ work' = WithRows(work, t, new)
      /\ UNCHANGED <<db, writer, op, at, row>>
  BY <1>1, <1>2, <1>3, <1>4, <1>5 DEF SetRowHash
<1>7. /\ writer = p /\ Settled(p) = Table /\ OwnTableOnly(p)
      /\ HashedRowsLinked(t, rows) /\ (CurrentFormat(db[t].rows) => CurrentFormat(rows))
      /\ InsertedRow(p, rows)
  BY <1>1, <1>2, <1>6, InTransaction DEF TransactionState, TransactionLabels
<1>8. t \in Table /\ rows \in Seq(Row) /\ c \in Content /\ g \in Hash
  BY <1>1, <1>2, <1>3, <1>4, <1>6, RecordContext
<1>9. /\ rows # <<>>
      /\ \A i \in 1..(Len(rows) - 1) : rows[i].hash # EmptyHash
      /\ rows[Len(rows)] = NewRow(c, g)
      /\ g = (IF Len(rows) = 1 THEN EmptyHash ELSE rows[Len(rows) - 1].hash)
  BY <1>3, <1>4, <1>7 DEF InsertedRow
<1>10. /\ new \in Seq(Row) /\ Len(new) = Len(rows)
       /\ \A j \in 1..(Len(rows) - 1) : new[j] = rows[j]
       /\ HashedRowsLinked(t, new)
       /\ ~Unhashed(new)
       /\ LastHash(new) = ChainHash(g, Len(rows), ContentJson(c))
       /\ CurrentFormat(rows) => CurrentFormat(new)
  BY <1>5, <1>7, <1>8, <1>9, LastRowUpdate
<1>11. pc'[p] = "anchor" /\ hash'[p] = LastHash(new)
  BY <1>1, <1>2, <1>3, <1>4, <1>10 DEF SetRowHash, TypeOK, Types, CallTypes, LocalTypes
<1>12. work'[t].rows = new /\ \A u \in Table \ {t} : work'[u] = work[u]
  BY <1>6, <1>8 DEF WithRows, TypeOK, Types, FileTypes, Db
<1>13. op'[p] = op[p] /\ db' = db /\ op'[p].table = t
  BY <1>1, <1>6
<1>14. OwnTableOnly(p)'
  <2>1. /\ op[p].kind = "record" /\ \A u \in Table \ {t} : work[u] = db[u]
        /\ Len(db[t].rows) <= Len(rows) /\ \A j \in 1..Len(db[t].rows) : rows[j] = db[t].rows[j]
    BY <1>1, <1>2, <1>7 DEF OwnTableOnly
  <2>2. Len(db[t].rows) \in Nat /\ Len(rows) \in Nat /\ \A j \in 1..Len(db[t].rows) : j \in Nat
    BY <1>8, RowsOfTable DEF TypeOK, Types, FileTypes
  <2>3. ASSUME NEW j \in 1..Len(db[t].rows)
        PROVE  j \in 1..(Len(rows) - 1)
    <3>1. db[t].rows[j].hash # EmptyHash
      BY <1>7, <1>8 DEF ChainInv, SettledHashed, Unhashed
    <3>2. j # Len(rows)
      BY <1>9, <2>1, <3>1 DEF NewRow
    <3>3. QED
      BY <2>1, <2>2, <3>2
  <2>4. \A j \in 1..Len(db[t].rows) : new[j] = db[t].rows[j]
    BY <1>10, <2>1, <2>3
  <2>5. QED
    BY <1>10, <1>12, <1>13, <2>1, <2>4 DEF OwnTableOnly
<1>15. TransactionState(p)'
  BY <1>7, <1>10, <1>11, <1>12, <1>13 DEF TransactionState
<1>16. QED
  BY <1>6, <1>7, <1>11, <1>13, <1>14, <1>15, RowIsThere, SetRowHashType, TransactionChain
     DEF TransactionLabels

LEMMA UpdateChainHeadChain ==
    ASSUME TypeOK, TypeOK', ChainInv, NEW p \in Process, UpdateChainHead(p)
    PROVE  ChainInv'
<1>1. PICK t : t = op[p].table
  OBVIOUS
<1>2. PICK rows : rows = work[t].rows
  OBVIOUS
<1>3. PICK head : head = [count |-> Len(rows), hash |-> hash[p]]
  OBVIOUS
<1>4. /\ pc[p] = "anchor" /\ work' = WithHead(work, t, head)
      /\ UNCHANGED <<db, writer, op, at>>
  BY <1>1, <1>2, <1>3 DEF UpdateChainHead
<1>5. /\ writer = p /\ Settled(p) = Table /\ OwnTableOnly(p)
      /\ HashedRowsLinked(t, rows) /\ (CurrentFormat(db[t].rows) => CurrentFormat(rows))
      /\ ~Unhashed(rows) /\ hash[p] = LastHash(rows)
  BY <1>1, <1>2, <1>4, InTransaction DEF TransactionState, TransactionLabels
<1>6. t \in Table
  BY <1>1, <1>4, RecordContext
<1>7. pc'[p] \in {"insert", "commit"}
  BY DEF UpdateChainHead, TypeOK, Types, CallTypes
<1>8. /\ work'[t].rows = rows /\ work'[t].head = head
      /\ \A u \in Table \ {t} : work'[u] = work[u]
  BY <1>2, <1>4, <1>6 DEF WithHead, TypeOK, Types, FileTypes, Db
<1>9. op'[p] = op[p] /\ db' = db /\ op'[p].table = t
  BY <1>1, <1>4
<1>10. OwnTableOnly(p)'
  BY <1>1, <1>2, <1>5, <1>8, <1>9 DEF OwnTableOnly
<1>11. HeadAccepted(head, Len(rows), LastHash(rows))
  BY <1>3, <1>5 DEF HeadAccepted
<1>12. TransactionState(p)'
  BY <1>5, <1>7, <1>8, <1>9, <1>11 DEF TransactionState
<1>13. QED
  BY <1>4, <1>5, <1>7, <1>9, <1>10, <1>12, UpdateChainHeadType, TransactionChain
     DEF TransactionLabels

(* What a commit makes visible.                                            *)
LEMMA CommitEffect ==
    ASSUME TypeOK, ChainInv, NEW p \in Process, Commit(p), NEW t \in Table
    PROVE  /\ Len(db[t].rows) \in Nat /\ Len(db[t].rows) <= Len(db'[t].rows)
           /\ \A i \in 1..Len(db[t].rows) : db'[t].rows[i] = db[t].rows[i]
           /\ db'[t].rows \in Seq(Row)
           /\ HashedRowsLinked(t, db'[t].rows)
           /\ ~Unhashed(db'[t].rows)
           /\ CurrentFormat(db[t].rows) => CurrentFormat(db'[t].rows)
           /\ t = op[p].table => HeadAccepted(db'[t].head, Len(db'[t].rows), LastHash(db'[t].rows))
           /\ t # op[p].table => db'[t] = db[t]
<1>1. pc[p] = "commit" /\ db' = work
  BY DEF Commit
<1>2. Settled(p) = Table /\ OwnTableOnly(p) /\ TransactionState(p)
  BY <1>1, InTransaction DEF TransactionLabels
<1>3. Len(db[t].rows) \in Nat /\ db'[t].rows \in Seq(Row)
  BY <1>1, RowsOfTable DEF TypeOK, Types, FileTypes
<1>4. CASE t = op[p].table
  BY <1>1, <1>2, <1>3, <1>4 DEF OwnTableOnly, TransactionState
<1>5. CASE t # op[p].table
  <2>1. db'[t] = db[t]
    BY <1>1, <1>2, <1>5 DEF OwnTableOnly
  <2>2. HashedRowsLinked(t, db[t].rows) /\ ~Unhashed(db[t].rows)
    BY <1>2 DEF ChainInv, ChainSound, SettledHashed
  <2>3. QED
    BY <1>3, <1>5, <2>1, <2>2
<1>6. QED
  BY <1>4, <1>5

LEMMA CommitChain ==
    ASSUME TypeOK, TypeOK', ChainInv, NEW p \in Process, Commit(p)
    PROVE  ChainInv'
<1>1. /\ pc[p] = "commit" /\ db' = work /\ work' = work /\ writer' = NoProcess
      /\ writer = p
  BY InTransaction DEF Commit, TransactionLabels
<1>2. pc'[p] \in {"begin", "idle"} /\ Others(p)
  BY CommitType DEF Commit, Return, TypeOK, Types, CallTypes
<1>3. ChainSound'
  BY CommitEffect DEF ChainSound
<1>4. SettledHashed'
  <2>1. SUFFICES ASSUME NEW q \in Process
                 PROVE  Settled(q)' \subseteq Table
    BY CommitEffect DEF SettledHashed
  <2>2. CASE q = p
    BY <1>2, <2>2 DEF Settled, PlanLabels
  <2>3. CASE q # p
    BY <1>2, <2>3, OthersKept, SettledTables
  <2>4. QED
    BY <2>2, <2>3
<1>5. LockInv'
  <2>1. ASSUME NEW q \in Process
        PROVE  pc'[q] \notin TransactionLabels
    <3>1. CASE q = p
      BY <1>2, <3>1 DEF TransactionLabels
    <3>2. CASE q # p
      BY <1>1, <1>2, <3>2, OthersKept DEF ChainInv, LockInv
    <3>3. QED
      BY <3>1, <3>2
  <2>2. QED
    BY <1>1, <2>1, LedgerAssumption DEF LockInv
<1>6. ASSUME NEW q \in Process, pc'[q] \in {"cursor", "backfill"}
      PROVE  /\ pc[q] = pc'[q] /\ at[q] = at'[q] /\ row[q] = row'[q]
             /\ hash[q] = hash'[q] /\ count[q] = count'[q]
             /\ TableSeq[at[q]] \in Table
  <2>1. q # p
    BY <1>2, <1>6
  <2>2. QED
    BY <1>2, <1>6, <2>1, OthersKept, BackfillTable
<1>7. BackfillFormat'
  <2>1. \A t \in Table : ~Unhashed(db'[t].rows)
    BY CommitEffect
  <2>2. ASSUME NEW q \in Process, pc'[q] \in {"cursor", "backfill"}
        PROVE  CurrentFormat(db'[TableSeq[at'[q]]].rows)
    BY <1>6, <2>2, CommitEffect DEF ChainInv, BackfillFormat
  <2>3. QED
    BY <2>1, <2>2 DEF BackfillFormat
<1>8. BackfillInv'
  <2>1. SUFFICES ASSUME NEW q \in Process, pc'[q] = "backfill"
                 PROVE  BackfillState(q)'
    BY DEF BackfillInv
  <2>2. PICK t : t = TableSeq[at[q]]
    OBVIOUS
  <2>3. PICK rows : rows = db[t].rows
    OBVIOUS
  <2>4. PICK new : new = db'[t].rows
    OBVIOUS
  <2>5. /\ pc[q] = "backfill" /\ at'[q] = at[q] /\ row'[q] = row[q]
        /\ hash'[q] = hash[q] /\ count'[q] = count[q] /\ t \in Table
    BY <1>6, <2>1, <2>2
  <2>6. /\ row[q] <= count[q] + 1 /\ count[q] <= Len(rows)
        /\ hash[q] = (IF row[q] = 1 THEN EmptyHash ELSE rows[row[q] - 1].hash)
    BY <2>2, <2>3, <2>5 DEF ChainInv, BackfillInv, BackfillState
  <2>7. /\ Len(rows) \in Nat /\ Len(rows) <= Len(new) /\ new \in Seq(Row)
        /\ \A i \in 1..Len(rows) : new[i] = rows[i]
        /\ \A i \in 1..Len(new) : new[i].hash # EmptyHash
    BY <2>3, <2>4, <2>5, CommitEffect DEF Unhashed
  <2>8. row[q] \in Nat \ {0} /\ count[q] \in Nat /\ Len(new) \in Nat
    BY <2>7 DEF TypeOK, Types, CallTypes, LocalTypes
  <2>9. count[q] <= Len(new)
    BY <2>6, <2>7, <2>8
  <2>10. hash[q] = (IF row[q] = 1 THEN EmptyHash ELSE new[row[q] - 1].hash)
    <3>1. CASE row[q] = 1
      BY <2>6, <3>1
    <3>2. CASE row[q] # 1
      <4>1. row[q] - 1 \in 1..Len(rows)
        BY <2>6, <2>7, <2>8, <3>2
      <4>2. QED
        BY <2>6, <2>7, <3>2, <4>1
    <3>3. QED
      BY <3>1, <3>2
  <2>11. db'[TableSeq[at'[q]]].rows = new
    BY <2>2, <2>4, <2>5
  <2>12. QED
    BY <2>5, <2>6, <2>7, <2>9, <2>10, <2>11 DEF BackfillState
<1>9. TransactionInv'
  BY <1>1, LedgerAssumption DEF TransactionInv
<1>10. QED
  BY <1>3, <1>4, <1>5, <1>7, <1>8, <1>9 DEF ChainInv

(* A process that dies in a transaction leaves the database as it was.     *)
LEMMA AbortChain ==
    ASSUME TypeOK, TypeOK', ChainInv, NEW p \in Process, Abort(p)
    PROVE  ChainInv'
<1>1. Return(p, "error") /\ UNCHANGED db
  BY DEF Abort
<1>2. CASE writer # p
  <2>1. pc[p] \notin TransactionLabels /\ UNCHANGED <<db, work, writer>>
    BY <1>2 DEF Abort, ChainInv, LockInv
  <2>2. QED
    BY <1>1, <2>1, QuietReturn
<1>3. CASE writer = p
  <2>1. writer' = NoProcess /\ work' = db'
    BY <1>3 DEF Abort
  <2>2. pc'[p] = "idle" /\ Others(p)
    BY AbortType DEF Abort, Return, TypeOK, Types, CallTypes
  <2>3. ChainSound'
    BY <1>1 DEF ChainInv, ChainSound
  <2>4. SettledHashed'
    <3>1. SUFFICES ASSUME NEW q \in Process
                   PROVE  \A t \in Settled(q)' : ~Unhashed(db'[t].rows)
      BY DEF SettledHashed
    <3>2. CASE q = p
      <4>1. Settled(q)' = {}
        BY <2>2, <3>2 DEF Settled, PlanLabels
      <4>2. QED
        BY <4>1
    <3>3. CASE q # p
      BY <1>1, <2>2, <3>3, OthersKept DEF ChainInv, SettledHashed
    <3>4. QED
      BY <3>2, <3>3
  <2>5. LockInv'
    <3>1. ASSUME NEW q \in Process
          PROVE  pc'[q] \notin TransactionLabels
      <4>1. CASE q = p
        BY <2>2, <4>1 DEF TransactionLabels
      <4>2. CASE q # p
        BY <1>3, <2>2, <4>2, OthersKept DEF ChainInv, LockInv
      <4>3. QED
        BY <4>1, <4>2
    <3>2. QED
      BY <2>1, <3>1, LedgerAssumption DEF LockInv
  <2>6. ASSUME NEW q \in Process, pc'[q] \in {"cursor", "backfill"}
        PROVE  /\ pc[q] = pc'[q] /\ at[q] = at'[q] /\ row[q] = row'[q]
               /\ hash[q] = hash'[q] /\ count[q] = count'[q]
    <3>1. q # p
      BY <2>2, <2>6
    <3>2. QED
      BY <2>2, <3>1, OthersKept
  <2>7. BackfillFormat'
    BY <1>1, <2>6 DEF ChainInv, BackfillFormat
  <2>8. BackfillInv'
    BY <1>1, <2>6 DEF ChainInv, BackfillInv, BackfillState
  <2>9. TransactionInv'
    BY <2>1, LedgerAssumption DEF TransactionInv
  <2>10. QED
    BY <2>3, <2>4, <2>5, <2>7, <2>8, <2>9 DEF ChainInv
<1>4. QED
  BY <1>2, <1>3

-----------------------------------------------------------------------------
(***************************************************************************)
(* The invariant.                                                          *)
(***************************************************************************)
LEMMA InitType ==
    ASSUME Init
    PROVE  TypeOK
<1>1. db \in Db
  BY InitialDbsAssumption DEF Init, FileOK
<1>2. FileTypes
  BY <1>1, LedgerAssumption DEF Init, FileTypes
<1>3. NoOp \in Call
  <2>1. TableSeq[1] \in Table
    BY TableOfIndex, LedgerAssumption
  <2>2. QED
    BY <2>1 DEF NoOp, Call
<1>4. CallTypes
  BY <1>3 DEF Init, CallTypes, Label
<1>5. EmptyDb \in Db /\ EmptyReport \in [Table -> Seq(Content)]
  BY EmptyHashType DEF EmptyDb, EmptyReport, Db, TableState, NoHead
<1>6. LocalTypes
  BY <1>5, EmptyHashType DEF Init, LocalTypes
<1>7. \A p \in Process : InRange(p)
  BY DEF Init, InRange, PlanLabels, TableLabels, TransactionLabels
<1>8. QED
  BY <1>2, <1>4, <1>6, <1>7 DEF TypeOK, Types

(* Every file earlier runs left satisfies the invariant.                   *)
LEMMA InitChain ==
    ASSUME Init
    PROVE  ChainInv
<1>1. FileOK(db) /\ \A p \in Process : pc[p] = "idle"
  BY InitialDbsAssumption DEF Init
<1>2. ChainSound
  BY <1>1 DEF FileOK, ChainSound
<1>3. SettledHashed
  <2>1. \A p \in Process : Settled(p) = {}
    BY <1>1 DEF Settled, PlanLabels
  <2>2. QED
    BY <2>1 DEF SettledHashed
<1>4. LockInv
  BY <1>1, LedgerAssumption DEF Init, LockInv, TransactionLabels
<1>5. BackfillFormat
  <2>1. \A t \in Table : Unhashed(db[t].rows) => CurrentFormat(db[t].rows)
    BY <1>1 DEF FileOK, CurrentFormat
  <2>2. QED
    BY <1>1, <2>1 DEF BackfillFormat
<1>6. BackfillInv
  BY <1>1 DEF BackfillInv
<1>7. TransactionInv
  BY LedgerAssumption DEF Init, TransactionInv
<1>8. QED
  BY <1>2, <1>3, <1>4, <1>5, <1>6, <1>7 DEF ChainInv

(* No step breaks it.                                                      *)
LEMMA NextInv ==
    ASSUME TypeOK, ChainInv, [Next]_vars
    PROVE  TypeOK' /\ ChainInv'
<1>1. CASE UNCHANGED vars
  <2>1. TypeOK'
    BY <1>1 DEF vars, TypeOK, Types, FileTypes, CallTypes, LocalTypes, InRange, Batch
  <2>2. ChainInv'
    BY <1>1 DEF vars, ChainInv, ChainSound, SettledHashed, Settled, LockInv, OwnTableOnly,
       BackfillFormat, BackfillInv, BackfillState, TransactionInv, TransactionState,
       InsertedRow, Batch
  <2>3. QED
    BY <2>1, <2>2
<1>2. ASSUME NEW p \in Process, Start(p) \/ Step(p) \/ Abort(p)
      PROVE  TypeOK' /\ ChainInv'
  <2>1. CASE Start(p)
    BY <2>1, StartType, StartChain
  <2>2. CASE ReadColumns(p)
    BY <2>2, ReadColumnsType, ReadColumnsChain
  <2>3. CASE AddColumn(p)
    BY <2>3, AddColumnType, AddColumnChain
  <2>4. CASE DuplicateColumn(p)
    BY <2>4, DuplicateColumnType, DuplicateColumnChain
  <2>5. CASE CheckBackfill(p)
    BY <2>5, CheckBackfillType, CheckBackfillChain
  <2>6. CASE OpenCursor(p)
    BY <2>6, OpenCursorType, OpenCursorChain
  <2>7. CASE BackfillRow(p)
    BY <2>7, BackfillRowType, BackfillRowChain
  <2>8. CASE BackfillConflict(p)
    BY <2>8, BackfillConflictType, BackfillConflictChain
  <2>9. CASE BackfillDone(p)
    BY <2>9, BackfillDoneType, BackfillDoneChain
  <2>10. CASE ReadHead(p)
    BY <2>10, ReadHeadType, ReadHeadChain
  <2>11. CASE ReadHeadHash(p)
    BY <2>11, ReadHeadHashType, ReadHeadHashChain
  <2>12. CASE ReadHeadCount(p)
    BY <2>12, ReadHeadCountType, ReadHeadCountChain
  <2>13. CASE WriteHead(p)
    BY <2>13, WriteHeadType, WriteHeadChain
  <2>14. CASE FinishOpen(p)
    BY <2>14, FinishOpenType, FinishOpenChain
  <2>15. CASE Begin(p)
    BY <2>15, BeginType, BeginChain
  <2>16. CASE Insert(p)
    BY <2>16, InsertType, InsertChain
  <2>17. CASE SetRowHash(p)
    BY <2>17, RowIsThere, SetRowHashType, SetRowHashChain
  <2>18. CASE UpdateChainHead(p)
    BY <2>18, UpdateChainHeadType, UpdateChainHeadChain
  <2>19. CASE Commit(p)
    BY <2>19, CommitType, CommitChain
  <2>20. CASE PinSnapshot(p)
    BY <2>20, PinSnapshotType, PinSnapshotChain
  <2>21. CASE LoadTable(p)
    BY <2>21, LoadTableType, LoadTableChain
  <2>22. CASE ScanTable(p)
    BY <2>22, ScanTableType, ScanTableChain
  <2>23. CASE CheckHead(p)
    BY <2>23, CheckHeadType, CheckHeadChain
  <2>24. CASE BusyTimeout(p)
    BY <2>24, BusyTimeoutType, BusyTimeoutChain
  <2>25. CASE Abort(p)
    BY <2>25, AbortType, AbortChain
  <2>26. QED
    BY <1>2, <2>1, <2>2, <2>3, <2>4, <2>5, <2>6, <2>7, <2>8, <2>9, <2>10, <2>11, <2>12,
       <2>13, <2>14, <2>15, <2>16, <2>17, <2>18, <2>19, <2>20, <2>21, <2>22, <2>23, <2>24,
       <2>25
       DEF Step, Schema, Record, Read
<1>3. QED
  BY <1>1, <1>2 DEF Next

LEMMA Invariance == Spec => [](TypeOK /\ ChainInv)
<1>1. Init => TypeOK /\ ChainInv
  BY InitType, InitChain
<1>2. TypeOK /\ ChainInv /\ [Next]_vars => (TypeOK /\ ChainInv)'
  BY NextInv
<1>3. QED
  BY <1>1, <1>2, PTL DEF Spec

(* The variables keep their types, and no loop over the column plan, the   *)
(* tables, the batches or their rows runs past its end.                    *)
THEOREM TypeCorrect == Spec => []TypeOK
BY Invariance, PTL

(* Whatever processes share the file, however they migrate, record and     *)
(* die, every committed row with a hash continues the chain.               *)
THEOREM ChainStaysLinked == Spec => []ChainSound
<1>1. ChainInv => ChainSound
  BY DEF ChainInv
<1>2. QED
  BY <1>1, Invariance, PTL

-----------------------------------------------------------------------------
(***************************************************************************)
(* What a step may do to the committed rows.                               *)
(***************************************************************************)
(* Only the backfill and a commit change rows.                             *)
LEMMA RowsKept ==
    ASSUME TypeOK, NEW p \in Process, Start(p) \/ Step(p) \/ Abort(p),
           ~BackfillRow(p), ~Commit(p), NEW t \in Table
    PROVE  db'[t].rows = db[t].rows
<1>1. CASE Start(p) \/ FinishOpen(p) \/ Read(p) \/ BusyTimeout(p) \/ Abort(p)
  BY <1>1 DEF Start, FinishOpen, Read, PinSnapshot, LoadTable, ScanTable, CheckHead,
              BusyTimeout, Abort, files
<1>2. CASE Begin(p) \/ Insert(p) \/ SetRowHash(p) \/ UpdateChainHead(p)
  BY <1>2 DEF Begin, Insert, SetRowHash, UpdateChainHead
<1>3. CASE \/ ReadColumns(p) \/ DuplicateColumn(p) \/ CheckBackfill(p) \/ OpenCursor(p)
           \/ BackfillConflict(p) \/ BackfillDone(p) \/ ReadHead(p) \/ ReadHeadHash(p)
           \/ ReadHeadCount(p)
  BY <1>3 DEF ReadColumns, DuplicateColumn, CheckBackfill, OpenCursor, BackfillConflict,
              BackfillDone, ReadHead, ReadHeadHash, ReadHeadCount, files
<1>4. CASE AddColumn(p)
  <2>1. PICK u, cols : db' = WithCols(db, u, cols)
    BY <1>4 DEF AddColumn, AutoCommit
  <2>2. QED
    BY <2>1 DEF WithCols, TypeOK, Types, FileTypes, Db
<1>5. CASE WriteHead(p)
  <2>1. PICK u, head : db' = WithHead(db, u, head)
    BY <1>5 DEF WriteHead, AutoCommit
  <2>2. QED
    BY <2>1 DEF WithHead, TypeOK, Types, FileTypes, Db
<1>6. QED
  BY <1>1, <1>2, <1>3, <1>4, <1>5 DEF Step, Schema, Record

LEMMA BackfillEffect ==
    ASSUME TypeOK, ChainInv, NEW p \in Process, BackfillRow(p), NEW u \in Table
    PROVE  /\ Len(db'[u].rows) = Len(db[u].rows) /\ Len(db[u].rows) \in Nat
           /\ \A j \in 1..Len(db[u].rows) :
                /\ db'[u].rows[j].content = db[u].rows[j].content
                /\ db[u].rows[j].hash \in {EmptyHash, db'[u].rows[j].hash}
<1>t. PICK t : t = TableSeq[at[p]]
  OBVIOUS
<1>r. PICK rows : rows = db[t].rows
  OBVIOUS
<1>i. PICK i : i = row[p]
  OBVIOUS
<1>h. PICK h : h = ChainHash(hash[p], i, ContentJson(rows[i].content))
  OBVIOUS
<1>n. PICK new : new = SetHashes(rows, i, hash[p], h)
  OBVIOUS
<1>1. pc[p] = "backfill" /\ i <= count[p] /\ db' = WithRows(db, t, new)
  BY <1>t, <1>r, <1>i, <1>h, <1>n DEF BackfillRow, AutoCommit
<1>2. t \in Table /\ rows \in Seq(Row) /\ i \in Nat \ {0} /\ count[p] \in Nat /\ hash[p] \in Hash
  BY <1>1, <1>t, <1>r, <1>i, BackfillTable, RowsOfTable
     DEF TypeOK, Types, FileTypes, CallTypes, LocalTypes
<1>3. /\ count[p] <= Len(rows)
      /\ \A j \in 1..Len(rows) : j < i \/ j > count[p] => rows[j].hash # EmptyHash
      /\ hash[p] = (IF i = 1 THEN EmptyHash ELSE rows[i - 1].hash)
  BY <1>1, <1>t, <1>r, <1>i DEF ChainInv, BackfillInv, BackfillState
<1>4. i \in 1..Len(rows)
  BY <1>1, <1>2, <1>3
<1>5. HashedRowsLinked(t, rows) /\ CurrentFormat(rows)
  BY <1>1, <1>2, <1>t, <1>r DEF ChainInv, ChainSound, BackfillFormat
<1>6. i > 1 => rows[i - 1].hash # EmptyHash
  <2>1. HAVE i > 1
  <2>2. i - 1 \in 1..Len(rows) /\ i - 1 < i
    BY <1>4, <2>1
  <2>3. QED
    BY <1>3, <2>2
<1>7. /\ Len(new) = Len(rows)
      /\ \A j \in 1..Len(rows) :
           /\ new[j].content = rows[j].content
           /\ rows[j].hash # EmptyHash => new[j] = rows[j]
  BY <1>2, <1>3, <1>4, <1>5, <1>6, <1>h, <1>n, BackfillUpdate
<1>8. CASE u = t
  BY <1>1, <1>2, <1>7, <1>8, <1>r DEF WithRows, TypeOK, Types, FileTypes, Db
<1>9. CASE u # t
  BY <1>1, <1>9, RowsOfTable DEF WithRows, TypeOK, Types, FileTypes, Db
<1>10. QED
  BY <1>8, <1>9

(* Under every interleaving no step removes a committed row, changes its   *)
(* content, or replaces a hash that has been written.                      *)
THEOREM OnlyAppends == Spec => AppendOnly
<1> DEFINE Kept == \A t \in Table :
              /\ Len(db'[t].rows) >= Len(db[t].rows)
              /\ \A i \in 1..Len(db[t].rows) :
                   /\ db'[t].rows[i].content = db[t].rows[i].content
                   /\ db[t].rows[i].hash \in {EmptyHash, db'[t].rows[i].hash}
<1>1. TypeOK /\ ChainInv /\ [Next]_vars => [Kept]_db
  <2>1. SUFFICES ASSUME TypeOK, ChainInv, Next
                 PROVE  Kept
    BY DEF vars
  <2>2. PICK p \in Process : Start(p) \/ Step(p) \/ Abort(p)
    BY <2>1 DEF Next
  <2>3. SUFFICES ASSUME NEW t \in Table
                 PROVE  /\ Len(db'[t].rows) >= Len(db[t].rows)
                        /\ \A i \in 1..Len(db[t].rows) :
                             /\ db'[t].rows[i].content = db[t].rows[i].content
                             /\ db[t].rows[i].hash \in {EmptyHash, db'[t].rows[i].hash}
    OBVIOUS
  <2>4. Len(db[t].rows) \in Nat
    BY <2>1, RowsOfTable DEF TypeOK, Types, FileTypes
  <2>5. CASE BackfillRow(p)
    BY <2>1, <2>4, <2>5, BackfillEffect
  <2>6. CASE Commit(p)
    BY <2>1, <2>4, <2>6, CommitEffect
  <2>7. CASE ~BackfillRow(p) /\ ~Commit(p)
    BY <2>1, <2>2, <2>4, <2>7, RowsKept
  <2>8. QED
    BY <2>5, <2>6, <2>7
<1>2. QED
  BY <1>1, Invariance, PTL DEF Spec, AppendOnly

(* A linked chain in which every row has a hash is what the verifier's     *)
(* scan accepts.                                                           *)
LEMMA LinkedAccepted ==
    ASSUME NEW t \in Table, NEW rows \in Seq(Row), HashedRowsLinked(t, rows), ~Unhashed(rows)
    PROVE  ChainAccepted(t, rows)
BY DEF HashedRowsLinked, RowLinked, Unhashed, ChainAccepted

(* Every transaction that adds rows leaves its table verifiable.           *)
THEOREM CommitsAnchor == Spec => CommitAnchors
<1> DEFINE Anchored == \A t \in Table :
              Len(db'[t].rows) > Len(db[t].rows) =>
                 /\ ChainAccepted(t, db'[t].rows)
                 /\ HeadAccepted(db'[t].head, Len(db'[t].rows), LastHash(db'[t].rows))
<1>1. TypeOK /\ ChainInv /\ [Next]_vars => [Anchored]_db
  <2>1. SUFFICES ASSUME TypeOK, ChainInv, Next
                 PROVE  Anchored
    BY DEF vars
  <2>2. PICK p \in Process : Start(p) \/ Step(p) \/ Abort(p)
    BY <2>1 DEF Next
  <2>3. SUFFICES ASSUME NEW t \in Table, Len(db'[t].rows) > Len(db[t].rows)
                 PROVE  /\ ChainAccepted(t, db'[t].rows)
                        /\ HeadAccepted(db'[t].head, Len(db'[t].rows), LastHash(db'[t].rows))
    OBVIOUS
  <2>4. Len(db[t].rows) \in Nat
    BY <2>1, RowsOfTable DEF TypeOK, Types, FileTypes
  <2>5. CASE BackfillRow(p)
    BY <2>1, <2>3, <2>4, <2>5, BackfillEffect
  <2>6. CASE Commit(p)
    <3>1. /\ db'[t].rows \in Seq(Row) /\ HashedRowsLinked(t, db'[t].rows)
          /\ ~Unhashed(db'[t].rows)
      BY <2>1, <2>6, CommitEffect
    <3>2. t = op[p].table
      BY <2>1, <2>3, <2>4, <2>6, CommitEffect
    <3>3. HeadAccepted(db'[t].head, Len(db'[t].rows), LastHash(db'[t].rows))
      BY <2>1, <2>6, <3>2, CommitEffect
    <3>4. QED
      BY <3>1, <3>3, LinkedAccepted
  <2>7. CASE ~BackfillRow(p) /\ ~Commit(p)
    BY <2>1, <2>2, <2>3, <2>4, <2>7, RowsKept
  <2>8. QED
    BY <2>5, <2>6, <2>7
<1>2. QED
  BY <1>1, Invariance, PTL DEF Spec, CommitAnchors
=============================================================================

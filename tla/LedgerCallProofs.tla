-------------------------- MODULE LedgerCallProofs --------------------------
(***************************************************************************)
(* Proofs about what the ledger's calls return and record, for every set   *)
(* of processes, sequence of tables, initial file and bound: recorded rows *)
(* are there exactly once, sacrifices all or nothing, verify_chain raises  *)
(* no false alarm on an anchored file, and the ledger implements AuditLog. *)
(* The last part is about LedgerFaults: damage from outside is reported.   *)
(***************************************************************************)
EXTENDS LedgerProofs, LedgerFaults

(***************************************************************************)
(* The inductive invariant.  First, where a call is tells which call it    *)
(* is, and a call under way has no result yet.                             *)
(***************************************************************************)
LabelState(p) ==
    /\ pc[p] # "idle" => out[p] = "none"
    /\ pc[p] = "finish" => op[p].kind = "open"
    /\ pc[p] \in TransactionLabels \cup {"begin"} => op[p].kind = "record"
    /\ pc[p] = "pin" => op[p].kind \in {"audit", "verify"}
    /\ pc[p] = "load" => op[p].kind = "audit"
    /\ pc[p] \in {"scan", "anchorcheck"} => op[p].kind = "verify"

LabelInv == \A p \in Process : LabelState(p)

(* The submitted contents are new: no two of them are the same, in one     *)
(* call or in two.                                                         *)
Body(p, b, i) == op[p].batches[b][i].body

NewToCall(p, b, i) ==
    \A c \in 1..Len(op[p].batches) : \A j \in 1..Len(op[p].batches[c]) :
        Body(p, c, j) = Body(p, b, i) => c = b /\ j = i

NewToOther(p, q, b, i) ==
    \A c \in 1..Len(op[q].batches) : \A j \in 1..Len(op[q].batches[c]) :
        Body(q, c, j) # Body(p, b, i)

Submits(p) ==
    /\ op[p].table # "paradox_results" => Len(op[p].batches) = 1
    /\ \A b \in 1..Len(op[p].batches) : \A i \in 1..Len(op[p].batches[b]) :
         /\ Body(p, b, i) < nextBody
         /\ NewToCall(p, b, i)
         /\ \A q \in Process \ {p} : op[q].kind = "record" => NewToOther(p, q, b, i)

SubmitInv == \A p \in Process : op[p].kind = "record" => Submits(p)

StoredInv == \A t \in Table : \A i \in 1..Len(db[t].rows) : db[t].rows[i].content.body < nextBody

(* The open transaction has inserted the first rows of its batch, in their *)
(* order, after the rows of the file.                                      *)
Inserted(p) == IF pc[p] = "insert" THEN row[p] - 1 ELSE row[p]

BatchState(p) ==
    LET old == db[op[p].table].rows
        new == work[op[p].table].rows
    IN  /\ Len(new) = Len(old) + Inserted(p)
        /\ \A i \in 1..Inserted(p) : new[Len(old) + i].content = Batch(p)[i]
        /\ pc[p] = "commit" => row[p] = Len(Batch(p))

BatchInv == \A p \in Process : pc[p] \in TransactionLabels => BatchState(p)

(* The batches of a call are committed one after the other: the first k    *)
(* are in the file, each row once, and nothing of the later ones is.       *)
Held(t, x) == \E i \in 1..Len(db[t].rows) : db[t].rows[i].content.body = x

CommittedUpTo(p, k) ==
    \A b \in 1..Len(op[p].batches) : \A i \in 1..Len(op[p].batches[b]) :
        IF b <= k THEN HeldOnce(op[p].table, Body(p, b, i))
                  ELSE ~Held(op[p].table, Body(p, b, i))

Done(p) == IF pc[p] \in TransactionLabels \cup {"begin"} THEN at[p] - 1 ELSE 0

Progress(p) ==
    \E k \in 0..Len(op[p].batches) :
        /\ CommittedUpTo(p, k)
        /\ out[p] = "ok" => k = Len(op[p].batches)
        /\ pc[p] # "idle" => k = Done(p)

ProgressInv == \A p \in Process : op[p].kind = "record" => Progress(p)

RecordInv ==
    /\ LabelInv
    /\ SubmitInv
    /\ StoredInv
    /\ BatchInv
    /\ ProgressInv

(* An audit's report holds, of its snapshot, the tables read so far.       *)
ReportState(p) ==
    \A i \in 1..(at[p] - 1) : report[p][TableSeq[i]] = Newest(snap[p][TableSeq[i]].rows)

ReportInv ==
    \A p \in Process : /\ pc[p] = "pin" => at[p] = 1
                       /\ pc[p] = "load" => ReportState(p)

(* On a file whose chains are complete and anchored: every table stays so, *)
(* nothing migrates, and every snapshot that is verified is so too.        *)
Intact(d) ==
    \A t \in Table : /\ HashedRowsLinked(t, d[t].rows)
                     /\ ~Unhashed(d[t].rows)
                     /\ HeadAccepted(d[t].head, Len(d[t].rows), LastHash(d[t].rows))

VerifyState(p) ==
    /\ pc[p] \notin {"cursor", "backfill", "headhash", "headcount", "headwrite"}
    /\ pc[p] \in {"scan", "anchorcheck"} => Intact(snap[p])
    /\ pc[p] = "anchorcheck" => /\ count[p] = Len(snap[p][TableSeq[at[p]]].rows)
                                /\ hash[p] = LastHash(snap[p][TableSeq[at[p]]].rows)
    /\ out[p] # "invalid"

IntactInv == Intact(db) /\ \A p \in Process : VerifyState(p)

-----------------------------------------------------------------------------
(***************************************************************************)
(* What the steps have in common.                                          *)
(***************************************************************************)
USE DEF Goto

CallStep(p) == Start(p) \/ Step(p) \/ Abort(p)

LEMMA StepOthers ==
    ASSUME TypeOK, ChainInv, NEW p \in Process, CallStep(p)
    PROVE  Others(p)
<1>1. CASE Start(p)
  BY <1>1, StartType
<1>2. CASE Schema(p)
  BY <1>2, ReadColumnsType, AddColumnType, DuplicateColumnType, CheckBackfillType,
     OpenCursorType, BackfillRowType, BackfillConflictType, BackfillDoneType,
     ReadHeadType, ReadHeadHashType, ReadHeadCountType, WriteHeadType DEF Schema
<1>3. CASE FinishOpen(p) \/ BusyTimeout(p) \/ Abort(p)
  BY <1>3, FinishOpenType, BusyTimeoutType, AbortType
<1>4. CASE Record(p)
  BY <1>4, BeginType, InsertType, RowIsThere, SetRowHashType, UpdateChainHeadType, CommitType DEF Record
<1>5. CASE Read(p)
  BY <1>5, PinSnapshotType, LoadTableType, ScanTableType, CheckHeadType DEF Read
<1>6. QED
  BY <1>1, <1>2, <1>3, <1>4, <1>5 DEF CallStep, Step

(* A step leaves the results, snapshots and reports of the others alone.   *)
LEMMA StepResults ==
    ASSUME TypeOK, NEW p \in Process, CallStep(p), NEW q \in Process, q # p
    PROVE  out'[q] = out[q] /\ snap'[q] = snap[q] /\ report'[q] = report[q]
<1> USE DEF TypeOK, Types, CallTypes, LocalTypes
<1>1. CASE Start(p)
  BY <1>1 DEF Start
<1>2. ASSUME NEW r, Return(p, r)
      PROVE  out'[q] = out[q] /\ snap'[q] = snap[q]
  BY <1>2 DEF Return
<1>3. CASE \/ ReadColumns(p) \/ AddColumn(p) \/ CheckBackfill(p) \/ OpenCursor(p)
           \/ BackfillRow(p) \/ BackfillDone(p) \/ ReadHead(p) \/ ReadHeadHash(p)
           \/ ReadHeadCount(p) \/ WriteHead(p)
  BY <1>3 DEF ReadColumns, AddColumn, CheckBackfill, OpenCursor, BackfillRow, BackfillDone,
              ReadHead, ReadHeadHash, ReadHeadCount, WriteHead, locals
<1>4. CASE DuplicateColumn(p) \/ BackfillConflict(p) \/ FinishOpen(p) \/ BusyTimeout(p) \/ Abort(p)
  BY <1>2, <1>4 DEF DuplicateColumn, BackfillConflict, FinishOpen, BusyTimeout, Abort
<1>5. CASE Begin(p) \/ Insert(p) \/ SetRowHash(p) \/ UpdateChainHead(p)
  BY <1>5 DEF Begin, Insert, SetRowHash, UpdateChainHead, locals
<1>6. CASE Commit(p)
  BY <1>2, <1>6 DEF Commit
<1>7. CASE PinSnapshot(p)
  BY <1>7 DEF PinSnapshot
<1>8. CASE LoadTable(p)
  BY <1>2, <1>8 DEF LoadTable
<1>9. CASE ScanTable(p) \/ CheckHead(p)
  BY <1>2, <1>9 DEF ScanTable, CheckHead
<1>10. QED
  BY <1>1, <1>3, <1>4, <1>5, <1>6, <1>7, <1>8, <1>9 DEF CallStep, Step, Schema, Record, Read

(* Only a commit changes what the committed rows say.                      *)
ContentsKept ==
    \A t \in Table : /\ Len(db'[t].rows) = Len(db[t].rows)
                     /\ \A i \in 1..Len(db[t].rows) :
                          db'[t].rows[i].content = db[t].rows[i].content

LEMMA StepContents ==
    ASSUME TypeOK, ChainInv, NEW p \in Process, CallStep(p), ~Commit(p)
    PROVE  ContentsKept
<1>1. CASE BackfillRow(p)
  BY <1>1, BackfillEffect DEF ContentsKept
<1>2. CASE ~BackfillRow(p)
  BY <1>2, RowsKept DEF ContentsKept, CallStep
<1>3. QED
  BY <1>1, <1>2

(***************************************************************************)
(* How a step moves its own call on: it stays under way, or it returns,    *)
(* and then a record call has failed.                                      *)
(***************************************************************************)
SchemaLabels == {"columns", "alter", "check", "cursor", "backfill", "head", "headhash",
                 "headcount", "headwrite"}

Goes(p) ==
    /\ op' = op /\ nextBody' = nextBody
    /\ \/ /\ pc'[p] # "idle" /\ out' = out /\ LabelState(p)'
          /\ op[p].kind = "record" => Done(p)' = Done(p)
          /\ pc'[p] = "pin" => at'[p] = 1
          /\ pc'[p] = "load" => PinSnapshot(p) \/ LoadTable(p)
       \/ pc'[p] = "idle" /\ out'[p] # "ok"
       \/ pc'[p] = "idle" /\ op[p].kind # "record" /\ (op[p].kind = "audit" => LoadTable(p))

LEMMA SchemaGoes ==
    ASSUME TypeOK, NEW p \in Process, LabelState(p), pc[p] \in SchemaLabels,
           op' = op, nextBody' = nextBody, out' = out,
           pc'[p] \in SchemaLabels \/ (pc'[p] = BodyLabel(p) /\ at'[p] = 1)
    PROVE  Goes(p)
<1>1. out[p] = "none" /\ op'[p] = op[p] /\ out'[p] = out[p]
  BY DEF LabelState, SchemaLabels
<1>2. CASE pc'[p] \in SchemaLabels
  BY <1>1, <1>2 DEF Goes, LabelState, Done, SchemaLabels, TransactionLabels
<1>3. CASE pc'[p] = BodyLabel(p) /\ at'[p] = 1
  <2>1. op[p].kind \in {"open", "record", "audit", "verify"}
    BY DEF TypeOK, Types, CallTypes, Call
  <2>2. BodyLabel(p) \in {"finish", "begin", "pin"}
    BY BodyLabelType
  <2>3. LabelState(p)'
    BY <1>1, <1>3, <2>1, <2>2 DEF LabelState, BodyLabel, TransactionLabels
  <2>4. Done(p)' = 0 /\ Done(p) = 0
    BY <1>3, <2>2 DEF Done, SchemaLabels, TransactionLabels
  <2>5. QED
    BY <1>3, <2>2, <2>3, <2>4 DEF Goes
<1>4. QED
  BY <1>2, <1>3

LEMMA TransactionGoes ==
    ASSUME NEW p \in Process, LabelState(p), pc[p] \in TransactionLabels \cup {"begin"},
           op' = op, nextBody' = nextBody, out' = out,
           pc'[p] \in TransactionLabels, at'[p] = at[p]
    PROVE  Goes(p)
<1>1. op'[p] = op[p] /\ out'[p] = out[p]
  OBVIOUS
<1>2. QED
  BY <1>1 DEF Goes, LabelState, Done, TransactionLabels

LEMMA ReturnGoes ==
    ASSUME TypeOK, NEW p \in Process, NEW r, Return(p, r),
           r # "ok" \/ (op[p].kind # "record" /\ (op[p].kind = "audit" => LoadTable(p)))
    PROVE  Goes(p)
BY DEF Goes, Return, TypeOK, Types, CallTypes

LEMMA SchemaStepGoes ==
    ASSUME TypeOK, NEW p \in Process, LabelState(p), Schema(p)
    PROVE  Goes(p)
<1> USE DEF SchemaLabels
<1>t. pc \in [Process -> Label] /\ at \in [Process -> Nat \ {0}]
  BY DEF TypeOK, Types, CallTypes
<1>n. ASSUME NextPlanStep(p)
      PROVE  pc'[p] \in {"columns", "check"}
  BY <1>t, <1>n DEF NextPlanStep
<1>h. ASSUME NEW again, NEW done, NextTable(p, again, done)
      PROVE  pc'[p] = again \/ (pc'[p] = done /\ at'[p] = 1)
  BY <1>t, <1>h DEF NextTable
<1>1. CASE ReadColumns(p)
  <2>1. pc'[p] \in {"columns", "check", "alter"}
    BY <1>1, <1>t, <1>n DEF ReadColumns
  <2>2. QED
    BY <1>1, <2>1, SchemaGoes DEF ReadColumns
<1>2. CASE AddColumn(p)
  <2>1. pc'[p] \in {"columns", "check", "alter"}
    BY <1>2, <1>t, <1>n DEF AddColumn
  <2>2. QED
    BY <1>2, <2>1, SchemaGoes DEF AddColumn
<1>3. CASE DuplicateColumn(p) \/ BackfillConflict(p)
  BY <1>3, ReturnGoes DEF DuplicateColumn, BackfillConflict
<1>4. CASE CheckBackfill(p)
  <2>1. pc'[p] \in {"cursor", "check", "head"}
    BY <1>4, <1>t, <1>h DEF CheckBackfill
  <2>2. QED
    BY <1>4, <2>1, SchemaGoes DEF CheckBackfill
<1>5. CASE OpenCursor(p)
  BY <1>5, <1>t, SchemaGoes DEF OpenCursor
<1>6. CASE BackfillRow(p)
  BY <1>6, <1>t, SchemaGoes DEF BackfillRow
<1>7. CASE BackfillDone(p)
  <2>1. pc'[p] \in {"check", "head"}
    BY <1>7, <1>t, <1>h DEF BackfillDone
  <2>2. QED
    BY <1>7, <2>1, SchemaGoes DEF BackfillDone
<1>8. CASE ReadHead(p)
  <2>1. pc'[p] = "headhash" \/ pc'[p] = "head" \/ (pc'[p] = BodyLabel(p) /\ at'[p] = 1)
    BY <1>8, <1>t, <1>h DEF ReadHead
  <2>2. QED
    BY <1>8, <2>1, SchemaGoes DEF ReadHead
<1>9. CASE ReadHeadHash(p) \/ ReadHeadCount(p)
  BY <1>9, <1>t, SchemaGoes DEF ReadHeadHash, ReadHeadCount
<1>10. CASE WriteHead(p)
  <2>1. pc'[p] = "head" \/ (pc'[p] = BodyLabel(p) /\ at'[p] = 1)
    BY <1>10, <1>h DEF WriteHead
  <2>2. QED
    BY <1>10, <2>1, SchemaGoes DEF WriteHead
<1>11. QED
  BY <1>1, <1>2, <1>3, <1>4, <1>5, <1>6, <1>7, <1>8, <1>9, <1>10 DEF Schema

LEMMA ReadStepGoes ==
    ASSUME TypeOK, NEW p \in Process, LabelState(p), Read(p)
    PROVE  Goes(p)
<1>t. pc \in [Process -> Label] /\ at \in [Process -> Nat \ {0}]
  BY DEF TypeOK, Types, CallTypes
<1>1. CASE PinSnapshot(p)
  <2>1. /\ pc[p] = "pin" /\ op' = op /\ nextBody' = nextBody /\ out' = out
        /\ pc'[p] = IF op[p].kind = "audit" THEN "load" ELSE "scan"
    BY <1>1, <1>t DEF PinSnapshot
  <2>2. LabelState(p)' /\ pc'[p] # "idle" /\ op[p].kind # "record" /\ pc'[p] # "pin"
    BY <2>1 DEF LabelState, TransactionLabels
  <2>3. QED
    BY <1>1, <2>1, <2>2 DEF Goes
<1>2. ASSUME LoadTable(p) \/ ScanTable(p) \/ CheckHead(p),
             op' = op, nextBody' = nextBody, out' = out,
             pc'[p] = pc[p] \/ (pc[p] \in {"scan", "anchorcheck"} /\ pc'[p] \in {"scan", "anchorcheck"})
      PROVE  Goes(p)
  <2>1. pc[p] \in {"load", "scan", "anchorcheck"}
    BY <1>2 DEF LoadTable, ScanTable, CheckHead
  <2>2. LabelState(p)' /\ pc'[p] # "idle" /\ op[p].kind # "record" /\ pc'[p] # "pin"
    BY <1>2, <2>1 DEF LabelState, TransactionLabels
  <2>3. pc'[p] = "load" => LoadTable(p)
    BY <1>2, <2>1 DEF ScanTable, CheckHead
  <2>4. QED
    BY <1>2, <2>2, <2>3 DEF Goes
<1>3. CASE LoadTable(p)
  <2>1. CASE at[p] < Len(TableSeq)
    BY <1>2, <1>3, <2>1 DEF LoadTable
  <2>2. CASE ~(at[p] < Len(TableSeq))
    <3>1. Return(p, "ok") /\ op[p].kind # "record"
      BY <1>3, <2>2 DEF LoadTable, LabelState
    <3>2. QED
      BY <1>3, <3>1, ReturnGoes
  <2>3. QED
    BY <2>1, <2>2
<1>4. CASE ScanTable(p)
  <2>1. CASE ChainAccepted(TableSeq[at[p]], Visible(p)[TableSeq[at[p]]].rows)
    <3>1. /\ pc[p] = "scan" /\ pc' = [pc EXCEPT ![p] = "anchorcheck"]
          /\ UNCHANGED <<nextBody, op, out>>
      BY <1>4, <2>1 DEF ScanTable
    <3>2. QED
      BY <1>2, <1>4, <1>t, <3>1
  <2>2. CASE ~ChainAccepted(TableSeq[at[p]], Visible(p)[TableSeq[at[p]]].rows)
    BY <1>4, <2>2, ReturnGoes DEF ScanTable
  <2>3. QED
    BY <2>1, <2>2
<1>5. CASE CheckHead(p)
  <2>1. CASE Return(p, "invalid") \/ Return(p, "valid")
    BY <2>1, ReturnGoes
  <2>2. CASE /\ pc' = [pc EXCEPT ![p] = "scan"] /\ UNCHANGED <<nextBody, op, out>>
    <3>1. pc[p] = "anchorcheck"
      BY <1>5 DEF CheckHead
    <3>2. QED
      BY <1>2, <1>5, <1>t, <2>2, <3>1
  <2>3. QED
    BY <1>5, <2>1, <2>2 DEF CheckHead
<1>6. QED
  BY <1>1, <1>3, <1>4, <1>5 DEF Read

LEMMA StepGoes ==
    ASSUME TypeOK, NEW p \in Process, LabelState(p), Step(p) \/ Abort(p), ~Commit(p)
    PROVE  Goes(p)
<1>t. pc \in [Process -> Label] /\ at \in [Process -> Nat \ {0}]
  BY DEF TypeOK, Types, CallTypes
<1>1. CASE FinishOpen(p)
  <2>1. Return(p, "ok") /\ op[p].kind = "open"
    BY <1>1 DEF FinishOpen, LabelState
  <2>2. QED
    BY <2>1, ReturnGoes
<1>2. CASE BusyTimeout(p) \/ Abort(p)
  BY <1>2, ReturnGoes DEF BusyTimeout, Abort
<1>3. CASE Begin(p) \/ Insert(p) \/ SetRowHash(p)
  <2>1. pc[p] \in TransactionLabels \cup {"begin"} /\ pc'[p] \in TransactionLabels
    BY <1>3, <1>t DEF Begin, Insert, SetRowHash, TransactionLabels
  <2>2. QED
    BY <1>3, <2>1, TransactionGoes DEF Begin, Insert, SetRowHash
<1>4. CASE UpdateChainHead(p)
  <2>1. pc[p] \in TransactionLabels \cup {"begin"} /\ pc'[p] \in TransactionLabels
    BY <1>4, <1>t DEF UpdateChainHead, TransactionLabels
  <2>2. QED
    BY <1>4, <2>1, TransactionGoes DEF UpdateChainHead
<1>5. QED
  BY <1>1, <1>2, <1>3, <1>4, SchemaStepGoes, ReadStepGoes DEF Step, Record

LEMMA CommitMoves ==
    ASSUME TypeOK, NEW p \in Process, LabelState(p), Commit(p)
    PROVE  /\ op' = op /\ nextBody' = nextBody /\ op[p].kind = "record"
           /\ at[p] \in 1..Len(op[p].batches) /\ pc[p] = "commit" /\ out[p] = "none"
           /\ Done(p) = at[p] - 1
           /\ \/ /\ pc'[p] = "begin" /\ at'[p] = at[p] + 1 /\ out'[p] = "none"
              \/ pc'[p] = "idle" /\ at[p] = Len(op[p].batches) /\ out'[p] = "ok"
<1> USE DEF TypeOK, Types, CallTypes
<1>1. pc[p] = "commit"
  BY DEF Commit
<1>2. at[p] \in 1..Len(op[p].batches) /\ op[p].kind = "record" /\ out[p] = "none"
  BY <1>1 DEF InRange, LabelState, TransactionLabels
<1>3. Done(p) = at[p] - 1
  BY <1>1 DEF Done, TransactionLabels
<1>4. Len(op[p].batches) \in Nat
  BY <1>2, BatchType
<1>5. CASE at[p] < Len(op[p].batches)
  BY <1>1, <1>2, <1>3, <1>5 DEF Commit
<1>6. CASE ~(at[p] < Len(op[p].batches))
  BY <1>1, <1>2, <1>3, <1>4, <1>6 DEF Commit, Return
<1>7. QED
  BY <1>5, <1>6

LEMMA LabelStep ==
    ASSUME TypeOK, ChainInv, LabelInv, NEW p \in Process, CallStep(p)
    PROVE  LabelInv'
<1>1. ASSUME NEW q \in Process, q # p
      PROVE  LabelState(q)'
  <2>1. pc'[q] = pc[q] /\ op'[q] = op[q] /\ out'[q] = out[q]
    BY <1>1, StepOthers, StepResults DEF Others
  <2>2. LabelState(q)
    BY DEF LabelInv
  <2>3. QED
    BY <2>1, <2>2 DEF LabelState
<1>2. LabelState(p)
  BY DEF LabelInv
<1>3. LabelState(p)'
  <2>1. CASE Start(p)
    <3>1. pc'[p] = "columns" /\ out'[p] = "none"
      BY <2>1 DEF Start, TypeOK, Types, CallTypes
    <3>2. QED
      BY <3>1 DEF LabelState, TransactionLabels
  <2>2. CASE Commit(p)
    <3>1. \/ pc'[p] = "begin" /\ out'[p] = "none" /\ op'[p].kind = "record"
          \/ pc'[p] = "idle"
      BY <1>2, <2>2, CommitMoves
    <3>2. QED
      BY <3>1 DEF LabelState, TransactionLabels
  <2>3. CASE ~Start(p) /\ ~Commit(p)
    <3>1. Goes(p)
      BY <1>2, <2>3, StepGoes DEF CallStep
    <3>2. QED
      BY <3>1 DEF Goes, LabelState, TransactionLabels
  <2>4. QED
    BY <2>1, <2>2, <2>3
<1>4. QED
  BY <1>1, <1>3 DEF LabelInv

-----------------------------------------------------------------------------
(***************************************************************************)
(* The contents a call submits.                                            *)
(***************************************************************************)
(* A record call's contents are numbered from m to n - 1.                  *)
Numbered(t, bs, m, n) ==
    /\ t # "paradox_results" => Len(bs) = 1
    /\ \A b \in 1..Len(bs) : \A i \in 1..Len(bs[b]) :
         /\ bs[b][i].body \in Nat /\ m <= bs[b][i].body /\ bs[b][i].body < n
         /\ \A c \in 1..Len(bs) : \A j \in 1..Len(bs[c]) :
              bs[c][j].body = bs[b][i].body => c = b /\ j = i

LEMMA BatchesNumbered ==
    ASSUME NEW t, NEW m \in Nat, NEW n \in Nat, NEW cs, Len(cs) = n,
           \A i \in 1..n : cs[i].body = m + i - 1
    PROVE  Numbered(t, Batches(t, cs), m, m + n)
<1>1. CASE t = "paradox_results"
  <2>1. PICK bs : bs = [i \in 1..n |-> <<cs[i]>>]
    OBVIOUS
  <2>2. Len(bs) = n
    BY <2>1
  <2>3. ASSUME NEW b \in 1..n
        PROVE  Len(bs[b]) = 1 /\ bs[b][1].body = m + b - 1
    BY <2>1
  <2>4. ASSUME NEW b \in 1..n, NEW i \in 1..Len(bs[b])
        PROVE  i = 1 /\ bs[b][i].body = m + b - 1
    <3>1. Len(bs[b]) = 1 /\ bs[b][1].body = m + b - 1
      BY <2>3
    <3>2. i \in 1..1
      BY <3>1
    <3>3. QED
      BY <3>1, <3>2
  <2>5. ASSUME NEW b \in 1..n, NEW i \in 1..Len(bs[b])
        PROVE  bs[b][i].body \in Nat /\ m <= bs[b][i].body /\ bs[b][i].body < m + n
    BY <2>4
  <2>6. ASSUME NEW b \in 1..n, NEW i \in 1..Len(bs[b]), NEW c \in 1..n, NEW j \in 1..Len(bs[c]),
               bs[c][j].body = bs[b][i].body
        PROVE  c = b /\ j = i
    <3>1. i = 1 /\ j = 1 /\ bs[b][i].body = m + b - 1 /\ bs[c][j].body = m + c - 1
      BY <2>4
    <3>2. QED
      BY <2>6, <3>1
  <2>7. Batches(t, cs) = bs
    BY <1>1, <2>1 DEF Batches
  <2>8. Numbered(t, bs, m, m + n)
    BY <1>1, <2>2, <2>5, <2>6 DEF Numbered
  <2>9. QED
    BY <2>7, <2>8
<1>2. CASE t # "paradox_results"
  <2>1. PICK bs : bs = <<cs>>
    OBVIOUS
  <2>2. Len(bs) = 1 /\ bs[1] = cs
    BY <2>1
  <2>3. ASSUME NEW b \in 1..1, NEW i \in 1..Len(bs[b])
        PROVE  b = 1 /\ i \in 1..n /\ bs[b][i].body = m + i - 1
    BY <2>2
  <2>4. ASSUME NEW b \in 1..1, NEW i \in 1..Len(bs[b])
        PROVE  bs[b][i].body \in Nat /\ m <= bs[b][i].body /\ bs[b][i].body < m + n
    BY <2>3
  <2>5. ASSUME NEW b \in 1..1, NEW i \in 1..Len(bs[b]), NEW c \in 1..1, NEW j \in 1..Len(bs[c]),
               bs[c][j].body = bs[b][i].body
        PROVE  c = b /\ j = i
    <3>1. /\ b = 1 /\ c = 1 /\ i \in 1..n /\ j \in 1..n
          /\ bs[b][i].body = m + i - 1 /\ bs[c][j].body = m + j - 1
      BY <2>3
    <3>2. QED
      BY <2>5, <3>1
  <2>6. Batches(t, cs) = bs
    BY <1>2, <2>1 DEF Batches
  <2>7. Numbered(t, bs, m, m + n)
    BY <2>2, <2>4, <2>5 DEF Numbered
  <2>8. QED
    BY <2>6, <2>7
<1>3. QED
  BY <1>1, <1>2

NewCall(p) == Numbered(op'[p].table, op'[p].batches, nextBody, nextBody')

LEMMA StartMoves ==
    ASSUME TypeOK, NEW p \in Process, Start(p)
    PROVE  /\ pc'[p] = "columns" /\ out'[p] = "none" /\ db' = db /\ work' = work
           /\ nextBody \in Nat /\ nextBody' \in Nat /\ nextBody <= nextBody'
           /\ op'[p].kind = "record" => NewCall(p)
<1> USE DEF TypeOK, Types, CallTypes, FileTypes
<1>1. pc'[p] = "columns" /\ out'[p] = "none" /\ db' = db /\ work' = work
  BY DEF Start, files
<1>2. nextBody \in Nat
  BY LedgerAssumption
<1>3. CASE \E k \in Ops \ {"record"} : op' = [op EXCEPT ![p] = [NoOp EXCEPT !.kind = k]]
                                          /\ UNCHANGED nextBody
  <2>1. op'[p].kind # "record" /\ nextBody' = nextBody
    BY <1>3 DEF NoOp
  <2>2. QED
    BY <1>1, <1>2, <2>1
<1>4. CASE \E t \in Table, n \in 1..MaxBatch, ext \in {"default", "set"} :
             /\ RecordCall(t, n, ext)
             /\ op' = [op EXCEPT ![p] =
                        [kind |-> "record", table |-> t,
                         batches |-> Batches(t, Submission(t, n, ext))]]
             /\ nextBody' = nextBody + n
  <2>1. PICK t \in Table, n \in 1..MaxBatch, ext \in {"default", "set"} :
             /\ RecordCall(t, n, ext)
             /\ op' = [op EXCEPT ![p] =
                        [kind |-> "record", table |-> t,
                         batches |-> Batches(t, Submission(t, n, ext))]]
             /\ nextBody' = nextBody + n
    BY <1>4
  <2>2. n \in Nat /\ n > 0
    BY LedgerAssumption
  <2>3. PICK cs : cs = Submission(t, n, ext)
    OBVIOUS
  <2>4. Len(cs) = n /\ \A i \in 1..n : cs[i].body = nextBody + i - 1
    BY <2>2, <2>3 DEF Submission
  <2>5. op'[p].table = t /\ op'[p].batches = Batches(t, cs)
    BY <2>1, <2>3
  <2>6. Numbered(t, Batches(t, cs), nextBody, nextBody + n)
    BY <1>2, <2>2, <2>4, BatchesNumbered
  <2>7. NewCall(p)
    BY <2>1, <2>5, <2>6 DEF NewCall
  <2>8. QED
    BY <1>1, <1>2, <2>1, <2>2, <2>7
<1>5. QED
  BY <1>3, <1>4 DEF Start

(* The numbers of submitted and stored contents.                           *)
LEMMA BodyType ==
    ASSUME TypeOK, NEW p \in Process, op[p].kind = "record",
           NEW b \in 1..Len(op[p].batches), NEW i \in 1..Len(op[p].batches[b])
    PROVE  Body(p, b, i) \in Nat
<1>1. op[p].batches \in Seq(Seq(Content) \ {<<>>})
  BY DEF TypeOK, Types, CallTypes, Call
<1>2. op[p].batches[b] \in Seq(Content)
  BY <1>1, ElementOfSeq
<1>3. op[p].batches[b][i] \in Content
  BY <1>2, ElementOfSeq
<1>4. QED
  BY <1>3 DEF Body, Content

LEMMA StoredType ==
    ASSUME TypeOK, NEW t \in Table, NEW i \in 1..Len(db[t].rows)
    PROVE  db[t].rows[i].content \in Content /\ db[t].rows[i].content.body \in Nat
<1>1. db[t].rows \in Seq(Row)
  BY RowsOfTable DEF TypeOK, Types, FileTypes
<1>2. db[t].rows[i] \in Row
  BY <1>1, ElementOfSeq
<1>3. QED
  BY <1>2 DEF Row, Content

LEMMA StartSubmits ==
    ASSUME TypeOK, TypeOK', ChainInv, SubmitInv, NEW p \in Process, Start(p)
    PROVE  SubmitInv'
<1>1. /\ nextBody \in Nat /\ nextBody' \in Nat /\ nextBody <= nextBody'
      /\ op'[p].kind = "record" => NewCall(p)
  BY StartMoves
<1>2. \A q \in Process : q # p => op'[q] = op[q]
  BY StartType DEF Others
<1>3. ASSUME NEW q \in Process, q # p, op'[q].kind = "record",
             NEW c \in 1..Len(op'[q].batches), NEW j \in 1..Len(op'[q].batches[c])
      PROVE  Body(q, c, j)' = Body(q, c, j) /\ Body(q, c, j) \in Nat /\ Body(q, c, j) < nextBody
  <2>1. op'[q] = op[q]
    BY <1>2, <1>3
  <2>2. Body(q, c, j) \in Nat
    BY <1>3, <2>1, BodyType
  <2>3. QED
    BY <1>3, <2>1, <2>2 DEF Body, SubmitInv, Submits
<1>4. ASSUME NEW q \in Process, op'[q].kind = "record"
      PROVE  Submits(q)'
  <2>1. CASE q = p
    <3>1. NewCall(p)
      BY <1>1, <1>4, <2>1
    <3>2. ASSUME NEW b \in 1..Len(op'[p].batches), NEW i \in 1..Len(op'[p].batches[b]),
                 NEW r \in Process \ {p}, op'[r].kind = "record"
          PROVE  NewToOther(p, r, b, i)'
      <4>1. Body(p, b, i)' \in Nat /\ nextBody <= Body(p, b, i)'
        BY <3>1, <3>2 DEF NewCall, Numbered, Body
      <4>2. ASSUME NEW c \in 1..Len(op'[r].batches), NEW j \in 1..Len(op'[r].batches[c])
            PROVE  Body(r, c, j)' # Body(p, b, i)'
        <5>1. Body(r, c, j)' \in Nat /\ Body(r, c, j)' < nextBody
          BY <1>3, <3>2
        <5>2. QED
          BY <1>1, <4>1, <5>1
      <4>3. QED
        BY <4>2 DEF NewToOther
    <3>3. QED
      BY <2>1, <3>1, <3>2 DEF Submits, NewCall, Numbered, NewToCall, Body
  <2>2. CASE q # p
    <3>1. op'[q] = op[q] /\ Submits(q)
      BY <1>2, <1>4, <2>2 DEF SubmitInv
    <3>2. ASSUME NEW b \in 1..Len(op'[q].batches), NEW i \in 1..Len(op'[q].batches[b])
          PROVE  /\ Body(q, b, i)' < nextBody'
                 /\ NewToCall(q, b, i)'
                 /\ \A r \in Process \ {q} : op'[r].kind = "record" => NewToOther(q, r, b, i)'
      <4>1. Body(q, b, i)' = Body(q, b, i) /\ Body(q, b, i) \in Nat /\ Body(q, b, i) < nextBody
        BY <1>3, <1>4, <2>2
      <4>2. NewToCall(q, b, i)'
        BY <3>1 DEF Submits, NewToCall, Body
      <4>3. ASSUME NEW r \in Process \ {q}, op'[r].kind = "record"
            PROVE  NewToOther(q, r, b, i)'
        <5>1. CASE r = p
          <6>1. NewCall(p)
            BY <1>1, <4>3, <5>1
          <6>2. ASSUME NEW c \in 1..Len(op'[r].batches), NEW j \in 1..Len(op'[r].batches[c])
                PROVE  Body(r, c, j)' # Body(q, b, i)'
            <7>1. Body(r, c, j)' \in Nat /\ nextBody <= Body(r, c, j)'
              BY <5>1, <6>1 DEF NewCall, Numbered, Body
            <7>2. QED
              BY <1>1, <4>1, <7>1
          <6>3. QED
            BY <6>2 DEF NewToOther
        <5>2. CASE r # p
          <6>1. op'[r] = op[r] /\ NewToOther(q, r, b, i)
            BY <1>2, <3>1, <4>3, <5>2 DEF Submits
          <6>2. QED
            BY <3>1, <6>1 DEF NewToOther, Body
        <5>3. QED
          BY <5>1, <5>2
      <4>4. QED
        BY <1>1, <4>1, <4>2, <4>3
    <3>3. QED
      BY <3>1, <3>2 DEF Submits
  <2>3. QED
    BY <2>1, <2>2
<1>5. QED
  BY <1>4 DEF SubmitInv

(* Nothing but the start of a call changes what is submitted.              *)
LEMMA CallKept ==
    ASSUME TypeOK, LabelInv, NEW p \in Process, CallStep(p), ~Start(p)
    PROVE  op' = op /\ nextBody' = nextBody
<1>1. LabelState(p)
  BY DEF LabelInv
<1>2. CASE Commit(p)
  BY <1>1, <1>2, CommitMoves
<1>3. CASE ~Commit(p)
  BY <1>1, <1>3, StepGoes DEF Goes, CallStep
<1>4. QED
  BY <1>2, <1>3

LEMMA SubmitStep ==
    ASSUME TypeOK, TypeOK', ChainInv, LabelInv, SubmitInv, NEW p \in Process, CallStep(p)
    PROVE  SubmitInv'
<1>1. CASE Start(p)
  BY <1>1, StartSubmits
<1>2. CASE ~Start(p)
  <2>1. op' = op /\ nextBody' = nextBody
    BY <1>2, CallKept
  <2>2. ASSUME NEW q \in Process, op[q].kind = "record",
               NEW b \in 1..Len(op[q].batches), NEW i \in 1..Len(op[q].batches[b])
        PROVE  /\ Body(q, b, i)' < nextBody'
               /\ NewToCall(q, b, i)'
               /\ \A r \in Process \ {q} : op[r].kind = "record" => NewToOther(q, r, b, i)'
    <3>1. /\ Body(q, b, i) < nextBody
          /\ NewToCall(q, b, i)
          /\ \A r \in Process \ {q} : op[r].kind = "record" => NewToOther(q, r, b, i)
      BY <2>2 DEF SubmitInv, Submits
    <3>2. QED
      BY <2>1, <3>1 DEF NewToCall, NewToOther, Body
  <2>3. QED
    BY <2>1, <2>2 DEF SubmitInv, Submits
<1>3. QED
  BY <1>1, <1>2

-----------------------------------------------------------------------------
(***************************************************************************)
(* The rows of the open transaction.                                       *)
(***************************************************************************)
(* While one process holds the write lock no other changes anything.       *)
LEMMA LockedOut ==
    ASSUME TypeOK, ChainInv, NEW p \in Process, CallStep(p), writer # NoProcess, writer # p
    PROVE  db' = db /\ work' = work
<1>1. pc[p] \notin TransactionLabels
  BY DEF ChainInv, LockInv
<1>2. CASE Start(p) \/ FinishOpen(p) \/ BusyTimeout(p) \/ Read(p)
  BY <1>2 DEF Start, FinishOpen, BusyTimeout, Read, PinSnapshot, LoadTable, ScanTable,
              CheckHead, files
<1>3. CASE \/ ReadColumns(p) \/ DuplicateColumn(p) \/ CheckBackfill(p) \/ OpenCursor(p)
           \/ BackfillConflict(p) \/ BackfillDone(p) \/ ReadHead(p) \/ ReadHeadHash(p)
           \/ ReadHeadCount(p)
  BY <1>3 DEF ReadColumns, DuplicateColumn, CheckBackfill, OpenCursor, BackfillConflict,
              BackfillDone, ReadHead, ReadHeadHash, ReadHeadCount, files
<1>4. CASE AddColumn(p) \/ BackfillRow(p) \/ WriteHead(p)
  BY <1>4 DEF AddColumn, BackfillRow, WriteHead, AutoCommit
<1>5. CASE Record(p)
  BY <1>1, <1>5 DEF Record, Begin, Insert, SetRowHash, UpdateChainHead, Commit,
                    TransactionLabels
<1>6. CASE Abort(p)
  BY <1>6 DEF Abort
<1>7. QED
  BY <1>2, <1>3, <1>4, <1>5, <1>6 DEF CallStep, Step, Schema

(* Only the statements of a transaction lead into or keep within one.      *)
LEMMA OutsideTransaction ==
    ASSUME TypeOK, ChainInv, ChainInv', NEW p \in Process, CallStep(p),
           ~Begin(p), ~Insert(p), ~SetRowHash(p), ~UpdateChainHead(p)
    PROVE  pc'[p] \notin TransactionLabels
<1>1. p # NoProcess /\ (pc[p] \in TransactionLabels <=> writer = p)
  BY LedgerAssumption DEF ChainInv, LockInv
<1>2. SUFFICES writer' # p
  BY DEF ChainInv, LockInv
<1>3. CASE Commit(p) \/ Abort(p)
  BY <1>1, <1>3 DEF Commit, Abort
<1>4. CASE ~Commit(p) /\ ~Abort(p)
  <2>1. writer' = writer
    <3>1. CASE Start(p) \/ FinishOpen(p) \/ BusyTimeout(p) \/ Read(p)
      BY <3>1 DEF Start, FinishOpen, BusyTimeout, Read, PinSnapshot, LoadTable, ScanTable,
                  CheckHead, files
    <3>2. CASE \/ ReadColumns(p) \/ DuplicateColumn(p) \/ CheckBackfill(p) \/ OpenCursor(p)
               \/ BackfillConflict(p) \/ BackfillDone(p) \/ ReadHead(p) \/ ReadHeadHash(p)
               \/ ReadHeadCount(p)
      BY <3>2 DEF ReadColumns, DuplicateColumn, CheckBackfill, OpenCursor, BackfillConflict,
                  BackfillDone, ReadHead, ReadHeadHash, ReadHeadCount, files
    <3>3. CASE AddColumn(p) \/ BackfillRow(p) \/ WriteHead(p)
      BY <3>3 DEF AddColumn, BackfillRow, WriteHead, AutoCommit
    <3>4. QED
      BY <1>4, <3>1, <3>2, <3>3 DEF CallStep, Step, Schema, Record
  <2>2. pc[p] \notin TransactionLabels
    <3>1. CASE Start(p) \/ FinishOpen(p) \/ BusyTimeout(p) \/ Read(p)
      BY <3>1 DEF Start, FinishOpen, BusyTimeout, WaitsForLock, Read, PinSnapshot, LoadTable,
                  ScanTable, CheckHead, TransactionLabels
    <3>2. CASE Schema(p)
      BY <3>2 DEF Schema, ReadColumns, AddColumn, DuplicateColumn, CheckBackfill, OpenCursor,
                  BackfillRow, BackfillConflict, BackfillDone, ReadHead, ReadHeadHash,
                  ReadHeadCount, WriteHead, TransactionLabels
    <3>3. QED
      BY <1>4, <3>1, <3>2 DEF CallStep, Step, Record
  <2>3. QED
    BY <1>1, <2>1, <2>2
<1>5. QED
  BY <1>3, <1>4

LEMMA BatchStep ==
    ASSUME TypeOK, ChainInv, ChainInv', LabelInv, BatchInv, NEW p \in Process, CallStep(p)
    PROVE  BatchInv'
<1>1. ASSUME NEW q \in Process, q # p, pc'[q] \in TransactionLabels
      PROVE  BatchState(q)'
  <2>1. pc'[q] = pc[q] /\ op'[q] = op[q] /\ at'[q] = at[q] /\ row'[q] = row[q]
    BY <1>1, StepOthers DEF Others
  <2>2. writer = q /\ q # NoProcess
    BY <1>1, <2>1, LedgerAssumption DEF ChainInv, LockInv
  <2>3. db' = db /\ work' = work
    BY <1>1, <2>2, LockedOut
  <2>4. BatchState(q)
    BY <1>1, <2>1 DEF BatchInv
  <2>5. QED
    BY <2>1, <2>3, <2>4 DEF BatchState, Inserted, Batch
<1>t. pc \in [Process -> Label] /\ row \in [Process -> Nat \ {0}] /\ work \in Db /\ db \in Db
  BY DEF TypeOK, Types, CallTypes, FileTypes
<1>2. ASSUME pc'[p] \in TransactionLabels
      PROVE  BatchState(p)'
  <2>1. CASE Begin(p)
    <3>1. /\ pc'[p] = "insert" /\ row'[p] = 1 /\ op' = op /\ at' = at /\ db' = db /\ work' = work
          /\ pc[p] = "begin" /\ writer = NoProcess
      BY <1>t, <2>1 DEF Begin
    <3>2. work = db
      BY <3>1 DEF ChainInv, LockInv
    <3>3. op[p].table \in Table
      BY <3>1, BatchType DEF TypeOK, InRange
    <3>4. Len(db[op[p].table].rows) \in Nat
      BY <1>t, <3>3, RowsOfTable
    <3>5. QED
      BY <3>1, <3>2, <3>4 DEF BatchState, Inserted
  <2>2. CASE Insert(p)
    <3>1. PICK t : t = op[p].table
      OBVIOUS
    <3>2. PICK r : r = NewRow(Batch(p)[row[p]], LastHash(work[t].rows))
      OBVIOUS
    <3>3. /\ pc[p] = "insert" /\ pc'[p] = "rowhash" /\ row' = row /\ op' = op /\ at' = at
          /\ db' = db /\ work' = WithRows(work, t, Append(work[t].rows, r))
      BY <1>t, <2>2, <3>1, <3>2 DEF Insert
    <3>4. /\ t \in Table /\ work[t].rows \in Seq(Row) /\ row[p] \in 1..Len(Batch(p))
      BY <3>1, <3>3, RecordContext
    <3>5. BatchState(p)
      BY <3>3 DEF BatchInv, TransactionLabels
    <3>6. work'[t].rows = Append(work[t].rows, r)
      BY <1>t, <3>3, <3>4 DEF WithRows, Db
    <3>7. PICK old, new : old = db[t].rows /\ new = work[t].rows
      OBVIOUS
    <3>8. Len(old) \in Nat /\ new \in Seq(Row) /\ row[p] \in Nat /\ row[p] >= 1 /\ r \in Row
      <4>1. Len(old) \in Nat /\ new \in Seq(Row) /\ row[p] \in Nat /\ row[p] >= 1
        BY <1>t, <3>4, <3>7, RowsOfTable
      <4>2. LastHash(new) \in Hash /\ Batch(p)[row[p]] \in Content
        BY <3>3, <4>1, RecordContext, LastHashType
      <4>3. r \in Row
        BY <3>2, <3>7, <4>2, EmptyHashType DEF NewRow, Row
      <4>4. QED
        BY <4>1, <4>3
    <3>9. Len(new) = Len(old) + row[p] - 1 /\ \A i \in 1..(row[p] - 1) : new[Len(old) + i].content = Batch(p)[i]
      BY <3>1, <3>3, <3>5, <3>7, <3>8 DEF BatchState, Inserted
    <3>10. Len(Append(new, r)) = Len(old) + row[p]
      <4>1. Len(Append(new, r)) = Len(new) + 1
        BY <3>8, AppendProperties
      <4>2. QED
        BY <3>8, <3>9, <4>1
    <3>11. ASSUME NEW i \in 1..row[p]
           PROVE  Append(new, r)[Len(old) + i].content = Batch(p)[i]
      <4>1. CASE i = row[p]
        <5>1. Append(new, r)[Len(old) + i] = r
          <6>1. Append(new, r)[Len(new) + 1] = r
            BY <3>8, AppendProperties
          <6>2. Len(new) + 1 = Len(old) + i
            BY <3>8, <3>9, <4>1
          <6>3. QED
            BY <6>1, <6>2
        <5>2. r.content = Batch(p)[row[p]]
          BY <3>2 DEF NewRow
        <5>3. QED
          BY <4>1, <5>1, <5>2
      <4>2. CASE i # row[p]
        <5>1. i \in 1..(row[p] - 1) /\ Len(old) + i \in 1..Len(new)
          BY <3>8, <3>9, <4>2
        <5>2. Append(new, r)[Len(old) + i] = new[Len(old) + i]
          BY <3>8, <5>1
        <5>3. QED
          BY <3>9, <5>1, <5>2
      <4>3. QED
        BY <4>1, <4>2
    <3>12. Inserted(p)' = row[p] /\ Batch(p)' = Batch(p)
      BY <3>3 DEF Inserted, Batch
    <3>13. QED
      BY <3>1, <3>3, <3>6, <3>7, <3>10, <3>11, <3>12 DEF BatchState
  <2>3. CASE SetRowHash(p)
    <3>1. PICK t : t = op[p].table
      OBVIOUS
    <3>2. PICK new : new = work[t].rows
      OBVIOUS
    <3>3. PICK h : /\ pc[p] = "rowhash" /\ pc'[p] = "anchor" /\ row' = row /\ op' = op /\ at' = at
                   /\ db' = db
                   /\ work' = WithRows(work, t, SetHashes(new, Len(new), hash[p], h))
      BY <1>t, <2>3, <3>1, <3>2 DEF SetRowHash
    <3>4. t \in Table /\ new \in Seq(Row)
      BY <3>1, <3>2, <3>3, RecordContext
    <3>5. BatchState(p)
      BY <3>3 DEF BatchInv, TransactionLabels
    <3>6. work'[t].rows = SetHashes(new, Len(new), hash[p], h)
      BY <1>t, <3>3, <3>4 DEF WithRows, Db
    <3>7. /\ Len(work'[t].rows) = Len(new)
          /\ \A j \in 1..Len(new) : work'[t].rows[j].content = new[j].content
      BY <3>4, <3>6 DEF SetHashes
    <3>8. Inserted(p)' = row[p] /\ Inserted(p) = row[p] /\ Batch(p)' = Batch(p)
      BY <3>3 DEF Inserted, Batch
    <3>9. row[p] \in Nat /\ row[p] >= 1 /\ Len(db[t].rows) \in Nat
      BY <1>t, <3>4, RowsOfTable
    <3>10. /\ Len(new) = Len(db[t].rows) + row[p]
           /\ \A i \in 1..row[p] : new[Len(db[t].rows) + i].content = Batch(p)[i]
      BY <3>1, <3>2, <3>5, <3>8 DEF BatchState
    <3>11. ASSUME NEW i \in 1..row[p]
           PROVE  Len(db[t].rows) + i \in 1..Len(new)
      <4>1. i \in Nat /\ i >= 1 /\ i <= row[p]
        BY <3>9
      <4>2. QED
        BY <3>9, <3>10, <4>1
    <3>12. QED
      BY <3>1, <3>3, <3>7, <3>8, <3>10, <3>11 DEF BatchState
  <2>4. CASE UpdateChainHead(p)
    <3>1. PICK t : t = op[p].table
      OBVIOUS
    <3>2. /\ pc[p] = "anchor" /\ op' = op /\ at' = at /\ db' = db
          /\ work' = WithHead(work, t, [count |-> Len(work[t].rows), hash |-> hash[p]])
      BY <2>4, <3>1 DEF UpdateChainHead
    <3>3. t \in Table /\ row[p] \in 1..Len(Batch(p)) /\ at[p] \in 1..Len(op[p].batches)
      BY <3>1, <3>2, RecordContext
    <3>4. work'[t].rows = work[t].rows
      BY <1>t, <3>2, <3>3 DEF WithHead, Db
    <3>5. BatchState(p) /\ Inserted(p) = row[p] /\ Batch(p)' = Batch(p)
      BY <3>2 DEF BatchInv, TransactionLabels, Inserted, Batch
    <3>6. Len(Batch(p)) \in Nat
      BY <3>3, BatchType
    <3>7. \/ pc'[p] = "insert" /\ row'[p] = row[p] + 1
          \/ pc'[p] = "commit" /\ row'[p] = row[p] /\ row[p] = Len(Batch(p))
      <4>1. CASE row[p] < Len(Batch(p))
        BY <1>t, <2>4, <4>1 DEF UpdateChainHead
      <4>2. CASE ~(row[p] < Len(Batch(p)))
        BY <1>t, <2>4, <3>3, <3>6, <4>2 DEF UpdateChainHead
      <4>3. QED
        BY <4>1, <4>2
    <3>8. Inserted(p)' = row[p]
      BY <1>t, <3>7 DEF Inserted
    <3>9. QED
      BY <3>1, <3>2, <3>4, <3>5, <3>7, <3>8 DEF BatchState
  <2>5. QED
    BY <1>2, <2>1, <2>2, <2>3, <2>4, OutsideTransaction
<1>3. QED
  BY <1>1, <1>2 DEF BatchInv

(* What a commit adds: the rows of its batch, to its table.                *)
LEMMA CommitRows ==
    ASSUME TypeOK, ChainInv, BatchInv, NEW p \in Process, Commit(p), NEW t \in Table
    PROVE  /\ Len(db[t].rows) \in Nat /\ Len(Batch(p)) \in Nat \ {0}
           /\ \A i \in 1..Len(db[t].rows) : db'[t].rows[i].content = db[t].rows[i].content
           /\ t # op[p].table => Len(db'[t].rows) = Len(db[t].rows)
           /\ t = op[p].table =>
                /\ Len(db'[t].rows) = Len(db[t].rows) + Len(Batch(p))
                /\ \A i \in 1..Len(Batch(p)) :
                     db'[t].rows[Len(db[t].rows) + i].content = Batch(p)[i]
<1>1. pc[p] = "commit" /\ db' = work
  BY DEF Commit
<1>2. at[p] \in 1..Len(op[p].batches)
  BY <1>1 DEF TypeOK, InRange, TransactionLabels
<1>3. Len(Batch(p)) \in Nat \ {0}
  BY <1>2, BatchType
<1>4. BatchState(p) /\ Inserted(p) = Len(Batch(p))
  BY <1>1 DEF BatchInv, BatchState, Inserted, TransactionLabels
<1>5. /\ Len(db[t].rows) \in Nat
      /\ \A i \in 1..Len(db[t].rows) : db'[t].rows[i] = db[t].rows[i]
      /\ t # op[p].table => db'[t] = db[t]
  BY CommitEffect
<1>6. QED
  BY <1>1, <1>3, <1>4, <1>5 DEF BatchState

-----------------------------------------------------------------------------
(***************************************************************************)
(* What the calls have recorded.                                           *)
(***************************************************************************)
LEMMA StoredStep ==
    ASSUME TypeOK, ChainInv, LabelInv, SubmitInv, StoredInv, BatchInv,
           NEW p \in Process, CallStep(p)
    PROVE  StoredInv'
<1>1. ASSUME NEW t \in Table, NEW i \in 1..Len(db'[t].rows)
      PROVE  db'[t].rows[i].content.body < nextBody'
  <2>n. nextBody \in Nat
    BY LedgerAssumption DEF TypeOK, Types, FileTypes
  <2>1. CASE Start(p)
    <3>1. db' = db /\ nextBody' \in Nat /\ nextBody <= nextBody'
      BY <2>1, StartMoves
    <3>2. db[t].rows[i].content.body < nextBody /\ db[t].rows[i].content.body \in Nat
      BY <1>1, <3>1, StoredType DEF StoredInv
    <3>3. QED
      BY <2>n, <3>1, <3>2
  <2>2. CASE ~Start(p) /\ ~Commit(p)
    <3>1. nextBody' = nextBody /\ ContentsKept
      BY <2>2, CallKept, StepContents
    <3>2. i \in 1..Len(db[t].rows) /\ db'[t].rows[i].content = db[t].rows[i].content
      BY <1>1, <3>1 DEF ContentsKept
    <3>3. QED
      BY <3>1, <3>2 DEF StoredInv
  <2>3. CASE Commit(p)
    <3>1. LabelState(p)
      BY DEF LabelInv
    <3>2. /\ nextBody' = nextBody /\ op[p].kind = "record"
          /\ at[p] \in 1..Len(op[p].batches)
      BY <2>3, <3>1, CommitMoves
    <3>3. CASE i \in 1..Len(db[t].rows)
      BY <2>3, <3>2, <3>3, CommitRows DEF StoredInv
    <3>4. CASE i \notin 1..Len(db[t].rows)
      <4>1. /\ Len(db[t].rows) \in Nat /\ Len(Batch(p)) \in Nat \ {0} /\ t = op[p].table
            /\ Len(db'[t].rows) = Len(db[t].rows) + Len(Batch(p))
        BY <1>1, <2>3, <3>4, CommitRows
      <4>2. PICK j \in 1..Len(Batch(p)) : i = Len(db[t].rows) + j
        <5>1. i - Len(db[t].rows) \in 1..Len(Batch(p))
          BY <1>1, <3>4, <4>1
        <5>2. i = Len(db[t].rows) + (i - Len(db[t].rows))
          BY <1>1, <4>1
        <5>3. QED
          BY <5>1, <5>2
      <4>3. db'[t].rows[i].content = Batch(p)[j]
        BY <2>3, <4>1, <4>2, CommitRows
      <4>4. Body(p, at[p], j) < nextBody
        BY <3>2, <4>2 DEF SubmitInv, Submits, Batch
      <4>5. QED
        BY <3>2, <4>3, <4>4 DEF Body, Batch
    <3>5. QED
      BY <3>3, <3>4
  <2>4. QED
    BY <2>1, <2>2, <2>3
<1>2. QED
  BY <1>1 DEF StoredInv

(* Being held, or held once, depends on the contents only.                 *)
LEMMA KeptHeld ==
    ASSUME ContentsKept, NEW t \in Table, NEW x
    PROVE  /\ Held(t, x)' <=> Held(t, x)
           /\ HeldOnce(t, x) => HeldOnce(t, x)'
<1>1. Held(t, x)' <=> Held(t, x)
  BY DEF ContentsKept, Held
<1>2. ASSUME HeldOnce(t, x)
      PROVE  HeldOnce(t, x)'
  <2>1. PICK i \in 1..Len(db[t].rows) :
               \A j \in 1..Len(db[t].rows) : db[t].rows[j].content.body = x <=> j = i
    BY <1>2 DEF HeldOnce
  <2>2. \A j \in 1..Len(db'[t].rows) : db'[t].rows[j].content.body = x <=> j = i
    BY <2>1 DEF ContentsKept
  <2>3. i \in 1..Len(db'[t].rows)
    BY <2>1 DEF ContentsKept
  <2>4. QED
    BY <2>2, <2>3 DEF HeldOnce
<1>3. QED
  BY <1>1, <1>2

(* A commit does not disturb what is not in its batch.                     *)
LEMMA CommitHeldOther ==
    ASSUME TypeOK, ChainInv, BatchInv, NEW p \in Process, Commit(p), NEW t \in Table, NEW x,
           \A i \in 1..Len(Batch(p)) : Batch(p)[i].body # x
    PROVE  /\ Held(t, x)' => Held(t, x)
           /\ HeldOnce(t, x) => HeldOnce(t, x)'
<1>1. PICK n, m, k : n = Len(db[t].rows) /\ m = Len(db'[t].rows) /\ k = Len(Batch(p))
  OBVIOUS
<1>2. n \in Nat /\ k \in Nat /\ m \in Nat /\ n <= m
  BY <1>1, CommitRows, CommitEffect
<1>3. \A i \in 1..n : i \in 1..m /\ db'[t].rows[i].content = db[t].rows[i].content
  BY <1>1, <1>2, CommitRows
<1>4. ASSUME NEW i \in 1..m, i \notin 1..n
      PROVE  db'[t].rows[i].content.body # x
  <2>1. m # n
    BY <1>4
  <2>2. t = op[p].table
    BY <1>1, <2>1, CommitRows
  <2>3. m = n + k
    BY <1>1, <2>2, CommitRows
  <2>4. i - n \in 1..k
    BY <1>2, <1>4, <2>3
  <2>5. db'[t].rows[n + (i - n)].content = Batch(p)[i - n]
    BY <1>1, <2>2, <2>4, CommitRows
  <2>6. n + (i - n) = i
    BY <1>2, <1>4
  <2>7. QED
    BY <1>1, <2>4, <2>5, <2>6
<1>5. Held(t, x)' => Held(t, x)
  BY <1>1, <1>3, <1>4 DEF Held
<1>6. ASSUME HeldOnce(t, x)
      PROVE  HeldOnce(t, x)'
  <2>1. PICK i \in 1..n : \A j \in 1..n : db[t].rows[j].content.body = x <=> j = i
    BY <1>1, <1>6 DEF HeldOnce
  <2>2. ASSUME NEW j \in 1..m
        PROVE  db'[t].rows[j].content.body = x <=> j = i
    BY <1>3, <1>4, <2>1
  <2>3. QED
    BY <1>1, <1>3, <2>1, <2>2 DEF HeldOnce
<1>7. QED
  BY <1>5, <1>6

(* The rows of its batch are in the file once after it.                    *)
LEMMA CommitHeldOwn ==
    ASSUME TypeOK, ChainInv, BatchInv, NEW p \in Process, Commit(p),
           NEW i \in 1..Len(Batch(p)), NEW x, x = Batch(p)[i].body,
           \A j \in 1..Len(Batch(p)) : Batch(p)[j].body = x => j = i,
           NEW t \in Table, t = op[p].table, ~Held(t, x)
    PROVE  HeldOnce(t, x)'
<1>1. PICK n, m, k : n = Len(db[t].rows) /\ m = Len(db'[t].rows) /\ k = Len(Batch(p))
  OBVIOUS
<1>2. n \in Nat /\ k \in Nat /\ m = n + k
  BY <1>1, CommitRows
<1>3. \A j \in 1..n : db'[t].rows[j].content = db[t].rows[j].content
  BY <1>1, CommitRows
<1>4. \A j \in 1..k : db'[t].rows[n + j].content = Batch(p)[j]
  BY <1>1, CommitRows
<1>5. n + i \in 1..m
  BY <1>1, <1>2
<1>6. ASSUME NEW j \in 1..m
      PROVE  db'[t].rows[j].content.body = x <=> j = n + i
  <2>1. CASE j \in 1..n
    <3>1. db[t].rows[j].content.body # x
      BY <1>1, <2>1 DEF Held
    <3>2. j # n + i
      BY <1>1, <1>2, <2>1
    <3>3. QED
      BY <1>3, <2>1, <3>1, <3>2
  <2>2. CASE j \notin 1..n
    <3>1. j - n \in 1..k /\ n + (j - n) = j
      BY <1>2, <1>6, <2>2
    <3>2. db'[t].rows[j].content = Batch(p)[j - n]
      BY <1>4, <3>1
    <3>3. Batch(p)[j - n].body = x <=> j - n = i
      BY <1>1, <3>1
    <3>4. j - n = i <=> j = n + i
      BY <1>1, <1>2, <1>6
    <3>5. QED
      BY <3>2, <3>3, <3>4
  <2>3. QED
    BY <2>1, <2>2
<1>7. QED
  BY <1>1, <1>5, <1>6 DEF HeldOnce

(* A process that is not in a call can only start one.                     *)
LEMMA StepNotIdle ==
    ASSUME NEW p \in Process, Step(p) \/ Abort(p)
    PROVE  pc[p] # "idle"
<1>1. CASE Schema(p)
  BY <1>1 DEF Schema, ReadColumns, AddColumn, DuplicateColumn, CheckBackfill, OpenCursor,
              BackfillRow, BackfillConflict, BackfillDone, ReadHead, ReadHeadHash,
              ReadHeadCount, WriteHead
<1>2. CASE FinishOpen(p) \/ Record(p) \/ BusyTimeout(p) \/ Abort(p)
  BY <1>2 DEF FinishOpen, Record, Begin, Insert, SetRowHash, UpdateChainHead, Commit,
              BusyTimeout, WaitsForLock, Abort
<1>3. CASE Read(p)
  BY <1>3 DEF Read, PinSnapshot, LoadTable, ScanTable, CheckHead
<1>4. QED
  BY <1>1, <1>2, <1>3 DEF Step

LEMMA ProgressStep ==
    ASSUME TypeOK, TypeOK', ChainInv, RecordInv, NEW p \in Process, CallStep(p)
    PROVE  ProgressInv'
<1> USE DEF RecordInv
<1>0. SUFFICES ASSUME NEW q \in Process, op'[q].kind = "record"
               PROVE  Progress(q)'
  BY DEF ProgressInv
<1>p. LabelState(p)
  BY DEF LabelInv
<1>s. /\ op'[q].table \in Table /\ Len(op'[q].batches) \in Nat
  BY <1>0 DEF TypeOK, Types, CallTypes, Call
<1>1. CASE q = p /\ Start(p)
  <2>1. /\ pc'[q] = "columns" /\ out'[q] = "none" /\ db' = db /\ nextBody \in Nat /\ NewCall(q)
    BY <1>0, <1>1, StartMoves
  <2>2. ASSUME NEW b \in 1..Len(op'[q].batches), NEW i \in 1..Len(op'[q].batches[b])
        PROVE  ~Held(op[q].table, Body(q, b, i))'
    <3>1. nextBody <= Body(q, b, i)' /\ Body(q, b, i)' \in Nat
      BY <2>1 DEF NewCall, Numbered, Body
    <3>2. ASSUME NEW j \in 1..Len(db[op'[q].table].rows)
          PROVE  db[op'[q].table].rows[j].content.body # Body(q, b, i)'
      <4>1. /\ db[op'[q].table].rows[j].content.body \in Nat
            /\ db[op'[q].table].rows[j].content.body < nextBody
        BY <1>s, StoredType DEF StoredInv
      <4>2. QED
        BY <2>1, <3>1, <4>1
    <3>3. QED
      BY <2>1, <3>2 DEF Held
  <2>3. \A b \in 1..Len(op'[q].batches) : ~(b <= 0)
    BY <1>s
  <2>4. CommittedUpTo(q, 0)'
    BY <2>2, <2>3 DEF CommittedUpTo
  <2>5. Done(q)' = 0
    BY <2>1 DEF Done, TransactionLabels
  <2>6. 0 \in 0..Len(op'[q].batches)
    BY <1>s
  <2>7. QED
    BY <2>1, <2>4, <2>5, <2>6 DEF Progress
<1>2. CASE ~(q = p /\ Start(p))
  <2>1. op'[q] = op[q] /\ op[q].kind = "record"
    BY <1>0, <1>2, CallKept, StepOthers DEF Others
  <2>2. PICK k \in 0..Len(op[q].batches) :
          /\ CommittedUpTo(q, k)
          /\ out[q] = "ok" => k = Len(op[q].batches)
          /\ pc[q] # "idle" => k = Done(q)
    BY <2>1 DEF ProgressInv, Progress
  <2>3. \A b, i : Body(q, b, i)' = Body(q, b, i)
    BY <2>1 DEF Body
  <2>4. CASE q # p
    <3>1. /\ pc'[q] = pc[q] /\ at'[q] = at[q] /\ out'[q] = out[q]
      BY <2>4, StepOthers, StepResults DEF Others
    <3>2. ASSUME NEW b \in 1..Len(op[q].batches), NEW i \in 1..Len(op[q].batches[b])
          PROVE  /\ Held(op[q].table, Body(q, b, i))' => Held(op[q].table, Body(q, b, i))
                 /\ HeldOnce(op[q].table, Body(q, b, i)) => HeldOnce(op[q].table, Body(q, b, i))'
      <4>1. PICK t, x : t \in Table /\ t = op[q].table /\ t = op'[q].table /\ x = Body(q, b, i) /\ x = Body(q, b, i)'
        BY <1>s, <2>1, <2>3
      <4>s. /\ Held(op[q].table, Body(q, b, i))' <=> Held(t, x)'
            /\ HeldOnce(op[q].table, Body(q, b, i))' <=> HeldOnce(t, x)'
        BY <4>1 DEF Held, HeldOnce
      <4>u. /\ Held(op[q].table, Body(q, b, i)) <=> Held(t, x)
            /\ HeldOnce(op[q].table, Body(q, b, i)) <=> HeldOnce(t, x)
        BY <4>1
      <4>2. CASE ~Commit(p)
        <5>1. ContentsKept
          BY <4>2, StepContents
        <5>2. (Held(t, x)' <=> Held(t, x)) /\ (HeldOnce(t, x) => HeldOnce(t, x)')
          BY <4>1, <5>1, KeptHeld
        <5>3. QED
          BY <4>s, <4>u, <5>2
      <4>3. CASE Commit(p)
        <5>1. op[p].kind = "record" /\ at[p] \in 1..Len(op[p].batches)
          BY <1>p, <4>3, CommitMoves
        <5>2. \A j \in 1..Len(Batch(p)) : Batch(p)[j].body # x
          <6>1. NewToOther(q, p, b, i)
            BY <2>1, <2>4, <3>2, <5>1 DEF SubmitInv, Submits
          <6>2. QED
            BY <4>1, <5>1, <6>1 DEF NewToOther, Body, Batch
        <5>3. (Held(t, x)' => Held(t, x)) /\ (HeldOnce(t, x) => HeldOnce(t, x)')
          BY <4>1, <4>3, <5>2, CommitHeldOther
        <5>4. QED
          BY <4>s, <4>u, <5>3
      <4>4. QED
        BY <4>2, <4>3
    <3>3. CommittedUpTo(q, k)'
      <4>1. ASSUME NEW b \in 1..Len(op[q].batches), NEW i \in 1..Len(op[q].batches[b])
            PROVE  IF b <= k THEN HeldOnce(op[q].table, Body(q, b, i))'
                             ELSE ~Held(op[q].table, Body(q, b, i))'
        <5>1. IF b <= k THEN HeldOnce(op[q].table, Body(q, b, i))
                        ELSE ~Held(op[q].table, Body(q, b, i))
          BY <2>2 DEF CommittedUpTo
        <5>2. QED
          BY <3>2, <5>1
      <4>2. QED
        BY <2>1, <4>1 DEF CommittedUpTo
    <3>4. Done(q)' = Done(q)
      BY <3>1 DEF Done
    <3>5. QED
      BY <2>1, <2>2, <3>1, <3>3, <3>4 DEF Progress
  <2>5. CASE q = p /\ ~Commit(p)
    <3>1. ContentsKept /\ Goes(p)
      BY <1>2, <1>p, <2>5, StepContents, StepGoes DEF CallStep
    <3>2. CommittedUpTo(q, k)'
      <4>1. ASSUME NEW b \in 1..Len(op[q].batches), NEW i \in 1..Len(op[q].batches[b])
            PROVE  IF b <= k THEN HeldOnce(op[q].table, Body(q, b, i))'
                             ELSE ~Held(op[q].table, Body(q, b, i))'
        <5>1. IF b <= k THEN HeldOnce(op[q].table, Body(q, b, i))
                        ELSE ~Held(op[q].table, Body(q, b, i))
          BY <2>2 DEF CommittedUpTo
        <5>2. PICK t \in Table : t = op[q].table /\ t = op'[q].table
          BY <1>s, <2>1
        <5>3. PICK x : x = Body(q, b, i) /\ x = Body(q, b, i)'
          BY <2>3
        <5>4. (Held(t, x)' <=> Held(t, x)) /\ (HeldOnce(t, x) => HeldOnce(t, x)')
          BY <3>1, KeptHeld
        <5>5. QED
          BY <5>1, <5>2, <5>3, <5>4 DEF Held, HeldOnce
      <4>2. QED
        BY <2>1, <4>1 DEF CommittedUpTo
    <3>3. CASE pc'[p] = "idle"
      <4>1. out'[q] # "ok"
        BY <2>1, <2>5, <3>1, <3>3 DEF Goes
      <4>2. QED
        BY <2>1, <2>2, <2>5, <3>2, <3>3, <4>1 DEF Progress
    <3>4. CASE pc'[p] # "idle"
      <4>1. out'[q] = out[q] /\ Done(q)' = Done(q) /\ LabelState(q)'
        BY <2>1, <2>5, <3>1, <3>4 DEF Goes
      <4>2. pc[q] # "idle"
        BY <1>2, <2>5, StepNotIdle DEF CallStep
      <4>3. QED
        BY <2>1, <2>2, <2>5, <3>2, <3>4, <4>1, <4>2 DEF Progress
    <3>5. QED
      BY <3>3, <3>4
  <2>6. CASE q = p /\ Commit(p)
    <3>1. /\ at[p] \in 1..Len(op[p].batches) /\ pc[p] = "commit" /\ out[p] = "none"
          /\ Done(p) = at[p] - 1
          /\ \/ pc'[p] = "begin" /\ at'[p] = at[p] + 1 /\ out'[p] = "none"
             \/ pc'[p] = "idle" /\ at[p] = Len(op[p].batches) /\ out'[p] = "ok"
      BY <1>p, <2>6, CommitMoves
    <3>2. k = at[p] - 1 /\ at[p] \in Nat
      BY <2>2, <2>6, <3>1
    <3>3. ASSUME NEW b \in 1..Len(op[q].batches), NEW i \in 1..Len(op[q].batches[b])
          PROVE  IF b <= at[p] THEN HeldOnce(op[q].table, Body(q, b, i))'
                               ELSE ~Held(op[q].table, Body(q, b, i))'
      <4>1. IF b <= k THEN HeldOnce(op[q].table, Body(q, b, i))
                      ELSE ~Held(op[q].table, Body(q, b, i))
        BY <2>2 DEF CommittedUpTo
      <4>2. PICK t, x : t \in Table /\ t = op[q].table /\ t = op'[q].table /\ x = Body(q, b, i) /\ x = Body(q, b, i)'
        BY <1>s, <2>1, <2>3
      <4>3. NewToCall(p, b, i)
        BY <2>1, <2>6 DEF SubmitInv, Submits
      <4>4. CASE b = at[p]
        <5>1. /\ i \in 1..Len(Batch(p)) /\ x = Batch(p)[i].body
              /\ \A j \in 1..Len(Batch(p)) : Batch(p)[j].body = x => j = i
          BY <2>6, <3>1, <4>2, <4>3, <4>4 DEF NewToCall, Body, Batch
        <5>2. ~Held(t, x)
          BY <3>2, <4>1, <4>2, <4>4
        <5>3. HeldOnce(t, x)'
          BY <2>6, <4>2, <5>1, <5>2, CommitHeldOwn
        <5>4. HeldOnce(op[q].table, Body(q, b, i))'
          BY <4>2, <5>3 DEF HeldOnce
        <5>5. b <= at[p]
          BY <3>2, <4>4
        <5>6. QED
          BY <5>4, <5>5
      <4>5. CASE b # at[p]
        <5>1. \A j \in 1..Len(Batch(p)) : Batch(p)[j].body # x
          BY <2>6, <3>1, <4>2, <4>3, <4>5 DEF NewToCall, Body, Batch
        <5>2. (Held(t, x)' => Held(t, x)) /\ (HeldOnce(t, x) => HeldOnce(t, x)')
          BY <2>6, <4>2, <5>1, CommitHeldOther
        <5>3. b <= at[p] <=> b <= k
          BY <2>1, <1>s, <3>2, <4>5
        <5>4. CASE b <= k
          <6>1. HeldOnce(t, x)'
            BY <4>1, <4>2, <5>2, <5>4
          <6>2. HeldOnce(op[q].table, Body(q, b, i))'
            BY <4>2, <6>1 DEF HeldOnce
          <6>3. QED
            BY <5>3, <5>4, <6>2
        <5>5. CASE ~(b <= k)
          <6>1. ~Held(t, x)'
            BY <4>1, <4>2, <5>2, <5>5
          <6>2. ~Held(op[q].table, Body(q, b, i))'
            BY <4>2, <6>1 DEF Held
          <6>3. QED
            BY <5>3, <5>5, <6>2
        <5>6. QED
          BY <5>4, <5>5
      <4>6. QED
        BY <4>4, <4>5
    <3>4. PICK m : m = at[p]
      OBVIOUS
    <3>5. CommittedUpTo(q, m)' /\ m \in 0..Len(op'[q].batches)
      BY <1>s, <2>1, <2>6, <3>1, <3>3, <3>4 DEF CommittedUpTo
    <3>6. CASE pc'[p] = "begin"
      <4>1. Done(q)' = m /\ out'[q] = "none"
        BY <2>6, <3>1, <3>2, <3>4, <3>6 DEF Done
      <4>2. QED
        BY <3>5, <4>1 DEF Progress
    <3>7. CASE pc'[p] = "idle"
      <4>1. m = Len(op'[q].batches)
        BY <2>1, <2>6, <3>1, <3>4, <3>7
      <4>2. QED
        BY <2>6, <3>5, <3>7, <4>1 DEF Progress
    <3>8. QED
      BY <3>1, <3>6, <3>7
  <2>7. QED
    BY <2>4, <2>5, <2>6
<1>3. QED
  BY <1>1, <1>2

-----------------------------------------------------------------------------
(***************************************************************************)
(* The invariant, and the properties of the record calls.                  *)
(***************************************************************************)
LEMMA InitRecord ==
    ASSUME Init
    PROVE  RecordInv
<1>1. \A p \in Process : pc[p] = "idle" /\ op[p].kind = "open"
  BY DEF Init, NoOp
<1>2. LabelInv /\ BatchInv
  BY <1>1 DEF LabelInv, LabelState, BatchInv, TransactionLabels
<1>3. SubmitInv /\ ProgressInv
  BY <1>1 DEF SubmitInv, ProgressInv
<1>4. StoredInv
  BY InitialDbsAssumption DEF Init, FileOK, StoredInv
<1>5. QED
  BY <1>2, <1>3, <1>4 DEF RecordInv

LEMMA NextRecord ==
    ASSUME TypeOK, ChainInv, RecordInv, [Next]_vars
    PROVE  RecordInv'
<1>1. TypeOK' /\ ChainInv'
  BY NextInv
<1>2. CASE UNCHANGED vars
  <2>1. /\ db' = db /\ work' = work /\ nextBody' = nextBody /\ pc' = pc /\ op' = op /\ at' = at
        /\ row' = row /\ out' = out
    BY <1>2 DEF vars
  <2>2. LabelInv' /\ BatchInv'
    BY <2>1 DEF RecordInv, LabelInv, LabelState, BatchInv, BatchState, Inserted, Batch
  <2>3. StoredInv'
    BY <2>1 DEF RecordInv, StoredInv
  <2>4. SubmitInv'
    <3>1. ASSUME NEW q \in Process, op[q].kind = "record",
                 NEW b \in 1..Len(op[q].batches), NEW i \in 1..Len(op[q].batches[b])
          PROVE  /\ Body(q, b, i)' < nextBody'
                 /\ NewToCall(q, b, i)'
                 /\ \A r \in Process \ {q} : op[r].kind = "record" => NewToOther(q, r, b, i)'
      <4>1. /\ Body(q, b, i) < nextBody
            /\ NewToCall(q, b, i)
            /\ \A r \in Process \ {q} : op[r].kind = "record" => NewToOther(q, r, b, i)
        BY <3>1 DEF RecordInv, SubmitInv, Submits
      <4>2. QED
        BY <2>1, <4>1 DEF NewToCall, NewToOther, Body
    <3>2. QED
      BY <2>1, <3>1 DEF RecordInv, SubmitInv, Submits
  <2>5. ProgressInv'
    <3>1. SUFFICES ASSUME NEW q \in Process, op[q].kind = "record"
                   PROVE  Progress(q)'
      BY <2>1 DEF ProgressInv
    <3>2. PICK k \in 0..Len(op[q].batches) :
            /\ CommittedUpTo(q, k)
            /\ out[q] = "ok" => k = Len(op[q].batches)
            /\ pc[q] # "idle" => k = Done(q)
      BY <3>1 DEF RecordInv, ProgressInv, Progress
    <3>3. CommittedUpTo(q, k)' /\ Done(q)' = Done(q)
      BY <2>1, <3>2 DEF CommittedUpTo, Held, HeldOnce, Body, Done
    <3>4. QED
      BY <2>1, <3>2, <3>3 DEF Progress
  <2>6. QED
    BY <2>2, <2>3, <2>4, <2>5 DEF RecordInv
<1>3. ASSUME NEW p \in Process, CallStep(p)
      PROVE  RecordInv'
  <2>1. LabelInv /\ SubmitInv /\ StoredInv /\ BatchInv
    BY DEF RecordInv
  <2>2. LabelInv' /\ SubmitInv'
    BY <1>1, <1>3, <2>1, LabelStep, SubmitStep
  <2>3. StoredInv' /\ BatchInv'
    BY <1>1, <1>3, <2>1, StoredStep, BatchStep
  <2>4. ProgressInv'
    BY <1>1, <1>3, ProgressStep
  <2>5. QED
    BY <2>2, <2>3, <2>4 DEF RecordInv
<1>4. QED
  BY <1>2, <1>3 DEF Next, CallStep

LEMMA RecordInvariance == Spec => [](TypeOK /\ ChainInv /\ RecordInv)
<1>1. Init => TypeOK /\ ChainInv /\ RecordInv
  BY InitType, InitChain, InitRecord
<1>2. TypeOK /\ ChainInv /\ RecordInv /\ [Next]_vars => (TypeOK /\ ChainInv /\ RecordInv)'
  BY NextInv, NextRecord
<1>3. QED
  BY <1>1, <1>2, PTL DEF Spec

(* A record call that returned Ok has every row it submitted in the file,  *)
(* each exactly once, whatever the other processes did, committed or lost  *)
(* before, during and after it.                                            *)
THEOREM RecordsAreHeldOnce == Spec => []RecordedOnce
<1>1. TypeOK /\ ChainInv /\ RecordInv => RecordedOnce
  <2>1. SUFFICES ASSUME TypeOK, RecordInv, NEW p \in Process, op[p].kind = "record", out[p] = "ok",
                        NEW x \in Submitted(p)
                 PROVE  HeldOnce(op[p].table, x)
    BY DEF RecordedOnce
  <2>2. PICK b \in 1..Len(op[p].batches) : \E i \in 1..Len(op[p].batches[b]) : x = Body(p, b, i)
    BY <2>1 DEF Submitted, Body
  <2>3. PICK i \in 1..Len(op[p].batches[b]) : x = Body(p, b, i)
    BY <2>2
  <2>4. CommittedUpTo(p, Len(op[p].batches))
    BY <2>1 DEF RecordInv, ProgressInv, Progress
  <2>5. Len(op[p].batches) \in Nat
    BY <2>1 DEF TypeOK, Types, CallTypes, Call
  <2>6. b <= Len(op[p].batches)
    BY <2>5
  <2>7. QED
    BY <2>3, <2>4, <2>6 DEF CommittedUpTo
<1>2. QED
  BY <1>1, RecordInvariance, PTL

(* Of the sacrifices one record_declared_sacrifices call submits the file  *)
(* holds all or none at every moment, also after the call failed or its    *)
(* process died.                                                           *)
THEOREM SacrificesStayTogether == Spec => []SacrificesAllOrNothing
<1>1. TypeOK /\ ChainInv /\ RecordInv => SacrificesAllOrNothing
  <2>1. SUFFICES ASSUME TypeOK, RecordInv, NEW p \in Process, op[p].kind = "record",
                        op[p].table = "declared_sacrifices"
                 PROVE  \/ Submitted(p) \subseteq Bodies("declared_sacrifices")
                        \/ Submitted(p) \cap Bodies("declared_sacrifices") = {}
    BY DEF SacrificesAllOrNothing
  <2>2. Len(op[p].batches) = 1
    BY <2>1 DEF RecordInv, SubmitInv, Submits
  <2>3. PICK k \in 0..1 : CommittedUpTo(p, k)
    BY <2>1, <2>2 DEF RecordInv, ProgressInv, Progress
  <2>4. \A x \in Submitted(p) : \E i \in 1..Len(op[p].batches[1]) : x = Body(p, 1, i)
    BY <2>2 DEF Submitted, Body
  <2>5. CASE k = 0
    <3>1. ASSUME NEW x \in Submitted(p)
          PROVE  x \notin Bodies("declared_sacrifices")
      <4>1. ~Held("declared_sacrifices", x)
        BY <2>1, <2>2, <2>3, <2>4, <2>5 DEF CommittedUpTo
      <4>2. QED
        BY <4>1 DEF Held, Bodies
    <3>2. QED
      BY <3>1
  <2>6. CASE k = 1
    <3>1. ASSUME NEW x \in Submitted(p)
          PROVE  x \in Bodies("declared_sacrifices")
      <4>1. HeldOnce("declared_sacrifices", x)
        BY <2>1, <2>2, <2>3, <2>4, <2>6 DEF CommittedUpTo
      <4>2. QED
        BY <4>1 DEF HeldOnce, Bodies
    <3>2. QED
      BY <3>1
  <2>7. QED
    BY <2>3, <2>5, <2>6
<1>2. QED
  BY <1>1, RecordInvariance, PTL

-----------------------------------------------------------------------------
(***************************************************************************)
(* The ledger implements AuditLog.                                         *)
(***************************************************************************)
LEMMA LoadMoves ==
    ASSUME TypeOK, NEW p \in Process, LoadTable(p)
    PROVE  /\ pc[p] = "load" /\ at[p] \in 1..Len(TableSeq)
           /\ report'[p] = [report[p] EXCEPT ![TableSeq[at[p]]] = Newest(snap[p][TableSeq[at[p]]].rows)]
           /\ \/ pc' = pc /\ at'[p] = at[p] + 1 /\ snap' = snap /\ out' = out
              \/ at[p] = Len(TableSeq) /\ pc'[p] = "idle" /\ out'[p] = "ok"
<1>1. pc[p] = "load" /\ at[p] \in 1..Len(TableSeq)
  BY DEF LoadTable, TypeOK, InRange, TableLabels
<1>2. report'[p] = [report[p] EXCEPT ![TableSeq[at[p]]] = Newest(snap[p][TableSeq[at[p]]].rows)]
  BY DEF LoadTable, Visible, TypeOK, Types, LocalTypes
<1>3. CASE at[p] < Len(TableSeq)
  BY <1>1, <1>2, <1>3 DEF LoadTable, TypeOK, Types, CallTypes
<1>4. CASE ~(at[p] < Len(TableSeq))
  <2>1. Return(p, "ok")
    BY <1>4 DEF LoadTable
  <2>2. at[p] = Len(TableSeq)
    BY <1>1, <1>4, LedgerAssumption
  <2>3. QED
    BY <1>1, <1>2, <2>1, <2>2 DEF Return, TypeOK, Types, CallTypes
<1>5. QED
  BY <1>3, <1>4

(* The tables read so far, after one more.                                 *)
LEMMA LoadedTables ==
    ASSUME TypeOK, ReportInv, NEW p \in Process, LoadTable(p), NEW i \in 1..at[p]
    PROVE  report'[p][TableSeq[i]] = Newest(snap[p][TableSeq[i]].rows)
<1>1. /\ pc[p] = "load" /\ at[p] \in 1..Len(TableSeq)
      /\ report'[p] = [report[p] EXCEPT ![TableSeq[at[p]]] = Newest(snap[p][TableSeq[at[p]]].rows)]
  BY LoadMoves
<1>2. report[p] \in [Table -> Seq(Content)] /\ Len(TableSeq) \in Nat
  BY LedgerAssumption DEF TypeOK, Types, LocalTypes
<1>3. i \in 1..Len(TableSeq) /\ TableSeq[i] \in Table
  BY <1>1, <1>2, TableOfIndex
<1>4. CASE i = at[p]
  BY <1>1, <1>2, <1>3, <1>4
<1>5. CASE i # at[p]
  <2>1. TableSeq[i] # TableSeq[at[p]]
    BY <1>1, <1>3, <1>5, LedgerAssumption
  <2>2. i \in 1..(at[p] - 1)
    BY <1>1, <1>2, <1>5
  <2>3. report[p][TableSeq[i]] = Newest(snap[p][TableSeq[i]].rows)
    BY <1>1, <2>2 DEF ReportInv, ReportState
  <2>4. QED
    BY <1>1, <1>2, <1>3, <2>1, <2>3
<1>6. QED
  BY <1>4, <1>5

LEMMA ReportStep ==
    ASSUME TypeOK, ChainInv, LabelInv, ReportInv, NEW p \in Process, CallStep(p)
    PROVE  ReportInv'
<1>1. ASSUME NEW q \in Process, q # p
      PROVE  /\ pc'[q] = "pin" => at'[q] = 1
             /\ pc'[q] = "load" => ReportState(q)'
  <2>1. /\ pc'[q] = pc[q] /\ at'[q] = at[q] /\ snap'[q] = snap[q] /\ report'[q] = report[q]
    BY <1>1, StepOthers, StepResults DEF Others
  <2>2. QED
    BY <2>1 DEF ReportInv, ReportState
<1>p. LabelState(p)
  BY DEF LabelInv
<1>2. /\ pc'[p] = "pin" => at'[p] = 1
      /\ pc'[p] = "load" => ReportState(p)'
  <2>1. CASE Start(p)
    <3>1. pc'[p] = "columns"
      BY <2>1, StartMoves
    <3>2. QED
      BY <3>1
  <2>2. CASE Commit(p)
    <3>1. pc'[p] \in {"begin", "idle"}
      BY <1>p, <2>2, CommitMoves
    <3>2. QED
      BY <3>1
  <2>3. CASE ~Start(p) /\ ~Commit(p)
    <3>1. Goes(p)
      BY <1>p, <2>3, StepGoes DEF CallStep
    <3>2. pc'[p] = "pin" => at'[p] = 1
      BY <3>1 DEF Goes
    <3>3. ASSUME pc'[p] = "load"
          PROVE  ReportState(p)'
      <4>1. PinSnapshot(p) \/ LoadTable(p)
        BY <3>1, <3>3 DEF Goes
      <4>2. CASE PinSnapshot(p)
        <5>1. pc[p] = "pin" /\ at' = at
          BY <4>2 DEF PinSnapshot
        <5>2. at'[p] = 1
          BY <5>1 DEF ReportInv
        <5>3. 1..(at'[p] - 1) = {}
          BY <5>2
        <5>4. QED
          BY <5>3 DEF ReportState
      <4>3. CASE LoadTable(p)
        <5>1. at'[p] = at[p] + 1 /\ snap' = snap
          BY <3>3, <4>3, LoadMoves
        <5>2. 1..(at'[p] - 1) = 1..at[p]
          <6>1. at[p] \in Nat
            BY DEF TypeOK, Types, CallTypes
          <6>2. at'[p] - 1 = at[p]
            BY <5>1, <6>1
          <6>3. QED
            BY <6>2
        <5>3. QED
          BY <4>3, <5>1, <5>2, LoadedTables DEF ReportState
      <4>4. QED
        BY <4>1, <4>2, <4>3
    <3>4. QED
      BY <3>2, <3>3
  <2>4. QED
    BY <2>1, <2>2, <2>3
<1>3. QED
  BY <1>1, <1>2 DEF ReportInv

(* An audit lists what AuditLog answers.                                   *)
LEMMA NewestContents ==
    ASSUME NEW d \in Db, NEW t \in Table
    PROVE  Newest(d[t].rows) = Abstract!NewestFirst(Contents(d)[t])
<1>1. d[t].rows \in Seq(Row) /\ Limit \in Nat
  BY RowsOfTable, LedgerAssumption
<1>2. PICK rows, n, s : rows = d[t].rows /\ n = Len(rows) /\ s = [i \in 1..n |-> rows[i].content]
  OBVIOUS
<1>3. Contents(d)[t] = s
  BY <1>2 DEF Contents
<1>4. n \in Nat /\ Len(s) = n
  BY <1>1, <1>2
<1>5. PICK m : m = IF n < Limit THEN n ELSE Limit
  OBVIOUS
<1>6. \A i \in 1..m : n + 1 - i \in 1..n
  BY <1>1, <1>4, <1>5
<1>7. [i \in 1..m |-> rows[n + 1 - i].content] = [i \in 1..m |-> s[n + 1 - i]]
  BY <1>2, <1>6
<1>8. QED
  BY <1>2, <1>3, <1>4, <1>5, <1>7 DEF Newest, Abstract!NewestFirst

LEMMA ContentsType ==
    ASSUME NEW d \in Db
    PROVE  /\ Contents(d) \in [Table -> Seq(Content)]
           /\ \A t \in Table : Len(Contents(d)[t]) = Len(d[t].rows)
<1>1. ASSUME NEW t \in Table
      PROVE  /\ [i \in 1..Len(d[t].rows) |-> d[t].rows[i].content] \in Seq(Content)
             /\ Len([i \in 1..Len(d[t].rows) |-> d[t].rows[i].content]) = Len(d[t].rows)
  <2>1. d[t].rows \in Seq(Row)
    BY RowsOfTable
  <2>2. ASSUME NEW i \in 1..Len(d[t].rows)
        PROVE  d[t].rows[i].content \in Content
    <3>1. d[t].rows[i] \in Row
      BY <2>1, ElementOfSeq
    <3>2. QED
      BY <3>1 DEF Row
  <2>3. QED
    BY <2>1, <2>2
<1>2. QED
  BY <1>1 DEF Contents

LEMMA InitRefines ==
    ASSUME Init
    PROVE  Abstract!Init
<1>1. Contents(db) \in [Table -> Seq(Content)]
  BY InitType, ContentsType DEF TypeOK, Types, FileTypes
<1>2. Pinned = [p \in Process |-> {}]
  BY DEF Init, Pinned
<1>3. Answer = [p \in Process |-> EmptyReport]
  BY DEF Init, Answer, NoOp
<1>4. QED
  BY <1>1, <1>2, <1>3 DEF Abstract!Init, Abstract!Store, Abstract!NoAnswer, EmptyReport

(* What a step shows of the other processes.                               *)
LEMMA OthersShown ==
    ASSUME TypeOK, ChainInv, NEW p \in Process, CallStep(p), NEW q \in Process, q # p
    PROVE  Pinned'[q] = Pinned[q] /\ Answer'[q] = Answer[q]
<1>1. /\ pc'[q] = pc[q] /\ op'[q] = op[q] /\ out'[q] = out[q] /\ snap'[q] = snap[q]
      /\ report'[q] = report[q]
  BY StepOthers, StepResults DEF Others
<1>2. QED
  BY <1>1 DEF Pinned, Answer, Contents

(* What it shows of its own, from what the process itself shows after it.  *)
LEMMA OwnShown ==
    ASSUME TypeOK, ChainInv, NEW p \in Process, CallStep(p),
           NEW pin, pin = Pinned'[p], NEW ans, ans = Answer'[p]
    PROVE  /\ Pinned' = [Pinned EXCEPT ![p] = pin]
           /\ Answer' = [Answer EXCEPT ![p] = ans]
<1>1. /\ Pinned' = [q \in Process |-> Pinned'[q]] /\ Pinned = [q \in Process |-> Pinned[q]]
      /\ Answer' = [q \in Process |-> Answer'[q]] /\ Answer = [q \in Process |-> Answer[q]]
  BY DEF Pinned, Answer
<1>2. \A q \in Process : q # p => Pinned'[q] = Pinned[q] /\ Answer'[q] = Answer[q]
  BY OthersShown
<1>3. QED
  BY <1>1, <1>2

LEMMA StoreKept ==
    ASSUME ContentsKept
    PROVE  Contents(db)' = Contents(db)
BY DEF ContentsKept, Contents

(* A step that shows nothing of its call is a Drop of AuditLog.            *)
LEMMA DropRefines ==
    ASSUME TypeOK, ChainInv, NEW p \in Process, CallStep(p), ContentsKept,
           pc'[p] # "load", ~(op'[p].kind = "audit" /\ out'[p] = "ok")
    PROVE  Abstract!Next
<1>1. {} = Pinned'[p] /\ EmptyReport = Answer'[p]
  BY DEF Pinned, Answer
<1>2. Pinned' = [Pinned EXCEPT ![p] = {}] /\ Answer' = [Answer EXCEPT ![p] = EmptyReport]
  BY <1>1, OwnShown
<1>3. Abstract!Drop(p)
  BY <1>2, StoreKept DEF Abstract!Drop, Abstract!NoAnswer, EmptyReport
<1>4. QED
  BY <1>3 DEF Abstract!Next

(* The first read of an audit is a Pin.                                    *)
LEMMA PinRefines ==
    ASSUME TypeOK, ChainInv, LabelInv, NEW p \in Process, PinSnapshot(p), CallStep(p), ~Commit(p),
           pc'[p] = "load"
    PROVE  Abstract!Next
<1>1. pc[p] = "pin" /\ snap'[p] = db /\ op' = op /\ out' = out
  BY DEF PinSnapshot, TypeOK, Types, LocalTypes
<1>2. out[p] = "none"
  BY <1>1 DEF LabelInv, LabelState
<1>3. Answer'[p] = EmptyReport /\ Answer[p] = EmptyReport
  BY <1>1, <1>2 DEF Answer
<1>4. Pinned'[p] = {Contents(db)}
  BY <1>1 DEF Pinned, Contents
<1>5. Pinned' = [Pinned EXCEPT ![p] = {Contents(db)}] /\ Answer' = [Answer EXCEPT ![p] = EmptyReport]
  BY <1>3, <1>4, OwnShown
<1>6. Answer' = Answer
  BY <1>3, <1>5 DEF Answer
<1>7. Contents(db)' = Contents(db)
  BY StepContents, StoreKept
<1>8. Abstract!Pin(p)
  BY <1>5, <1>6, <1>7 DEF Abstract!Pin
<1>9. QED
  BY <1>8 DEF Abstract!Next

(* The last read of an audit is a Reply, the others are invisible.         *)
LEMMA LoadRefines ==
    ASSUME TypeOK, ChainInv, LabelInv, ReportInv, NEW p \in Process, LoadTable(p), CallStep(p), ~Commit(p)
    PROVE  [Abstract!Next]_(Abstract!vars)
<1>1. pc[p] = "load" /\ op[p].kind = "audit" /\ out[p] = "none" /\ op' = op
  BY CallKept, LoadMoves, StartMoves DEF LabelInv, LabelState, Start
<1>2. Contents(db)' = Contents(db)
  BY StepContents, StoreKept
<1>3. CASE pc' = pc /\ snap' = snap /\ out' = out
  <2>1. Answer'[p] = Answer[p] /\ Pinned'[p] = Pinned[p]
    BY <1>1, <1>3 DEF Answer, Pinned, Contents
  <2>2. Pinned' = [Pinned EXCEPT ![p] = Pinned[p]] /\ Answer' = [Answer EXCEPT ![p] = Answer[p]]
    BY <2>1, OwnShown
  <2>3. Pinned' = Pinned /\ Answer' = Answer
    BY <2>2 DEF Pinned, Answer
  <2>4. QED
    BY <1>2, <2>3 DEF Abstract!vars
<1>4. CASE at[p] = Len(TableSeq) /\ pc'[p] = "idle" /\ out'[p] = "ok"
  <2>1. PICK s : s = Contents(snap[p])
    OBVIOUS
  <2>2. Pinned[p] = {s}
    BY <1>1, <2>1 DEF Pinned
  <2>3. Pinned'[p] = {} /\ Answer'[p] = report'[p]
    BY <1>1, <1>4 DEF Pinned, Answer
  <2>4. report'[p] = [t \in Table |-> Abstract!NewestFirst(s[t])]
    <3>1. ASSUME NEW t \in Table
          PROVE  report'[p][t] = Abstract!NewestFirst(s[t])
      <4>1. PICK i \in 1..Len(TableSeq) : t = TableSeq[i]
        BY DEF Table
      <4>2. report'[p][t] = Newest(snap[p][t].rows)
        BY <1>4, <4>1, LoadedTables
      <4>3. snap[p] \in Db
        BY DEF TypeOK, Types, LocalTypes
      <4>4. QED
        BY <2>1, <4>2, <4>3, NewestContents
    <3>2. report[p] \in [Table -> Seq(Content)]
      BY DEF TypeOK, Types, LocalTypes
    <3>3. report'[p] = [t \in Table |-> report'[p][t]]
      BY <3>2, LoadMoves
    <3>4. QED
      BY <3>1, <3>3
  <2>5. Pinned' = [Pinned EXCEPT ![p] = {}] /\ Answer' = [Answer EXCEPT ![p] = report'[p]]
    BY <2>3, OwnShown
  <2>6. Abstract!Reply(p)
    BY <1>2, <2>2, <2>4, <2>5 DEF Abstract!Reply
  <2>7. QED
    BY <2>6 DEF Abstract!Next
<1>5. QED
  BY <1>3, <1>4, LoadMoves

(* A commit is a Grow of its table.                                        *)
LEMMA CommitRefines ==
    ASSUME TypeOK, TypeOK', ChainInv, LabelInv, BatchInv, NEW p \in Process, Commit(p), CallStep(p)
    PROVE  Abstract!Next
<1>1. /\ op' = op /\ op[p].kind = "record" /\ pc[p] = "commit" /\ pc'[p] # "load"
  <2>1. LabelState(p)
    BY DEF LabelInv
  <2>2. QED
    BY <2>1, CommitMoves
<1>2. Pinned'[p] = Pinned[p] /\ Answer'[p] = Answer[p]
  BY <1>1 DEF Pinned, Answer
<1>3. Pinned' = [Pinned EXCEPT ![p] = Pinned[p]] /\ Answer' = [Answer EXCEPT ![p] = Answer[p]]
  BY <1>2, OwnShown
<1>4. Pinned' = Pinned /\ Answer' = Answer
  BY <1>3 DEF Pinned, Answer
<1>5. PICK t : t = op[p].table
  OBVIOUS
<1>6. t \in Table
  BY <1>1, <1>5, BatchType DEF TypeOK, InRange, TransactionLabels
<1>7. PICK old, new : old = Contents(db) /\ new = Contents(db)'
  OBVIOUS
<1>8. /\ old \in [Table -> Seq(Content)] /\ new \in [Table -> Seq(Content)]
      /\ \A u \in Table : Len(old[u]) = Len(db[u].rows) /\ Len(new[u]) = Len(db'[u].rows)
  BY <1>7, ContentsType DEF TypeOK, Types, FileTypes
<1>9. \A u \in Table : /\ old[u] = [i \in 1..Len(db[u].rows) |-> db[u].rows[i].content]
                       /\ new[u] = [i \in 1..Len(db'[u].rows) |-> db'[u].rows[i].content]
  BY <1>7 DEF Contents
<1>10. ASSUME NEW u \in Table, u # t
       PROVE  new[u] = old[u]
  <2>1. Len(db'[u].rows) = Len(db[u].rows) /\ \A i \in 1..Len(db[u].rows) : db'[u].rows[i].content = db[u].rows[i].content
    BY <1>5, <1>10, CommitRows
  <2>2. /\ old[u] = [i \in 1..Len(db[u].rows) |-> db[u].rows[i].content]
        /\ new[u] = [i \in 1..Len(db'[u].rows) |-> db'[u].rows[i].content]
    BY <1>9
  <2>3. QED
    BY <2>1, <2>2
<1>11. Len(new[t]) > Len(old[t]) /\ \A i \in 1..Len(old[t]) : new[t][i] = old[t][i]
  <2>1. /\ Len(db[t].rows) \in Nat /\ Len(Batch(p)) \in Nat \ {0}
        /\ Len(db'[t].rows) = Len(db[t].rows) + Len(Batch(p))
        /\ \A i \in 1..Len(db[t].rows) : db'[t].rows[i].content = db[t].rows[i].content
    BY <1>5, <1>6, CommitRows
  <2>2. /\ Len(old[t]) = Len(db[t].rows) /\ Len(new[t]) = Len(db'[t].rows)
        /\ old[t] = [i \in 1..Len(db[t].rows) |-> db[t].rows[i].content]
        /\ new[t] = [i \in 1..Len(db'[t].rows) |-> db'[t].rows[i].content]
    BY <1>6, <1>8, <1>9
  <2>3. Len(new[t]) > Len(old[t])
    BY <2>1, <2>2
  <2>4. ASSUME NEW i \in 1..Len(db[t].rows)
        PROVE  new[t][i] = old[t][i]
    <3>1. i \in 1..Len(db'[t].rows)
      BY <2>1
    <3>2. QED
      BY <2>1, <2>2, <3>1
  <2>5. QED
    BY <2>2, <2>3, <2>4
<1>12. SubSeq(new[t], 1, Len(old[t])) = old[t]
  <2>1. old[t] \in Seq(Content) /\ new[t] \in Seq(Content)
    BY <1>6, <1>8
  <2>2. PICK a, b, n : a = old[t] /\ b = new[t] /\ n = Len(a)
    OBVIOUS
  <2>3. /\ a \in Seq(Content) /\ b \in Seq(Content) /\ n \in Nat /\ Len(b) > n
        /\ \A i \in 1..n : b[i] = a[i]
    BY <1>11, <2>1, <2>2
  <2>4. 1 \in 1..(Len(b) + 1) /\ n \in 0..Len(b) /\ n - 1 + 1 = n
    BY <2>3
  <2>5. /\ SubSeq(b, 1, n) \in Seq(Content) /\ Len(SubSeq(b, 1, n)) = n
        /\ \A i \in 1..n : SubSeq(b, 1, n)[i] = b[i]
    BY <2>3, <2>4, SubSeqProperties
  <2>6. SubSeq(b, 1, n) = a
    BY <2>2, <2>3, <2>5, SeqEqual
  <2>7. QED
    BY <2>2, <2>6
<1>13. Abstract!Grow(t)
  BY <1>4, <1>6, <1>7, <1>8, <1>10, <1>11, <1>12 DEF Abstract!Grow
<1>14. QED
  BY <1>6, <1>13 DEF Abstract!Next

LEMMA StepRefines ==
    ASSUME TypeOK, ChainInv, RecordInv, ReportInv, [Next]_vars
    PROVE  [Abstract!Next]_(Abstract!vars)
<1>1. CASE UNCHANGED vars
  <2>1. db' = db /\ pc' = pc /\ op' = op /\ snap' = snap /\ report' = report /\ out' = out
    BY <1>1 DEF vars
  <2>2. Contents(db)' = Contents(db) /\ Pinned' = Pinned /\ Answer' = Answer
    BY <2>1 DEF Contents, Pinned, Answer
  <2>3. QED
    BY <2>2 DEF Abstract!vars
<1>2. ASSUME NEW p \in Process, CallStep(p)
      PROVE  [Abstract!Next]_(Abstract!vars)
  <2>1. LabelInv /\ BatchInv /\ LabelState(p) /\ TypeOK'
    BY NextInv DEF RecordInv, LabelInv
  <2>2. CASE Commit(p)
    BY <1>2, <2>1, <2>2, CommitRefines
  <2>3. CASE Start(p) /\ ~Commit(p)
    <3>1. ContentsKept /\ pc'[p] # "load" /\ out'[p] # "ok"
      BY <1>2, <2>3, StartMoves, StepContents
    <3>2. QED
      BY <1>2, <3>1, DropRefines
  <2>4. CASE ~Start(p) /\ ~Commit(p)
    <3>1. Goes(p) /\ ContentsKept
      BY <1>2, <2>1, <2>4, StepGoes, StepContents DEF CallStep
    <3>2. CASE LoadTable(p)
      BY <1>2, <2>1, <2>4, <3>2, LoadRefines
    <3>3. CASE pc'[p] = "load" /\ PinSnapshot(p)
      BY <1>2, <2>1, <2>4, <3>3, PinRefines
    <3>4. CASE pc'[p] # "load" /\ ~LoadTable(p)
      <4>1. ~(op'[p].kind = "audit" /\ out'[p] = "ok")
        BY <3>1, <3>4 DEF Goes, LabelState
      <4>2. QED
        BY <1>2, <3>1, <3>4, <4>1, DropRefines
    <3>5. QED
      BY <3>1, <3>2, <3>3, <3>4 DEF Goes
  <2>5. QED
    BY <2>2, <2>3, <2>4
<1>3. QED
  BY <1>1, <1>2 DEF Next, CallStep

LEMMA ReportInvariance == Spec => [](TypeOK /\ ChainInv /\ RecordInv /\ ReportInv)
<1>1. Init => ReportInv
  BY DEF Init, ReportInv
<1>2. TypeOK /\ ChainInv /\ RecordInv /\ ReportInv /\ [Next]_vars => ReportInv'
  <2>1. SUFFICES ASSUME TypeOK, ChainInv, RecordInv, ReportInv, [Next]_vars
                 PROVE  ReportInv'
    OBVIOUS
  <2>2. CASE UNCHANGED vars
    BY <2>1, <2>2 DEF vars, ReportInv, ReportState
  <2>3. ASSUME NEW p \in Process, CallStep(p)
        PROVE  ReportInv'
    BY <2>1, <2>3, ReportStep DEF RecordInv
  <2>4. QED
    BY <2>1, <2>2, <2>3 DEF Next, CallStep
<1>3. QED
  BY <1>1, <1>2, RecordInvariance, PTL DEF Spec

(* The ledger implements AuditLog: whatever migrates, hashes, anchors,     *)
(* fails and dies, its callers see tables that only grow, by whole         *)
(* transactions, and audits that answer from one moment of the file.       *)
THEOREM LedgerImplementsAuditLog == Spec => ImplementsAuditLog
<1>1. Init => Abstract!Init
  BY InitRefines
<1>2. TypeOK /\ ChainInv /\ RecordInv /\ ReportInv /\ [Next]_vars => [Abstract!Next]_(Abstract!vars)
  BY StepRefines
<1>3. QED
  BY <1>1, <1>2, ReportInvariance, PTL DEF Spec, ImplementsAuditLog, Abstract!Spec

-----------------------------------------------------------------------------
(***************************************************************************)
(* Verification raises no false alarm on files whose chains are complete   *)
(* and anchored.  (A file whose heads are still missing is another matter: *)
(* two processes that open it first can leave a wrong head.)               *)
(***************************************************************************)
AnchoredFiles == \A d \in InitialDbs : Intact(d)

Migrating == {"cursor", "backfill", "headhash", "headcount", "headwrite"}

LEMMA IntactFile ==
    ASSUME TypeOK, ChainInv, LabelInv, BatchInv, IntactInv, NEW p \in Process, CallStep(p)
    PROVE  Intact(db)'
<1>1. pc[p] \notin Migrating
  BY DEF IntactInv, VerifyState, Migrating
<1>2. CASE Commit(p)
  <2>1. ASSUME NEW t \in Table
        PROVE  /\ HashedRowsLinked(t, db'[t].rows) /\ ~Unhashed(db'[t].rows)
               /\ HeadAccepted(db'[t].head, Len(db'[t].rows), LastHash(db'[t].rows))
    <3>1. /\ HashedRowsLinked(t, db'[t].rows) /\ ~Unhashed(db'[t].rows)
          /\ t = op[p].table => HeadAccepted(db'[t].head, Len(db'[t].rows), LastHash(db'[t].rows))
          /\ t # op[p].table => db'[t] = db[t]
      BY <1>2, CommitEffect
    <3>2. HeadAccepted(db[t].head, Len(db[t].rows), LastHash(db[t].rows))
      BY DEF IntactInv, Intact
    <3>3. QED
      BY <3>1, <3>2
  <2>2. QED
    BY <2>1 DEF Intact
<1>3. CASE ~Commit(p)
  <2>1. \A t \in Table : db'[t].rows = db[t].rows
    BY <1>1, <1>3, RowsKept DEF BackfillRow, CallStep, Migrating
  <2>2. ASSUME NEW t \in Table
        PROVE  db'[t].head = db[t].head
    <3>1. CASE Start(p) \/ FinishOpen(p) \/ BusyTimeout(p) \/ Read(p) \/ Abort(p)
      BY <3>1 DEF Start, FinishOpen, BusyTimeout, Read, PinSnapshot, LoadTable, ScanTable,
                  CheckHead, Abort, files
    <3>2. CASE \/ ReadColumns(p) \/ DuplicateColumn(p) \/ CheckBackfill(p) \/ OpenCursor(p)
               \/ BackfillConflict(p) \/ BackfillDone(p) \/ ReadHead(p) \/ ReadHeadHash(p)
               \/ ReadHeadCount(p)
      BY <3>2 DEF ReadColumns, DuplicateColumn, CheckBackfill, OpenCursor, BackfillConflict,
                  BackfillDone, ReadHead, ReadHeadHash, ReadHeadCount, files
    <3>3. CASE BackfillRow(p) \/ WriteHead(p)
      BY <1>1, <3>3 DEF BackfillRow, WriteHead, Migrating
    <3>4. CASE AddColumn(p)
      <4>1. PICK u, cols : db' = WithCols(db, u, cols)
        BY <3>4 DEF AddColumn, AutoCommit
      <4>2. QED
        BY <4>1 DEF WithCols, TypeOK, Types, FileTypes, Db
    <3>5. CASE Record(p)
      BY <1>3, <3>5 DEF Record, Begin, Insert, SetRowHash, UpdateChainHead
    <3>6. QED
      BY <3>1, <3>2, <3>3, <3>4, <3>5 DEF CallStep, Step, Schema
  <2>3. QED
    BY <2>1, <2>2 DEF IntactInv, Intact
<1>4. QED
  BY <1>2, <1>3

(* What a schema step does on an intact file.                              *)
LEMMA IntactSchema ==
    ASSUME TypeOK, NEW p \in Process, LabelState(p), IntactInv, Schema(p)
    PROVE  VerifyState(p)'
<1>t. pc \in [Process -> Label] /\ at \in [Process -> Nat \ {0}]
  BY DEF TypeOK, Types, CallTypes
<1>0. pc[p] \notin Migrating /\ out[p] # "invalid"
  BY DEF IntactInv, VerifyState, Migrating
<1>1. pc'[p] \in {"columns", "alter", "check", "head", "finish", "begin", "pin", "idle"}
  <2>1. CASE ReadColumns(p) \/ AddColumn(p)
    BY <1>t, <2>1 DEF ReadColumns, AddColumn, NextPlanStep
  <2>2. CASE CheckBackfill(p)
    <3>1. at[p] \in 1..Len(TableSeq)
      BY <2>2 DEF CheckBackfill, TypeOK, InRange, TableLabels
    <3>2. ~Unhashed(db[TableSeq[at[p]]].rows)
      BY <3>1, TableOfIndex DEF IntactInv, Intact
    <3>3. NextTable(p, "check", "head")
      BY <2>2, <3>2 DEF CheckBackfill
    <3>4. QED
      BY <1>t, <3>3 DEF NextTable
  <2>3. CASE ReadHead(p)
    <3>1. at[p] \in 1..Len(TableSeq)
      BY <2>3 DEF ReadHead, TypeOK, InRange, TableLabels
    <3>2. PICK t \in Table : t = TableSeq[at[p]]
      BY <3>1, TableOfIndex
    <3>3. db[t].head = [count |-> Len(db[t].rows), hash |-> LastHash(db[t].rows)]
      BY DEF IntactInv, Intact, HeadAccepted
    <3>4. Len(db[t].rows) \in Nat
      BY RowsOfTable DEF TypeOK, Types, FileTypes
    <3>5. db[t].head.count = Len(db[t].rows) /\ NoHead.count = -1
      BY <3>3 DEF NoHead
    <3>6. db[t].head # NoHead
      BY <3>4, <3>5
    <3>7. NextTable(p, "head", BodyLabel(p))
      BY <2>3, <3>2, <3>6 DEF ReadHead
    <3>8. BodyLabel(p) \in {"finish", "begin", "pin"}
      BY BodyLabelType
    <3>9. QED
      BY <1>t, <3>7, <3>8 DEF NextTable
  <2>4. CASE DuplicateColumn(p)
    BY <1>t, <2>4 DEF DuplicateColumn, Return
  <2>5. QED
    BY <1>0, <2>1, <2>2, <2>3, <2>4
       DEF Schema, OpenCursor, BackfillRow, BackfillConflict, BackfillDone, ReadHeadHash,
           ReadHeadCount, WriteHead, Migrating
<1>2. out'[p] # "invalid"
  <2>1. CASE DuplicateColumn(p)
    BY <2>1 DEF DuplicateColumn, Return, TypeOK, Types, CallTypes
  <2>2. CASE ReadColumns(p) \/ AddColumn(p) \/ CheckBackfill(p) \/ ReadHead(p)
    BY <1>0, <2>2 DEF ReadColumns, AddColumn, CheckBackfill, ReadHead
  <2>3. QED
    BY <1>0, <2>1, <2>2
       DEF Schema, OpenCursor, BackfillRow, BackfillConflict, BackfillDone, ReadHeadHash,
           ReadHeadCount, WriteHead, Migrating
<1>3. QED
  BY <1>1, <1>2 DEF VerifyState

LEMMA IntactRead ==
    ASSUME TypeOK, IntactInv, NEW p \in Process, Read(p)
    PROVE  VerifyState(p)'
<1>t. /\ pc \in [Process -> Label] /\ at \in [Process -> Nat \ {0}]
      /\ out \in [Process -> {"none", "ok", "error", "valid", "invalid"}]
      /\ hash \in [Process -> Hash] /\ count \in [Process -> Nat] /\ snap \in [Process -> Db]
  BY DEF TypeOK, Types, CallTypes, LocalTypes
<1>0. VerifyState(p) /\ Intact(db)
  BY DEF IntactInv
<1>r. ASSUME NEW r, r # "invalid", Return(p, r)
      PROVE  VerifyState(p)'
  <2>1. pc'[p] = "idle" /\ out'[p] = r
    BY <1>r, <1>t DEF Return
  <2>2. QED
    BY <1>r, <2>1 DEF VerifyState
<1>1. CASE PinSnapshot(p)
  <2>1. pc'[p] \in {"load", "scan"} /\ snap'[p] = db /\ out'[p] = out[p]
    BY <1>t, <1>1 DEF PinSnapshot
  <2>2. Intact(snap'[p])
    BY <1>0, <2>1
  <2>3. Intact(snap[p])'
    BY <2>2 DEF Intact
  <2>4. QED
    BY <1>0, <2>1, <2>3 DEF VerifyState
<1>2. CASE LoadTable(p)
  <2>1. CASE Return(p, "ok")
    BY <1>r, <2>1
  <2>2. CASE pc' = pc /\ out' = out
    <3>1. pc[p] = "load"
      BY <1>2 DEF LoadTable
    <3>2. QED
      BY <1>0, <2>2, <3>1 DEF VerifyState
  <2>3. QED
    BY <1>2, <2>1, <2>2 DEF LoadTable
<1>3. CASE ScanTable(p)
  <2>1. pc[p] = "scan" /\ at[p] \in 1..Len(TableSeq)
    BY <1>3 DEF ScanTable, TypeOK, InRange, TableLabels
  <2>2. PICK t \in Table : t = TableSeq[at[p]]
    BY <2>1, TableOfIndex
  <2>3. Intact(snap[p]) /\ snap[p][t].rows \in Seq(Row)
    BY <1>0, <1>t, <2>1, RowsOfTable DEF VerifyState
  <2>4. ChainAccepted(t, snap[p][t].rows)
    BY <2>3, LinkedAccepted DEF Intact
  <2>5. /\ hash' = [hash EXCEPT ![p] = LastHash(snap[p][t].rows)]
        /\ count' = [count EXCEPT ![p] = Len(snap[p][t].rows)]
        /\ pc' = [pc EXCEPT ![p] = "anchorcheck"]
        /\ UNCHANGED <<at, snap, out>>
    BY <1>3, <2>2, <2>4 DEF ScanTable, Visible
  <2>6. /\ hash'[p] = LastHash(snap[p][t].rows) /\ count'[p] = Len(snap[p][t].rows)
        /\ pc'[p] = "anchorcheck" /\ snap' = snap /\ at' = at /\ out' = out
    BY <1>t, <2>5
  <2>7. Intact(snap[p])'
    BY <2>3, <2>6 DEF Intact
  <2>8. QED
    BY <1>0, <2>2, <2>6, <2>7 DEF VerifyState
<1>4. CASE CheckHead(p)
  <2>1. pc[p] = "anchorcheck" /\ at[p] \in 1..Len(TableSeq)
    BY <1>4 DEF CheckHead, TypeOK, InRange, TableLabels
  <2>2. PICK t \in Table : t = TableSeq[at[p]]
    BY <2>1, TableOfIndex
  <2>3. Intact(snap[p]) /\ count[p] = Len(snap[p][t].rows) /\ hash[p] = LastHash(snap[p][t].rows)
    BY <1>0, <2>1, <2>2 DEF VerifyState
  <2>4. HeadAccepted(snap[p][t].head, count[p], hash[p])
    BY <2>3 DEF Intact
  <2>5. CASE Return(p, "valid")
    BY <1>r, <2>5
  <2>6. CASE pc' = [pc EXCEPT ![p] = "scan"] /\ snap' = snap /\ out' = out
    <3>1. pc'[p] = "scan"
      BY <1>t, <2>6
    <3>2. Intact(snap[p])'
      BY <2>3, <2>6 DEF Intact
    <3>3. QED
      BY <1>0, <2>6, <3>1, <3>2 DEF VerifyState
  <2>7. QED
    BY <1>4, <2>2, <2>4, <2>5, <2>6 DEF CheckHead, Visible
<1>5. QED
  BY <1>1, <1>2, <1>3, <1>4 DEF Read

LEMMA IntactStep ==
    ASSUME TypeOK, ChainInv, RecordInv, IntactInv, NEW p \in Process, CallStep(p)
    PROVE  IntactInv'
<1>0. LabelInv /\ BatchInv /\ LabelState(p) /\ VerifyState(p)
  BY DEF RecordInv, LabelInv, IntactInv
<1>1. Intact(db)'
  BY <1>0, IntactFile
<1>2. ASSUME NEW q \in Process, q # p
      PROVE  VerifyState(q)'
  <2>1. /\ pc'[q] = pc[q] /\ at'[q] = at[q] /\ hash'[q] = hash[q] /\ count'[q] = count[q]
        /\ out'[q] = out[q] /\ snap'[q] = snap[q]
    BY <1>2, StepOthers, StepResults DEF Others
  <2>2. VerifyState(q)
    BY DEF IntactInv
  <2>3. QED
    BY <2>1, <2>2 DEF VerifyState, Intact
<1>3. VerifyState(p)'
  <2>t. pc \in [Process -> Label] /\ out \in [Process -> {"none", "ok", "error", "valid", "invalid"}]
    BY DEF TypeOK, Types, CallTypes
  <2>r. ASSUME NEW r, r # "invalid", Return(p, r)
        PROVE  VerifyState(p)'
    <3>1. pc'[p] = "idle" /\ out'[p] = r
      BY <2>r, <2>t DEF Return
    <3>2. QED
      BY <2>r, <3>1 DEF VerifyState
  <2>1. CASE Start(p)
    <3>1. pc'[p] = "columns" /\ out'[p] = "none"
      BY <2>1, StartMoves
    <3>2. QED
      BY <3>1 DEF VerifyState
  <2>2. CASE Schema(p)
    BY <1>0, <2>2, IntactSchema
  <2>3. CASE FinishOpen(p) \/ BusyTimeout(p) \/ Abort(p)
    BY <2>r, <2>3 DEF FinishOpen, BusyTimeout, Abort
  <2>4. CASE Begin(p) \/ Insert(p) \/ SetRowHash(p) \/ UpdateChainHead(p)
    <3>1. pc'[p] \in {"insert", "rowhash", "anchor", "commit"} /\ out' = out
      BY <2>t, <2>4 DEF Begin, Insert, SetRowHash, UpdateChainHead
    <3>2. QED
      BY <1>0, <3>1 DEF VerifyState
  <2>5. CASE Commit(p)
    <3>1. pc'[p] \in {"begin", "idle"} /\ out'[p] # "invalid"
      BY <1>0, <2>5, CommitMoves
    <3>2. QED
      BY <3>1 DEF VerifyState
  <2>6. CASE Read(p)
    BY <2>6, IntactRead
  <2>7. QED
    BY <2>1, <2>2, <2>3, <2>4, <2>5, <2>6 DEF CallStep, Step, Record
<1>4. QED
  BY <1>1, <1>2, <1>3 DEF IntactInv

(* On a file whose chains are complete and anchored verify_chain never     *)
(* reports a break, however many processes record while it reads: the      *)
(* deferred transaction gives it one snapshot, and every commit anchors.   *)
THEOREM VerificationHasNoFalseBreak ==
    ASSUME AnchoredFiles
    PROVE  Spec => []NoFalseBreak
<1>1. Init => IntactInv
  BY DEF AnchoredFiles, Init, IntactInv, VerifyState, Intact
<1>2. TypeOK /\ ChainInv /\ RecordInv /\ IntactInv /\ [Next]_vars => IntactInv'
  <2>1. SUFFICES ASSUME TypeOK, ChainInv, RecordInv, IntactInv, [Next]_vars
                 PROVE  IntactInv'
    OBVIOUS
  <2>2. CASE UNCHANGED vars
    BY <2>1, <2>2 DEF vars, IntactInv, VerifyState, Intact
  <2>3. ASSUME NEW p \in Process, CallStep(p)
        PROVE  IntactInv'
    BY <2>1, <2>3, IntactStep
  <2>4. QED
    BY <2>1, <2>2, <2>3 DEF Next, CallStep
<1>3. IntactInv => NoFalseBreak
  BY DEF IntactInv, VerifyState, NoFalseBreak
<1>4. QED
  BY <1>1, <1>2, <1>3, RecordInvariance, PTL DEF Spec

-----------------------------------------------------------------------------
(***************************************************************************)
(* Damage is reported.  After a change from outside the chain is no longer *)
(* linked; what remains true of an anchored file is weaker: every row has  *)
(* a hash and every table a head, so nothing is migrated any more, and a   *)
(* transaction adds at least one row.                                      *)
(***************************************************************************)
CalmTransaction(p) ==
    LET t == op[p].table
        rows == work[t].rows
    IN  /\ work[t].head # NoHead
        /\ pc[p] # "insert" => Len(rows) > Len(db[t].rows)
        /\ \A i \in 1..Len(rows) :
             rows[i].hash = EmptyHash => pc[p] = "rowhash" /\ i = Len(rows)

CalmState(p) ==
    /\ LabelState(p)
    /\ pc[p] \notin Migrating
    /\ pc[p] = "pin" => at[p] = 1
    /\ pc[p] \in TransactionLabels => CalmTransaction(p)

CalmFile == \A t \in Table : ~Unhashed(db[t].rows) /\ db[t].head # NoHead

CalmInv == TypeOK /\ LockInv /\ CalmFile /\ \A p \in Process : CalmState(p)

(* Two kinds of damage: a row whose content is not the one that was        *)
(* hashed, and rows that the head still counts.                            *)
BadRow(d, t) == \E i \in 1..Len(d[t].rows) : ~RowHashAccepted(t, i, d[t].rows[i])
Short(d, t) == d[t].head.count # Len(d[t].rows)

(* A verification that has not yet passed the damage in its snapshot.      *)
Ahead(p, k) ==
    /\ k \in at[p]..Len(TableSeq)
    /\ \/ Short(snap[p], TableSeq[k])
       \/ BadRow(snap[p], TableSeq[k]) /\ (pc[p] = "anchorcheck" => k > at[p])

Doomed(p) ==
    /\ pc[p] \in {"scan", "anchorcheck"}
    /\ \E k \in Nat : Ahead(p, k)
    /\ pc[p] = "anchorcheck" => count[p] = Len(snap[p][TableSeq[at[p]]].rows)

Untouched ==
    /\ ~altered /\ (\A t \in Table : ~lost[t]) /\ exposed = {}
    /\ ChainInv /\ RecordInv /\ IntactInv

DamageInv ==
    /\ altered => \E t \in Table : BadRow(db, t)
    /\ \A t \in Table : lost[t] => Short(db, t)
    /\ \A p \in exposed : p \in Process /\ ((pc[p] = "idle" /\ out[p] # "valid") \/ Doomed(p))
    /\ faults = 0 => Untouched

(***************************************************************************)
(* The steps of the ledger on a file without work for the schema phase.    *)
(***************************************************************************)
LEMMA CalmTypes ==
    ASSUME NEW p \in Process, CalmInv, CallStep(p)
    PROVE  TypeOK' /\ Others(p)
<1>0. TypeOK /\ CalmState(p) /\ pc[p] \notin Migrating
  BY DEF CalmInv, CalmState
<1>1. CASE Start(p)
  BY <1>0, <1>1, StartType
<1>2. CASE Schema(p)
  <2>1. ~BackfillRow(p)
    BY <1>0 DEF BackfillRow, Migrating
  <2>2. QED
    BY <1>0, <1>2, <2>1, ReadColumnsType, AddColumnType, DuplicateColumnType, CheckBackfillType,
       OpenCursorType, BackfillConflictType, BackfillDoneType,
       ReadHeadType, ReadHeadHashType, ReadHeadCountType, WriteHeadType DEF Schema
<1>3. CASE FinishOpen(p) \/ BusyTimeout(p) \/ Abort(p)
  BY <1>0, <1>3, FinishOpenType, BusyTimeoutType, AbortType
<1>4. CASE Record(p)
  <2>1. CASE SetRowHash(p)
    <3>1. pc[p] = "rowhash"
      BY <2>1 DEF SetRowHash
    <3>2. Len(work[op[p].table].rows) > Len(db[op[p].table].rows) /\ op[p].table \in Table
      BY <1>0, <3>1, RecordContext DEF CalmState, CalmTransaction, TransactionLabels
    <3>3. Len(db[op[p].table].rows) \in Nat
      BY <1>0, <3>2, RowsOfTable DEF TypeOK, Types, FileTypes
    <3>4. work[op[p].table].rows # <<>>
      BY <3>2, <3>3
    <3>5. QED
      BY <1>0, <2>1, <3>4, SetRowHashType
  <2>2. QED
    BY <1>0, <1>4, <2>1, BeginType, InsertType, UpdateChainHeadType, CommitType DEF Record
<1>5. CASE Read(p)
  BY <1>0, <1>5, PinSnapshotType, LoadTableType, ScanTableType, CheckHeadType DEF Read
<1>6. QED
  BY <1>1, <1>2, <1>3, <1>4, <1>5 DEF CallStep, Step

(* Outside a transaction a step leaves rows, heads and the write lock.     *)
Leaves(p) ==
    /\ pc[p] \notin TransactionLabels /\ pc'[p] \notin TransactionLabels
    /\ writer' = writer
    /\ \A t \in Table : db'[t].rows = db[t].rows /\ db'[t].head = db[t].head
    /\ \/ db' = db /\ work' = work
       \/ writer = NoProcess /\ work' = db'

LEMMA SchemaLeaves ==
    ASSUME NEW p \in Process, CalmInv, Schema(p)
    PROVE  Leaves(p) /\ pc'[p] \notin Migrating
<1>t. /\ TypeOK /\ pc \in [Process -> Label] /\ at \in [Process -> Nat \ {0}] /\ db \in Db
      /\ pc[p] \notin Migrating /\ CalmFile
  BY DEF CalmInv, CalmState, TypeOK, Types, CallTypes, FileTypes
<1> USE DEF Migrating, TransactionLabels
<1>1. CASE ReadColumns(p)
  BY <1>t, <1>1 DEF ReadColumns, NextPlanStep, Leaves, files
<1>2. CASE AddColumn(p)
  <2>1. PICK u, cols : AutoCommit(p, WithCols(db, u, cols))
    BY <1>2 DEF AddColumn
  <2>2. /\ writer' = writer /\ writer = NoProcess /\ work' = db'
        /\ \A t \in Table : db'[t].rows = db[t].rows /\ db'[t].head = db[t].head
    BY <1>t, <2>1 DEF AutoCommit, WithCols, Db
  <2>3. pc[p] = "alter" /\ pc'[p] \in {"alter", "columns", "check"}
    BY <1>t, <1>2 DEF AddColumn, NextPlanStep
  <2>4. QED
    BY <2>2, <2>3 DEF Leaves
<1>3. CASE DuplicateColumn(p)
  BY <1>t, <1>3 DEF DuplicateColumn, Return, Leaves, files
<1>4. CASE CheckBackfill(p)
  <2>1. at[p] \in 1..Len(TableSeq)
    BY <1>t, <1>4 DEF CheckBackfill, TypeOK, InRange, TableLabels
  <2>2. ~Unhashed(db[TableSeq[at[p]]].rows)
    BY <1>t, <2>1, TableOfIndex DEF CalmFile
  <2>3. NextTable(p, "check", "head") /\ pc[p] = "check" /\ UNCHANGED files
    BY <1>4, <2>2 DEF CheckBackfill
  <2>4. QED
    BY <1>t, <2>3 DEF NextTable, Leaves, files
<1>5. CASE ReadHead(p)
  <2>1. at[p] \in 1..Len(TableSeq)
    BY <1>t, <1>5 DEF ReadHead, TypeOK, InRange, TableLabels
  <2>2. db[TableSeq[at[p]]].head # NoHead
    BY <1>t, <2>1, TableOfIndex DEF CalmFile
  <2>3. NextTable(p, "head", BodyLabel(p)) /\ pc[p] = "head" /\ UNCHANGED files
    BY <1>5, <2>2 DEF ReadHead
  <2>4. BodyLabel(p) \in {"finish", "begin", "pin"}
    BY <1>t, BodyLabelType
  <2>5. pc'[p] \in {"head", "finish", "begin", "pin"}
    BY <1>t, <2>3, <2>4 DEF NextTable
  <2>6. QED
    BY <2>3, <2>5 DEF Leaves, files
<1>6. QED
  BY <1>t, <1>1, <1>2, <1>3, <1>4, <1>5
     DEF Schema, OpenCursor, BackfillRow, BackfillConflict, BackfillDone, ReadHeadHash,
         ReadHeadCount, WriteHead

LEMMA CallLeaves ==
    ASSUME NEW p \in Process, CalmInv, CallStep(p), pc[p] \notin TransactionLabels, ~Begin(p)
    PROVE  Leaves(p) /\ pc'[p] \notin Migrating
<1>t. /\ TypeOK /\ pc \in [Process -> Label] /\ at \in [Process -> Nat \ {0}] /\ LockInv
  BY DEF CalmInv, TypeOK, Types, CallTypes
<1> USE DEF Migrating
<1>r. ASSUME NEW r, Return(p, r)
      PROVE  pc'[p] \notin TransactionLabels /\ pc'[p] \notin Migrating
  BY <1>t, <1>r DEF Return, TransactionLabels
<1>1. CASE Schema(p)
  BY <1>1, SchemaLeaves
<1>2. CASE Start(p)
  BY <1>t, <1>2 DEF Start, Leaves, TransactionLabels, files
<1>3. CASE FinishOpen(p) \/ BusyTimeout(p)
  BY <1>r, <1>3 DEF FinishOpen, BusyTimeout, Leaves, files
<1>4. CASE Abort(p)
  <2>1. writer # p
    BY <1>t DEF LockInv
  <2>2. QED
    BY <1>r, <1>4, <2>1 DEF Abort, Leaves
<1>5. CASE Read(p)
  <2>1. UNCHANGED files
    BY <1>5 DEF Read, PinSnapshot, LoadTable, ScanTable, CheckHead
  <2>2. pc'[p] \in {"load", "scan", "anchorcheck", "idle"}
    <3>1. CASE PinSnapshot(p)
      BY <1>t, <3>1 DEF PinSnapshot
    <3>2. CASE LoadTable(p)
      BY <1>t, <3>2, LoadMoves
    <3>3. CASE ScanTable(p)
      BY <1>t, <3>3 DEF ScanTable, Return
    <3>4. CASE CheckHead(p)
      BY <1>t, <3>4 DEF CheckHead, Return
    <3>5. QED
      BY <1>5, <3>1, <3>2, <3>3, <3>4 DEF Read
  <2>3. QED
    BY <2>1, <2>2 DEF Leaves, TransactionLabels, files
<1>6. CASE Record(p)
  BY <1>6 DEF Record, Insert, SetRowHash, UpdateChainHead, Commit, TransactionLabels
<1>7. QED
  BY <1>1, <1>2, <1>3, <1>4, <1>5, <1>6 DEF CallStep, Step

(* Inside one it is an INSERT, an UPDATE, or its end.                      *)
LEMMA InsideCalls ==
    ASSUME NEW p \in Process, CallStep(p), pc[p] \in TransactionLabels
    PROVE  Insert(p) \/ SetRowHash(p) \/ UpdateChainHead(p) \/ Commit(p) \/ Abort(p)
<1> USE DEF TransactionLabels
<1>1. ~Schema(p)
  BY DEF Schema, ReadColumns, AddColumn, DuplicateColumn, CheckBackfill, OpenCursor,
         BackfillRow, BackfillConflict, BackfillDone, ReadHead, ReadHeadHash,
         ReadHeadCount, WriteHead
<1>2. ~Start(p) /\ ~FinishOpen(p) /\ ~BusyTimeout(p) /\ ~Read(p) /\ ~Begin(p)
  BY DEF Start, FinishOpen, BusyTimeout, WaitsForLock, Read, PinSnapshot, LoadTable,
         ScanTable, CheckHead, Begin
<1>3. QED
  BY <1>1, <1>2 DEF CallStep, Step, Record

(* A step keeps the committed rows, and adds some or keeps the head.       *)
Keeps(t) ==
    \/ db'[t].rows = db[t].rows /\ db'[t].head = db[t].head
    \/ /\ Len(db'[t].rows) > Len(db[t].rows)
       /\ \A i \in 1..Len(db[t].rows) : db'[t].rows[i] = db[t].rows[i]

LEMMA CalmKeeps ==
    ASSUME NEW p \in Process, CalmInv, CallStep(p), NEW t \in Table
    PROVE  Keeps(t)
<1>1. CASE Begin(p) \/ Insert(p) \/ SetRowHash(p) \/ UpdateChainHead(p) \/ Abort(p)
  BY <1>1 DEF Begin, Insert, SetRowHash, UpdateChainHead, Abort, Keeps
<1>2. CASE Commit(p)
  <2>1. pc[p] = "commit" /\ db' = work
    BY <1>2 DEF Commit
  <2>2. writer = p /\ CalmTransaction(p) /\ OwnTableOnly(p)
    BY <2>1 DEF CalmInv, CalmState, LockInv, TransactionLabels
  <2>3. CASE t = op[p].table
    BY <2>1, <2>2, <2>3 DEF OwnTableOnly, CalmTransaction, Keeps
  <2>4. CASE t # op[p].table
    BY <2>1, <2>2, <2>4 DEF OwnTableOnly, Keeps
  <2>5. QED
    BY <2>3, <2>4
<1>3. CASE pc[p] \notin TransactionLabels /\ ~Begin(p)
  BY <1>3, CallLeaves DEF Leaves, Keeps
<1>4. QED
  BY <1>1, <1>2, <1>3, InsideCalls

(* The write lock.                                                         *)
LEMMA LockKept ==
    ASSUME NEW p \in Process, CalmInv, CallStep(p), Others(p), TypeOK',
           pc'[p] \in TransactionLabels <=> writer' = p,
           \A q \in Process \ {p} : writer' = q <=> writer = q,
           writer' = NoProcess => work' = db',
           writer' = p => OwnTableOnly(p)',
           writer \notin {p, NoProcess} => db' = db /\ work' = work
    PROVE  LockInv'
<1>0. LockInv /\ NoProcess \notin Process
  BY LedgerAssumption DEF CalmInv
<1>1. ASSUME NEW q \in Process
      PROVE  pc'[q] \in TransactionLabels <=> writer' = q
  <2>1. CASE q = p
    BY <2>1
  <2>2. CASE q # p
    BY <1>0, <2>2 DEF LockInv, Others
  <2>3. QED
    BY <2>1, <2>2
<1>2. ASSUME NEW q \in Process, writer' = q
      PROVE  OwnTableOnly(q)'
  <2>1. CASE q = p
    BY <1>2, <2>1
  <2>2. CASE q # p
    <3>1. writer = q /\ writer \notin {p, NoProcess}
      BY <1>0, <1>2, <2>2
    <3>2. OwnTableOnly(q) /\ db' = db /\ work' = work /\ op'[q] = op[q]
      BY <1>0, <2>2, <3>1 DEF LockInv, Others
    <3>3. QED
      BY <3>2 DEF OwnTableOnly
  <2>3. QED
    BY <2>1, <2>2
<1>3. QED
  BY <1>1, <1>2 DEF LockInv

(* While one process is in its transaction the others change nothing.      *)
LEMMA CalmLockedOut ==
    ASSUME NEW p \in Process, CalmInv, CallStep(p), writer \notin {p, NoProcess}
    PROVE  db' = db /\ work' = work
<1>1. pc[p] \notin TransactionLabels /\ ~Begin(p)
  BY DEF CalmInv, LockInv, Begin
<1>2. QED
  BY <1>1, CallLeaves DEF Leaves

LEMMA OthersCalm ==
    ASSUME NEW p \in Process, CalmInv, CallStep(p), NEW q \in Process, q # p
    PROVE  CalmState(q)'
<1>1. /\ pc'[q] = pc[q] /\ op'[q] = op[q] /\ at'[q] = at[q] /\ out'[q] = out[q]
  BY CalmTypes, StepResults DEF Others, CalmInv
<1>2. CalmState(q)
  BY DEF CalmInv
<1>3. ASSUME pc[q] \in TransactionLabels
      PROVE  CalmTransaction(q)'
  <2>1. writer = q /\ q # NoProcess
    BY <1>3, LedgerAssumption DEF CalmInv, LockInv
  <2>2. db' = db /\ work' = work
    BY <2>1, CalmLockedOut
  <2>3. CalmTransaction(q)
    BY <1>2, <1>3 DEF CalmState
  <2>4. QED
    BY <1>1, <2>2, <2>3 DEF CalmTransaction
<1>4. QED
  BY <1>1, <1>2, <1>3 DEF CalmState, LabelState

(* The process itself: labels, and where a read begins.                    *)
LEMMA CalmMoves ==
    ASSUME NEW p \in Process, CalmInv, CallStep(p)
    PROVE  /\ LabelState(p)'
           /\ pc'[p] = "pin" => at'[p] = 1
           /\ pc'[p] \notin Migrating
<1>0. TypeOK /\ LabelState(p)
  BY DEF CalmInv, CalmState
<1>t. pc \in [Process -> Label]
  BY <1>0 DEF TypeOK, Types, CallTypes
<1>1. LabelState(p)' /\ (pc'[p] = "pin" => at'[p] = 1)
  <2>1. CASE Start(p)
    <3>1. pc'[p] = "columns" /\ out'[p] = "none"
      BY <1>0, <2>1, StartMoves
    <3>2. QED
      BY <3>1 DEF LabelState, TransactionLabels
  <2>2. CASE Commit(p)
    <3>1. \/ pc'[p] = "begin" /\ out'[p] = "none" /\ op'[p].kind = "record"
          \/ pc'[p] = "idle"
      BY <1>0, <2>2, CommitMoves
    <3>2. QED
      BY <3>1 DEF LabelState, TransactionLabels
  <2>3. CASE ~Start(p) /\ ~Commit(p)
    <3>1. Goes(p)
      BY <1>0, <2>3, StepGoes DEF CallStep
    <3>2. QED
      BY <3>1 DEF Goes, LabelState, TransactionLabels
  <2>4. QED
    BY <2>1, <2>2, <2>3
<1>2. pc'[p] \notin Migrating
  <2>1. CASE pc[p] \notin TransactionLabels /\ ~Begin(p)
    BY <2>1, CallLeaves
  <2>2. CASE Begin(p) \/ Insert(p) \/ SetRowHash(p) \/ UpdateChainHead(p)
    BY <1>t, <2>2 DEF Begin, Insert, SetRowHash, UpdateChainHead, Migrating
  <2>3. CASE Commit(p)
    BY <1>0, <2>3, CommitMoves DEF Migrating
  <2>4. CASE Abort(p)
    BY <1>t, <2>4 DEF Abort, Return, Migrating
  <2>5. QED
    BY <2>1, <2>2, <2>3, <2>4, InsideCalls
<1>3. QED
  BY <1>1, <1>2

(* What a step inside a transaction does to the rows of its table.         *)
Grown(old, new) ==
    /\ Len(new) >= Len(old)
    /\ \A i \in 1..Len(old) : new[i] = old[i]

LEMMA CalmInsert ==
    ASSUME NEW p \in Process, CalmInv, CallStep(p),
           Begin(p) \/ Insert(p) \/ SetRowHash(p) \/ UpdateChainHead(p)
    PROVE  /\ db' = db /\ writer' = p /\ writer \in {p, NoProcess}
           /\ pc'[p] \in TransactionLabels /\ op[p].table \in Table /\ op[p].kind = "record"
           /\ op'[p] = op[p]
           /\ CalmTransaction(p)' /\ OwnTableOnly(p)'
<1>t. /\ TypeOK /\ pc \in [Process -> Label] /\ db \in Db /\ work \in Db /\ LockInv
      /\ CalmFile /\ CalmState(p) /\ row \in [Process -> Nat \ {0}]
  BY DEF CalmInv, TypeOK, Types, CallTypes, FileTypes
<1>1. PICK t : t = op[p].table
  OBVIOUS
<1>2. at[p] \in 1..Len(op[p].batches)
  BY <1>t DEF Begin, Insert, SetRowHash, UpdateChainHead, TypeOK, InRange, TransactionLabels
<1>3. t \in Table /\ op[p].kind = "record" /\ op' = op
  BY <1>t, <1>1, <1>2, BatchType DEF Begin, Insert, SetRowHash, UpdateChainHead
<1>4. /\ db' = db /\ writer' = p /\ writer \in {p, NoProcess} /\ pc'[p] \in TransactionLabels
  BY <1>t DEF Begin, Insert, SetRowHash, UpdateChainHead, LockInv, TransactionLabels
<1>5. PICK old, rows, new : old = db[t].rows /\ rows = work[t].rows /\ new = work'[t].rows
  OBVIOUS
<1>6. old \in Seq(Row) /\ rows \in Seq(Row) /\ Len(old) \in Nat /\ Len(rows) \in Nat
  BY <1>t, <1>3, <1>5, RowsOfTable
<1>7. CASE Begin(p)
  <2>1. writer = NoProcess /\ work' = work /\ work = db /\ pc'[p] = "insert"
    BY <1>t, <1>7 DEF Begin, LockInv
  <2>2. CalmTransaction(p)'
    BY <1>t, <1>1, <1>3, <1>4, <2>1 DEF CalmTransaction, CalmFile, Unhashed
  <2>3. OwnTableOnly(p)'
    BY <1>1, <1>3, <1>4, <1>5, <1>6, <2>1 DEF OwnTableOnly
  <2>4. QED
    BY <1>1, <1>3, <1>4, <2>2, <2>3
<1>8. CASE pc[p] \in {"insert", "rowhash", "anchor"}
  <2>0. /\ writer = p /\ CalmTransaction(p) /\ OwnTableOnly(p)
        /\ Batch(p)[row[p]] \in Content /\ hash[p] \in Hash
    BY <1>t, <1>8, RecordContext DEF CalmState, LockInv, TransactionLabels
  <2>1. /\ Len(old) <= Len(rows) /\ \A i \in 1..Len(old) : rows[i] = old[i]
        /\ \A u \in Table \ {t} : work[u] = db[u]
        /\ work[t].head # NoHead
        /\ pc[p] # "insert" => Len(rows) > Len(old)
        /\ \A i \in 1..Len(rows) : rows[i].hash = EmptyHash => pc[p] = "rowhash" /\ i = Len(rows)
    BY <1>1, <1>5, <2>0 DEF OwnTableOnly, CalmTransaction
  <2>own. ASSUME Grown(old, new), \A u \in Table \ {t} : work'[u] = work[u]
          PROVE  OwnTableOnly(p)'
    BY <1>1, <1>3, <1>4, <1>5, <2>1, <2>own DEF OwnTableOnly, Grown
  <2>calm. ASSUME work'[t].head # NoHead, pc'[p] # "insert" => Len(new) > Len(old),
                  \A i \in 1..Len(new) :
                     new[i].hash = EmptyHash => pc'[p] = "rowhash" /\ i = Len(new)
           PROVE  CalmTransaction(p)'
    <3>1. op'[p].table = t /\ work'[op'[p].table].rows = new /\ db'[op'[p].table].rows = old
      BY <1>1, <1>3, <1>4, <1>5
    <3>2. QED
      BY <2>calm, <3>1 DEF CalmTransaction
  <2>2. CASE Insert(p)
    <3>1. PICK r : r = NewRow(Batch(p)[row[p]], LastHash(rows))
      OBVIOUS
    <3>2. pc'[p] = "rowhash" /\ pc[p] = "insert" /\ work' = WithRows(work, t, Append(rows, r))
      BY <1>t, <1>1, <1>5, <2>2, <3>1 DEF Insert
    <3>3. r \in Row /\ r.hash = EmptyHash
      BY <1>6, <2>0, <3>1, LastHashType, EmptyHashType DEF NewRow, Row
    <3>4. /\ new = Append(rows, r) /\ work'[t].head = work[t].head
          /\ \A u \in Table \ {t} : work'[u] = work[u]
      BY <1>t, <1>3, <1>5, <3>2 DEF WithRows, Db
    <3>5. /\ Len(new) = Len(rows) + 1 /\ \A i \in 1..Len(rows) : new[i] = rows[i]
      BY <1>6, <3>3, <3>4, AppendProperties
    <3>6. Grown(old, new)
      BY <1>6, <2>1, <3>5 DEF Grown
    <3>7. Len(new) > Len(old)
      BY <1>6, <2>1, <3>5
    <3>8. ASSUME NEW i \in 1..Len(new), new[i].hash = EmptyHash
          PROVE  i = Len(new)
      <4>1. i \notin 1..Len(rows)
        BY <2>1, <3>2, <3>5, <3>8
      <4>2. QED
        BY <1>6, <3>5, <4>1
    <3>9. CalmTransaction(p)'
      BY <2>1, <2>calm, <3>2, <3>4, <3>7, <3>8
    <3>10. QED
      BY <1>1, <1>3, <1>4, <2>own, <3>4, <3>6, <3>9
  <2>3. CASE SetRowHash(p)
    <3>1. PICK n, h : /\ n = Len(rows)
                      /\ h = ChainHash(hash[p], Len(rows), ContentJson(Batch(p)[row[p]]))
      OBVIOUS
    <3>2. /\ pc[p] = "rowhash" /\ pc'[p] = "anchor"
          /\ work' = WithRows(work, t, SetHashes(rows, n, hash[p], h))
      BY <1>t, <1>1, <1>5, <2>3, <3>1 DEF SetRowHash
    <3>3. h # EmptyHash /\ h \in Hash
      BY <1>6, <2>0, <3>1, ChainHashType
    <3>4. /\ new = SetHashes(rows, n, hash[p], h) /\ work'[t].head = work[t].head
          /\ \A u \in Table \ {t} : work'[u] = work[u]
      BY <1>t, <1>3, <1>5, <3>2 DEF WithRows, Db
    <3>5. Len(rows) > Len(old) /\ n \in 1..Len(rows)
      BY <1>6, <2>1, <3>1, <3>2
    <3>6. Len(new) = Len(rows)
      BY <1>6, <2>0, <3>3, <3>4, <3>5, HashesUpdate
    <3>7. new[n].hash = h /\ \A i \in 1..Len(rows) : i # n => new[i] = rows[i]
      BY <1>6, <3>4, <3>5 DEF SetHashes
    <3>8. Grown(old, new)
      <4>1. ASSUME NEW i \in 1..Len(old)
            PROVE  new[i] = old[i]
        <5>1. i \in 1..Len(rows) /\ i # n
          BY <1>6, <3>1, <3>5
        <5>2. QED
          BY <2>1, <3>7, <5>1
      <4>2. QED
        BY <1>6, <3>5, <3>6, <4>1 DEF Grown
    <3>9. ASSUME NEW i \in 1..Len(new)
          PROVE  new[i].hash # EmptyHash
      BY <2>1, <3>1, <3>3, <3>6, <3>7
    <3>10. CalmTransaction(p)'
      BY <2>1, <2>calm, <3>4, <3>5, <3>6, <3>9
    <3>11. QED
      BY <1>1, <1>3, <1>4, <2>own, <3>4, <3>8, <3>10
  <2>4. CASE UpdateChainHead(p)
    <3>1. /\ pc[p] = "anchor" /\ pc'[p] \in {"insert", "commit"}
          /\ work' = WithHead(work, t, [count |-> Len(rows), hash |-> hash[p]])
      BY <1>t, <1>1, <1>5, <2>4 DEF UpdateChainHead
    <3>2. /\ new = rows /\ work'[t].head = [count |-> Len(rows), hash |-> hash[p]]
          /\ \A u \in Table \ {t} : work'[u] = work[u]
      BY <1>t, <1>3, <1>5, <3>1 DEF WithHead, Db
    <3>3. work'[t].head # NoHead
      <4>1. work'[t].head.count = Len(rows) /\ NoHead.count = -1
        BY <3>2 DEF NoHead
      <4>2. QED
        BY <1>6, <4>1
    <3>4. Grown(old, new)
      BY <1>6, <2>1, <3>2 DEF Grown
    <3>5. CalmTransaction(p)'
      BY <2>1, <2>calm, <3>1, <3>2, <3>3
    <3>6. QED
      BY <1>1, <1>3, <1>4, <2>own, <3>2, <3>4, <3>5
  <2>5. QED
    BY <1>8, <2>2, <2>3, <2>4 DEF Begin
<1>9. QED
  BY <1>7, <1>8 DEF Insert, SetRowHash, UpdateChainHead

LEMMA CalmStepInv ==
    ASSUME NEW p \in Process, CalmInv, CallStep(p)
    PROVE  CalmInv'
<1>0. /\ TypeOK /\ LockInv /\ CalmFile /\ CalmState(p) /\ NoProcess \notin Process
  BY LedgerAssumption DEF CalmInv
<1>1. TypeOK' /\ Others(p)
  BY CalmTypes
<1>2. /\ LabelState(p)' /\ (pc'[p] = "pin" => at'[p] = 1) /\ pc'[p] \notin Migrating
  BY CalmMoves
<1>d. ASSUME writer \notin {p, NoProcess}
      PROVE  db' = db /\ work' = work
  BY <1>d, CalmLockedOut
<1>3. CASE pc[p] \notin TransactionLabels /\ ~Begin(p)
  <2>1. Leaves(p)
    BY <1>3, CallLeaves
  <2>2. LockInv'
    <3>1. /\ pc'[p] \notin TransactionLabels /\ writer' # p /\ writer' = writer
      BY <1>0, <1>3, <2>1 DEF Leaves, LockInv
    <3>2. writer' = NoProcess => work' = db'
      BY <1>0, <2>1 DEF Leaves, LockInv
    <3>3. QED
      BY <1>1, <1>d, <3>1, <3>2, LockKept
  <2>3. CalmFile'
    BY <1>0, <2>1 DEF Leaves, CalmFile
  <2>4. CalmState(p)'
    BY <1>2, <2>1 DEF Leaves, CalmState
  <2>5. QED
    BY <1>1, <2>2, <2>3, <2>4, OthersCalm DEF CalmInv
<1>4. CASE Begin(p) \/ Insert(p) \/ SetRowHash(p) \/ UpdateChainHead(p)
  <2>1. /\ db' = db /\ writer' = p /\ writer \in {p, NoProcess}
        /\ pc'[p] \in TransactionLabels
        /\ CalmTransaction(p)' /\ OwnTableOnly(p)'
    BY <1>4, CalmInsert
  <2>2. \A q \in Process \ {p} : writer' = q <=> writer = q
    BY <1>0, <2>1
  <2>3. LockInv'
    BY <1>0, <1>1, <1>d, <2>1, <2>2, LockKept
  <2>4. CalmFile'
    BY <1>0, <2>1 DEF CalmFile
  <2>5. CalmState(p)'
    BY <1>2, <2>1 DEF CalmState
  <2>6. QED
    BY <1>1, <2>3, <2>4, <2>5, OthersCalm DEF CalmInv
<1>5. CASE pc[p] \in TransactionLabels /\ (Commit(p) \/ Abort(p))
  <2>1. writer = p /\ CalmTransaction(p) /\ OwnTableOnly(p)
    BY <1>0, <1>5 DEF CalmState, LockInv
  <2>2. writer' = NoProcess /\ work' = db'
    BY <1>5, <2>1 DEF Commit, Abort
  <2>3. pc'[p] \notin TransactionLabels
    <3>1. CASE Commit(p)
      BY <1>0, <3>1, CommitMoves DEF CalmState, TransactionLabels
    <3>2. CASE Abort(p)
      BY <1>0, <3>2 DEF Abort, Return, TransactionLabels, TypeOK, Types, CallTypes
    <3>3. QED
      BY <1>5, <3>1, <3>2
  <2>4. \A q \in Process \ {p} : writer' = q <=> writer = q
    BY <1>0, <2>1, <2>2
  <2>5. LockInv'
    BY <1>0, <1>1, <1>d, <2>2, <2>3, <2>4, LockKept
  <2>6. CalmFile'
    <3>1. CASE Abort(p)
      BY <1>0, <3>1 DEF Abort, CalmFile
    <3>2. CASE Commit(p)
      <4>1. pc[p] = "commit" /\ db' = work
        BY <3>2 DEF Commit
      <4>2. ASSUME NEW t \in Table
            PROVE  ~Unhashed(work[t].rows) /\ work[t].head # NoHead
        <5>1. CASE t = op[p].table
          BY <2>1, <4>1, <5>1 DEF CalmTransaction, Unhashed
        <5>2. CASE t # op[p].table
          BY <1>0, <2>1, <5>2 DEF OwnTableOnly, CalmFile
        <5>3. QED
          BY <5>1, <5>2
      <4>3. QED
        BY <4>1, <4>2 DEF CalmFile
    <3>3. QED
      BY <1>5, <3>1, <3>2
  <2>7. CalmState(p)'
    BY <1>2, <2>3 DEF CalmState
  <2>8. QED
    BY <1>1, <2>5, <2>6, <2>7, OthersCalm DEF CalmInv
<1>6. QED
  BY <1>3, <1>4, <1>5, InsideCalls

-----------------------------------------------------------------------------
(***************************************************************************)
(* The changes from outside.                                               *)
(***************************************************************************)
LEMMA OverwriteCalm ==
    ASSUME CalmInv, NEW t \in Table, NEW rows \in Seq(Row), ~Unhashed(rows),
           NEW d, d = WithRows(db, t, rows), Overwrite(d)
    PROVE  /\ CalmInv'
           /\ db'[t].rows = rows /\ db'[t].head = db[t].head
           /\ \A u \in Table \ {t} : db'[u] = db[u]
<1>t. /\ TypeOK /\ LockInv /\ CalmFile /\ db \in Db /\ NoProcess \notin Process
  BY LedgerAssumption DEF CalmInv, TypeOK, Types, FileTypes
<1>1. /\ db' = d /\ work' = d /\ writer = NoProcess /\ current' = {} /\ writer' = writer
      /\ nextBody' = nextBody /\ pc' = pc /\ op' = op /\ at' = at /\ row' = row
      /\ missing' = missing /\ hash' = hash /\ count' = count /\ snap' = snap
      /\ report' = report /\ out' = out
  BY DEF Overwrite, locals
<1>2. d \in Db
  BY <1>t, RowsUpdate
<1>3. /\ db'[t].rows = rows /\ db'[t].head = db[t].head
      /\ \A u \in Table \ {t} : db'[u] = db[u]
  BY <1>t, <1>1 DEF WithRows, Db
<1>4. TypeOK'
  <2>1. FileTypes'
    BY <1>t, <1>1, <1>2 DEF TypeOK, Types, FileTypes
  <2>2. CallTypes' /\ LocalTypes'
    BY <1>t, <1>1 DEF TypeOK, Types, CallTypes, LocalTypes
  <2>3. \A p \in Process : InRange(p)'
    BY <1>t, <1>1 DEF TypeOK, InRange, Batch
  <2>4. QED
    BY <2>1, <2>2, <2>3 DEF TypeOK, Types
<1>5. \A p \in Process : pc[p] \notin TransactionLabels
  BY <1>t, <1>1 DEF LockInv
<1>6. LockInv'
  BY <1>t, <1>1, <1>5 DEF LockInv
<1>7. CalmFile'
  BY <1>t, <1>3 DEF CalmFile
<1>8. ASSUME NEW p \in Process
      PROVE  CalmState(p)'
  <2>1. CalmState(p)
    BY DEF CalmInv
  <2>2. QED
    BY <1>1, <1>5, <2>1 DEF CalmState, LabelState
<1>9. QED
  BY <1>3, <1>4, <1>6, <1>7, <1>8 DEF CalmInv

(* A hash tells contents apart, in both formats.                           *)
LEMMA HashTells ==
    ASSUME NEW t \in Table, NEW i \in Nat, NEW r \in Row, RowHashAccepted(t, i, r),
           NEW c \in Content, c # r.content, NEW s \in Row,
           s.content = c, s.prev = r.prev, s.hash = r.hash
    PROVE  ~RowHashAccepted(t, i, s)
<1>1. PICK b : b = r.content
  OBVIOUS
<1>2. b \in Content /\ r.prev \in Hash
  BY <1>1 DEF Row
<1>3. b.body # c.body \/ b.ext # c.ext
  BY <1>1, <1>2 DEF Content
<1>4. /\ ContentJson(b) # ContentJson(c) /\ ContentJson(b) # LegacyContentJson(c)
      /\ LegacyContentJson(b) # ContentJson(c)
  BY <1>3 DEF ContentJson, LegacyContentJson
<1>5. b.ext = "default" /\ c.ext = "default" => LegacyContentJson(b) # LegacyContentJson(c)
  BY <1>3 DEF LegacyContentJson
<1>6. ASSUME NEW x \in JsonValue, NEW y \in JsonValue, ChainHash(r.prev, i, x) = ChainHash(r.prev, i, y)
      PROVE  x = y
  <2>1. r.prev \in Seq(Nat \X JsonValue) /\ <<i, x>> \in Nat \X JsonValue /\ <<i, y>> \in Nat \X JsonValue
    BY <1>2 DEF Hash
  <2>2. Append(r.prev, <<i, x>>)[Len(r.prev) + 1] = <<i, x>> /\ Append(r.prev, <<i, y>>)[Len(r.prev) + 1] = <<i, y>>
    BY <2>1, AppendProperties
  <2>3. <<i, x>> = <<i, y>>
    BY <1>6, <2>2 DEF ChainHash
  <2>4. QED
    BY <2>3
<1>7. /\ ContentJson(b) \in JsonValue /\ ContentJson(c) \in JsonValue
      /\ LegacyContentJson(b) \in JsonValue /\ LegacyContentJson(c) \in JsonValue
  BY <1>2 DEF JsonValue
<1>8. SUFFICES ASSUME RowHashAccepted(t, i, s) PROVE FALSE
  OBVIOUS
<1>9. \/ s.hash = ChainHash(r.prev, i, ContentJson(c))
      \/ c.ext = "default" /\ s.hash = ChainHash(r.prev, i, LegacyContentJson(c))
  BY <1>8 DEF RowHashAccepted
<1>10. \/ r.hash = ChainHash(r.prev, i, ContentJson(b))
       \/ b.ext = "default" /\ r.hash = ChainHash(r.prev, i, LegacyContentJson(b))
  BY <1>1 DEF RowHashAccepted
<1>11. QED
  BY <1>4, <1>5, <1>6, <1>7, <1>9, <1>10

LEMMA RowsReplaced ==
    ASSUME NEW tb \in TableState, NEW new
    PROVE  [tb EXCEPT !.rows = new] = [cols |-> tb.cols, rows |-> new, head |-> tb.head]
BY DEF TableState

(* The first change finds a file whose tables are accepted as they are.    *)
LEMMA UntouchedTables ==
    ASSUME CalmInv, Untouched, NEW t \in Table
    PROVE  /\ db[t].rows \in Seq(Row) /\ ~Unhashed(db[t].rows)
           /\ db[t].head.count = Len(db[t].rows)
           /\ \A i \in 1..Len(db[t].rows) : RowHashAccepted(t, i, db[t].rows[i])
<1>1. db[t].rows \in Seq(Row)
  BY RowsOfTable DEF CalmInv, TypeOK, Types, FileTypes
<1>2. /\ HashedRowsLinked(t, db[t].rows) /\ ~Unhashed(db[t].rows)
      /\ HeadAccepted(db[t].head, Len(db[t].rows), LastHash(db[t].rows))
  BY DEF Untouched, IntactInv, Intact
<1>3. ChainAccepted(t, db[t].rows)
  BY <1>1, <1>2, LinkedAccepted
<1>4. QED
  BY <1>1, <1>2, <1>3 DEF HeadAccepted, ChainAccepted

LEMMA AlterDamages ==
    ASSUME CalmInv, Untouched, NEW t \in Table, NEW i \in 1..Len(db[t].rows),
           NEW c \in Content, AlterContent(t, i, c)
    PROVE  CalmInv' /\ altered' = TRUE /\ lost' = lost /\ exposed' = exposed /\ BadRow(db, t)'
<1>1. PICK rows, r, s, new : /\ rows = db[t].rows /\ r = rows[i]
                             /\ s = [content |-> c, prev |-> r.prev, hash |-> r.hash]
                             /\ new = [rows EXCEPT ![i] = s]
  OBVIOUS
<1>2. /\ rows \in Seq(Row) /\ ~Unhashed(rows) /\ RowHashAccepted(t, i, r) /\ i \in 1..Len(rows)
      /\ i \in Nat
  BY <1>1, UntouchedTables
<1>3. r \in Row
  BY <1>1, <1>2, ElementOfSeq
<1>4. s \in Row /\ s.content = c /\ s.prev = r.prev /\ s.hash = r.hash
  BY <1>1, <1>3 DEF Row
<1>5. new \in Seq(Row) /\ Len(new) = Len(rows) /\ new[i] = s
  BY <1>1, <1>2, <1>4, ExceptSeq
<1>6. ~Unhashed(new)
  <2>1. ASSUME NEW j \in 1..Len(rows)
        PROVE  new[j].hash = rows[j].hash
    BY <1>1, <1>2, <1>4
  <2>2. QED
    BY <1>2, <1>5, <2>1 DEF Unhashed
<1>7. [db EXCEPT ![t].rows[i].content = c] = WithRows(db, t, new)
  <2>1. db \in Db /\ db[t] \in TableState
    BY DEF CalmInv, TypeOK, Types, FileTypes, Db
  <2>2. [r EXCEPT !.content = c] = s
    BY <1>1, <1>3 DEF Row
  <2>3. [rows EXCEPT ![i].content = c] = new
    BY <1>1, <1>2, <2>2
  <2>4. PICK tb : tb = db[t]
    OBVIOUS
  <2>5. [tb EXCEPT !.rows[i].content = c] = [tb EXCEPT !.rows = new]
    BY <1>1, <2>1, <2>3, <2>4 DEF TableState
  <2>6. [tb EXCEPT !.rows = new] = [cols |-> tb.cols, rows |-> new, head |-> tb.head]
    BY <2>1, <2>4, RowsReplaced
  <2>7. QED
    BY <2>1, <2>4, <2>5, <2>6 DEF WithRows
<1>8. Overwrite(WithRows(db, t, new)) /\ altered' = TRUE /\ lost' = lost
  BY <1>7 DEF AlterContent
<1>9. CalmInv' /\ db'[t].rows = new
  BY <1>5, <1>6, <1>8, OverwriteCalm
<1>10. ~RowHashAccepted(t, i, s)
  <2>1. c # r.content
    BY <1>1 DEF AlterContent
  <2>2. QED
    BY <1>2, <1>3, <1>4, <2>1, HashTells
<1>11. BadRow(db, t)'
  <2>1. i \in 1..Len(db'[t].rows) /\ ~RowHashAccepted(t, i, db'[t].rows[i])
    BY <1>2, <1>5, <1>9, <1>10
  <2>2. QED
    BY <2>1 DEF BadRow
<1>12. QED
  BY <1>8, <1>9, <1>11 DEF Overwrite

LEMMA LossDamages ==
    ASSUME CalmInv, Untouched, NEW t \in Table, lost \in [Table -> BOOLEAN], LoseLastRow(t)
    PROVE  /\ CalmInv' /\ altered' = altered /\ exposed' = exposed
           /\ \A u \in Table : lost'[u] => Short(db, u)'
<1>1. PICK rows, new : rows = db[t].rows /\ new = SubSeq(rows, 1, Len(rows) - 1)
  OBVIOUS
<1>2. rows \in Seq(Row) /\ ~Unhashed(rows) /\ db[t].head.count = Len(rows) /\ rows # <<>>
  BY <1>1, UntouchedTables DEF LoseLastRow
<1>3. Len(rows) \in Nat /\ Len(rows) > 0
  BY <1>2, EmptySeq
<1>4. /\ new \in Seq(Row) /\ Len(new) = Len(rows) - 1
      /\ \A i \in 1..(Len(rows) - 1) : new[i] = rows[i]
  BY <1>1, <1>2, <1>3, SubSeqProperties
<1>5. ~Unhashed(new)
  BY <1>2, <1>3, <1>4 DEF Unhashed
<1>6. [db EXCEPT ![t].rows = SubSeq(@, 1, Len(@) - 1)] = WithRows(db, t, new)
  <2>1. db \in Db /\ db[t] \in TableState
    BY DEF CalmInv, TypeOK, Types, FileTypes, Db
  <2>2. PICK tb : tb = db[t]
    OBVIOUS
  <2>3. [tb EXCEPT !.rows = SubSeq(@, 1, Len(@) - 1)] = [tb EXCEPT !.rows = new]
    BY <1>1, <2>1, <2>2 DEF TableState
  <2>4. [tb EXCEPT !.rows = new] = [cols |-> tb.cols, rows |-> new, head |-> tb.head]
    BY <2>1, <2>2, RowsReplaced
  <2>5. QED
    BY <2>1, <2>2, <2>3, <2>4 DEF WithRows
<1>7. Overwrite(WithRows(db, t, new)) /\ altered' = altered /\ lost' = [lost EXCEPT ![t] = TRUE]
  BY <1>6 DEF LoseLastRow
<1>8. CalmInv' /\ db'[t].rows = new /\ db'[t].head = db[t].head
  BY <1>4, <1>5, <1>7, OverwriteCalm
<1>9. ASSUME NEW u \in Table, lost'[u]
      PROVE  Short(db, u)'
  <2>1. u = t
    BY <1>7, <1>9 DEF Untouched
  <2>2. db'[t].head.count # Len(db'[t].rows)
    BY <1>2, <1>3, <1>4, <1>8
  <2>3. QED
    BY <2>1, <2>2 DEF Short
<1>10. QED
  BY <1>7, <1>8, <1>9 DEF Overwrite

-----------------------------------------------------------------------------
(***************************************************************************)
(* The steps of the ledger on a damaged file.  The damage stays until a    *)
(* row is added to the table that lost one.                                *)
(***************************************************************************)
LEMMA BadRowStays ==
    ASSUME CalmInv, NEW t \in Table, Keeps(t), BadRow(db, t), Len(db'[t].rows) \in Nat
    PROVE  BadRow(db, t)'
<1>1. PICK i \in 1..Len(db[t].rows) : ~RowHashAccepted(t, i, db[t].rows[i])
  BY DEF BadRow
<1>2. Len(db[t].rows) \in Nat
  BY RowsOfTable DEF CalmInv, TypeOK, Types, FileTypes
<1>3. i \in 1..Len(db'[t].rows) /\ db'[t].rows[i] = db[t].rows[i]
  BY <1>2 DEF Keeps
<1>4. ~RowHashAccepted(t, i, db'[t].rows[i])
  BY <1>1, <1>3
<1>5. QED
  BY <1>3, <1>4 DEF BadRow

LEMMA ShortStays ==
    ASSUME NEW t \in Table, Keeps(t), Short(db, t), Len(db'[t].rows) <= Len(db[t].rows),
           Len(db[t].rows) \in Nat, Len(db'[t].rows) \in Nat
    PROVE  Short(db, t)'
BY DEF Keeps, Short

(* A verification that is doomed ends with another answer than "valid".    *)
LEMMA DoomedStep ==
    ASSUME NEW p \in Process, CalmInv, CallStep(p), Doomed(p)
    PROVE  (pc'[p] = "idle" /\ out'[p] # "valid") \/ Doomed(p)'
<1>t. /\ TypeOK /\ pc \in [Process -> Label] /\ at \in [Process -> Nat \ {0}]
      /\ out \in [Process -> {"none", "ok", "error", "valid", "invalid"}]
      /\ count \in [Process -> Nat] /\ Len(TableSeq) \in Nat
  BY LedgerAssumption DEF CalmInv, TypeOK, Types, CallTypes, LocalTypes
<1>0. pc[p] \in {"scan", "anchorcheck"} /\ at[p] \in Nat
  BY <1>t DEF Doomed
<1>1. PICK k \in Nat : Ahead(p, k)
  BY DEF Doomed
<1>2. PICK t : t = TableSeq[at[p]]
  OBVIOUS
<1>r. ASSUME NEW r, Return(p, r), r # "valid"
      PROVE  pc'[p] = "idle" /\ out'[p] # "valid"
  BY <1>t, <1>r DEF Return
<1>3. CASE ScanTable(p)
  <2>1. pc[p] = "scan"
    BY <1>3 DEF ScanTable
  <2>2. CASE ~ChainAccepted(t, snap[p][t].rows)
    BY <1>2, <1>3, <1>r, <2>2 DEF ScanTable, Visible
  <2>3. CASE ChainAccepted(t, snap[p][t].rows)
    <3>1. /\ count' = [count EXCEPT ![p] = Len(snap[p][t].rows)]
          /\ pc' = [pc EXCEPT ![p] = "anchorcheck"] /\ at' = at /\ snap' = snap
      BY <1>2, <1>3, <2>3 DEF ScanTable, Visible
    <3>2. /\ count'[p] = Len(snap[p][t].rows) /\ pc'[p] = "anchorcheck"
      BY <1>t, <3>1
    <3>3. ~BadRow(snap[p], t)
      BY <2>3 DEF BadRow, ChainAccepted
    <3>4. Ahead(p, k)'
      <4>1. k \in at[p]..Len(TableSeq)
        BY <1>1 DEF Ahead
      <4>2. Short(snap[p], TableSeq[k]) \/ (BadRow(snap[p], TableSeq[k]) /\ k > at[p])
        <5>1. Short(snap[p], TableSeq[k]) \/ BadRow(snap[p], TableSeq[k])
          BY <1>1 DEF Ahead
        <5>2. k = at[p] => ~BadRow(snap[p], TableSeq[k])
          BY <1>2, <3>3
        <5>3. k = at[p] \/ k > at[p]
          BY <1>0, <4>1
        <5>4. QED
          BY <5>1, <5>2, <5>3
      <4>3. QED
        BY <3>1, <4>1, <4>2 DEF Ahead, Short, BadRow
    <3>5. QED
      BY <1>2, <3>1, <3>2, <3>4 DEF Doomed
  <2>4. QED
    BY <2>2, <2>3
<1>4. CASE CheckHead(p)
  <2>1. pc[p] = "anchorcheck" /\ count[p] = Len(snap[p][t].rows)
    BY <1>2, <1>4 DEF CheckHead, Doomed
  <2>2. CASE ~HeadAccepted(snap[p][t].head, count[p], hash[p])
    BY <1>2, <1>4, <1>r, <2>2 DEF CheckHead, Visible
  <2>3. CASE HeadAccepted(snap[p][t].head, count[p], hash[p])
    <3>1. ~Short(snap[p], t)
      BY <2>1, <2>3 DEF Short, HeadAccepted
    <3>2. k > at[p] /\ k <= Len(TableSeq)
      <4>1. k \in at[p]..Len(TableSeq)
        BY <1>1 DEF Ahead
      <4>2. k # at[p]
        BY <1>0, <1>1, <1>2, <2>1, <3>1 DEF Ahead
      <4>3. QED
        BY <1>0, <4>1, <4>2
    <3>3. at[p] < Len(TableSeq)
      BY <1>t, <1>0, <3>2
    <3>4. /\ at' = [at EXCEPT ![p] = @ + 1] /\ pc' = [pc EXCEPT ![p] = "scan"] /\ snap' = snap
      BY <1>2, <1>4, <2>3, <3>3 DEF CheckHead, Visible
    <3>5. at'[p] = at[p] + 1 /\ pc'[p] = "scan"
      BY <1>t, <3>4
    <3>6. k \in at'[p]..Len(TableSeq)
      BY <1>t, <1>0, <3>2, <3>5
    <3>7. Short(snap[p], TableSeq[k]) \/ BadRow(snap[p], TableSeq[k])
      BY <1>1 DEF Ahead
    <3>8. Ahead(p, k)'
      BY <3>4, <3>5, <3>6, <3>7 DEF Ahead, Short, BadRow
    <3>9. QED
      BY <3>5, <3>8 DEF Doomed
  <2>4. QED
    BY <2>2, <2>3
<1>5. CASE Abort(p)
  BY <1>5, <1>r DEF Abort
<1>6. ~Schema(p) /\ ~Record(p)
  BY <1>0 DEF Schema, ReadColumns, AddColumn, DuplicateColumn, CheckBackfill, OpenCursor,
              BackfillRow, BackfillConflict, BackfillDone, ReadHead, ReadHeadHash,
              ReadHeadCount, WriteHead, Record, Begin, Insert, SetRowHash, UpdateChainHead, Commit
<1>7. ~Start(p) /\ ~FinishOpen(p) /\ ~BusyTimeout(p) /\ ~PinSnapshot(p) /\ ~LoadTable(p)
  BY <1>0 DEF Start, FinishOpen, BusyTimeout, WaitsForLock, PinSnapshot, LoadTable
<1>8. QED
  BY <1>3, <1>4, <1>5, <1>6, <1>7 DEF CallStep, Step, Read

(* A call that begins is no longer an answer to the damage.                *)
LEMMA IdleStarts ==
    ASSUME NEW p \in Process, CalmInv, CallStep(p), pc[p] = "idle"
    PROVE  pc'[p] = "columns"
<1>1. TypeOK
  BY DEF CalmInv
<1>2. ~Schema(p) /\ ~Record(p) /\ ~Read(p)
  BY DEF Schema, ReadColumns, AddColumn, DuplicateColumn, CheckBackfill, OpenCursor,
         BackfillRow, BackfillConflict, BackfillDone, ReadHead, ReadHeadHash,
         ReadHeadCount, WriteHead, Record, Begin, Insert, SetRowHash, UpdateChainHead, Commit,
         Read, PinSnapshot, LoadTable, ScanTable, CheckHead
<1>3. ~FinishOpen(p) /\ ~BusyTimeout(p) /\ ~Abort(p)
  BY DEF FinishOpen, BusyTimeout, WaitsForLock, Abort
<1>4. QED
  BY <1>1, <1>2, <1>3, StartMoves DEF CallStep, Step

(* A verification pins a damaged file: the damage is still ahead of it.    *)
LEMMA PinIsDoomed ==
    ASSUME NEW p \in Process, CalmInv, CallStep(p), pc[p] = "pin", pc'[p] = "scan",
           NEW t \in Table, BadRow(db, t) \/ Short(db, t)
    PROVE  Doomed(p)'
<1>t. /\ TypeOK /\ pc \in [Process -> Label] /\ snap \in [Process -> Db] /\ at[p] = 1
      /\ Len(TableSeq) \in Nat
  BY LedgerAssumption DEF CalmInv, CalmState, TypeOK, Types, CallTypes, LocalTypes
<1>1. ~Schema(p) /\ ~Record(p) /\ ~LoadTable(p) /\ ~ScanTable(p) /\ ~CheckHead(p)
  BY DEF Schema, ReadColumns, AddColumn, DuplicateColumn, CheckBackfill, OpenCursor,
         BackfillRow, BackfillConflict, BackfillDone, ReadHead, ReadHeadHash,
         ReadHeadCount, WriteHead, Record, Begin, Insert, SetRowHash, UpdateChainHead, Commit,
         LoadTable, ScanTable, CheckHead
<1>2. ~Start(p) /\ ~FinishOpen(p) /\ ~BusyTimeout(p)
  BY DEF Start, FinishOpen, BusyTimeout, WaitsForLock
<1>3. ~Abort(p)
  BY <1>t DEF Abort, Return
<1>4. PinSnapshot(p)
  BY <1>1, <1>2, <1>3 DEF CallStep, Step, Read
<1>5. snap'[p] = db /\ at'[p] = 1
  BY <1>t, <1>4 DEF PinSnapshot
<1>6. PICK k \in 1..Len(TableSeq) : t = TableSeq[k]
  BY DEF Table
<1>7. k \in Nat /\ k \in at'[p]..Len(TableSeq)
  BY <1>t, <1>5, <1>6
<1>8. Ahead(p, k)'
  BY <1>5, <1>6, <1>7 DEF Ahead, Short, BadRow
<1>9. QED
  BY <1>7, <1>8 DEF Doomed

(* What another process does leaves a verification where it is.            *)
LEMMA DoomedStays ==
    ASSUME NEW p \in Process, CalmInv, CallStep(p), NEW q \in Process, q # p
    PROVE  /\ pc'[q] = pc[q] /\ out'[q] = out[q]
           /\ Doomed(q) => Doomed(q)'
<1>1. /\ pc'[q] = pc[q] /\ at'[q] = at[q] /\ count'[q] = count[q]
      /\ out'[q] = out[q] /\ snap'[q] = snap[q]
  BY CalmTypes, StepResults DEF Others, CalmInv
<1>2. \A k \in Nat : Ahead(q, k) => Ahead(q, k)'
  BY <1>1 DEF Ahead, Short, BadRow
<1>3. QED
  BY <1>1, <1>2 DEF Doomed

(* Before the first change the file is the one of the undamaged ledger.    *)
LEMMA UntouchedStep ==
    ASSUME NEW p \in Process, CalmInv, CallStep(p), Untouched, LedgerStep
    PROVE  Untouched'
<1>1. TypeOK /\ ChainInv /\ RecordInv /\ IntactInv /\ ~Damaged
  BY DEF CalmInv, Untouched, Damaged
<1>2. Next
  BY DEF LedgerStep
<1>3. ChainInv' /\ RecordInv' /\ IntactInv'
  BY <1>1, <1>2, NextInv, NextRecord, IntactStep
<1>4. ~altered' /\ (\A t \in Table : ~lost'[t]) /\ exposed' = {}
  BY <1>1 DEF Untouched, LedgerStep
<1>5. QED
  BY <1>3, <1>4 DEF Untouched

LEMMA DamageStep ==
    ASSUME NEW p \in Process, CalmInv, CallStep(p), DamageInv, LedgerStep
    PROVE  CalmInv' /\ DamageInv'
<1>1. CalmInv'
  BY CalmStepInv
<1>2. ASSUME NEW t \in Table
      PROVE  Keeps(t) /\ Len(db[t].rows) \in Nat /\ Len(db'[t].rows) \in Nat
  <2>1. db \in Db /\ db' \in Db
    BY <1>1 DEF CalmInv, TypeOK, Types, FileTypes
  <2>2. db[t].rows \in Seq(Row) /\ db'[t].rows \in Seq(Row)
    BY <2>1, RowsOfTable
  <2>3. QED
    BY <2>2, CalmKeeps
<1>3. ASSUME altered'
      PROVE  \E t \in Table : BadRow(db, t)'
  <2>1. PICK t \in Table : BadRow(db, t)
    BY <1>3 DEF LedgerStep, DamageInv
  <2>2. BadRow(db, t)'
    BY <1>2, <2>1, BadRowStays
  <2>3. QED
    BY <2>2
<1>4. ASSUME NEW t \in Table, lost'[t]
      PROVE  Short(db, t)'
  <2>1. lost[t] /\ Len(db'[t].rows) <= Len(db[t].rows)
    BY <1>4 DEF LedgerStep
  <2>2. Short(db, t)
    BY <2>1 DEF DamageInv
  <2>3. QED
    BY <1>2, <2>1, <2>2, ShortStays
<1>5. ASSUME NEW q \in exposed'
      PROVE  q \in Process /\ ((pc'[q] = "idle" /\ out'[q] # "valid") \/ Doomed(q)')
  <2>1. /\ q \in Process
        /\ (q \in exposed /\ pc'[q] # "columns") \/ (pc[q] = "pin" /\ pc'[q] = "scan" /\ Damaged)
    BY <1>5 DEF LedgerStep
  <2>2. CASE q \in exposed /\ pc'[q] # "columns"
    <3>1. (pc[q] = "idle" /\ out[q] # "valid") \/ Doomed(q)
      BY <2>2 DEF DamageInv
    <3>2. CASE q = p
      BY <2>1, <2>2, <3>1, <3>2, IdleStarts, DoomedStep
    <3>3. CASE q # p
      BY <2>1, <3>1, <3>3, DoomedStays
    <3>4. QED
      BY <2>1, <3>2, <3>3
  <2>3. CASE pc[q] = "pin" /\ pc'[q] = "scan" /\ Damaged
    <3>1. q = p
      BY <2>1, <2>3, DoomedStays
    <3>2. PICK t \in Table : BadRow(db, t) \/ Short(db, t)
      BY <2>3 DEF Damaged, DamageInv
    <3>3. QED
      BY <2>1, <2>3, <3>1, <3>2, PinIsDoomed
  <2>4. QED
    BY <2>1, <2>2, <2>3
<1>6. ASSUME faults' = 0
      PROVE  Untouched'
  <2>1. Untouched
    BY <1>6 DEF LedgerStep, DamageInv
  <2>2. QED
    BY <2>1, UntouchedStep
<1>7. QED
  BY <1>1, <1>3, <1>4, <1>5, <1>6 DEF DamageInv

-----------------------------------------------------------------------------
(* The invariant of a file that is changed from outside at most once.      *)
FaultInv ==
    /\ faults \in Nat /\ lost \in [Table -> BOOLEAN]
    /\ faults <= 1 => CalmInv /\ DamageInv

LEMMA FaultInitInv ==
    ASSUME AnchoredFiles, FaultInit
    PROVE  FaultInv
<1>1. Init /\ faults = 0 /\ ~altered /\ lost = [t \in Table |-> FALSE] /\ exposed = {}
  BY DEF FaultInit
<1>2. TypeOK /\ ChainInv /\ RecordInv
  BY <1>1, InitType, InitChain, InitRecord
<1>3. IntactInv
  BY <1>1 DEF AnchoredFiles, Init, IntactInv, VerifyState, Intact
<1>4. CalmFile
  <2>1. ASSUME NEW t \in Table
        PROVE  ~Unhashed(db[t].rows) /\ db[t].head # NoHead
    <3>1. ~Unhashed(db[t].rows) /\ HeadAccepted(db[t].head, Len(db[t].rows), LastHash(db[t].rows))
      BY <1>3 DEF IntactInv, Intact
    <3>2. Len(db[t].rows) \in Nat
      BY <1>2, RowsOfTable DEF TypeOK, Types, FileTypes
    <3>3. QED
      BY <3>1, <3>2 DEF HeadAccepted, NoHead
  <2>2. QED
    BY <2>1 DEF CalmFile
<1>5. ASSUME NEW p \in Process
      PROVE  CalmState(p)
  <2>1. pc[p] = "idle" /\ LabelState(p)
    BY <1>1, <1>2 DEF Init, RecordInv, LabelInv
  <2>2. QED
    BY <2>1 DEF CalmState, Migrating, TransactionLabels
<1>6. CalmInv
  BY <1>2, <1>4, <1>5 DEF CalmInv, ChainInv
<1>7. Untouched
  BY <1>1, <1>2, <1>3 DEF Untouched
<1>8. DamageInv
  BY <1>1, <1>7 DEF DamageInv
<1>9. QED
  BY <1>1, <1>6, <1>8 DEF FaultInv

LEMMA FaultStepInv ==
    ASSUME FaultInv, [FaultNext]_<<vars, faultVars>>
    PROVE  FaultInv'
<1>0. faults \in Nat /\ lost \in [Table -> BOOLEAN] /\ (faults <= 1 => CalmInv /\ DamageInv)
  BY DEF FaultInv
<1>1. CASE UNCHANGED <<vars, faultVars>>
  <2>1. UNCHANGED <<faults, altered, lost, exposed>> /\ UNCHANGED vars
    BY <1>1 DEF faultVars
  <2>2. ASSUME CalmInv PROVE CalmInv'
    BY <2>1, <2>2 DEF vars, CalmInv, TypeOK, Types, FileTypes, CallTypes, LocalTypes, InRange,
       Batch, LockInv, OwnTableOnly, CalmFile, CalmState, CalmTransaction, LabelState
  <2>3. ASSUME CalmInv, Untouched PROVE Untouched'
    <3>1. TypeOK /\ ChainInv /\ RecordInv /\ IntactInv
      BY <2>3 DEF CalmInv, Untouched
    <3>2. ChainInv' /\ RecordInv'
      BY <2>1, <3>1, NextInv, NextRecord
    <3>3. IntactInv'
      BY <2>1, <3>1 DEF vars, IntactInv, VerifyState, Intact
    <3>4. QED
      BY <2>1, <2>3, <3>2, <3>3 DEF Untouched
  <2>4. ASSUME CalmInv, DamageInv PROVE DamageInv'
    BY <2>1, <2>3, <2>4 DEF vars, DamageInv, BadRow, Short, Doomed, Ahead
  <2>5. QED
    BY <1>0, <2>1, <2>2, <2>4 DEF FaultInv
<1>2. CASE LedgerStep
  <2>1. PICK p \in Process : CallStep(p)
    BY <1>2 DEF LedgerStep, Next, CallStep
  <2>2. faults' = faults /\ lost' \in [Table -> BOOLEAN]
    BY <1>0, <1>2 DEF LedgerStep
  <2>3. QED
    BY <1>0, <1>2, <2>1, <2>2, DamageStep DEF FaultInv
<1>3. ASSUME NEW t \in Table, NEW i \in 1..Len(db[t].rows), NEW c \in Content, AlterContent(t, i, c)
      PROVE  FaultInv'
  <2>1. faults' = faults + 1 /\ lost' = lost
    BY <1>3 DEF AlterContent, Overwrite
  <2>2. ASSUME faults' <= 1
        PROVE  CalmInv' /\ DamageInv'
    <3>1. faults = 0 /\ CalmInv /\ Untouched
      BY <1>0, <2>1, <2>2 DEF DamageInv
    <3>2. CalmInv' /\ BadRow(db, t)' /\ exposed' = exposed
      BY <1>3, <3>1, AlterDamages
    <3>3. exposed' = {} /\ (\A u \in Table : ~lost'[u]) /\ faults' # 0
      BY <2>1, <3>1, <3>2 DEF Untouched
    <3>4. QED
      BY <3>2, <3>3 DEF DamageInv
  <2>3. QED
    BY <1>0, <2>1, <2>2 DEF FaultInv
<1>4. ASSUME NEW t \in Table, LoseLastRow(t)
      PROVE  FaultInv'
  <2>1. faults' = faults + 1 /\ lost' = [lost EXCEPT ![t] = TRUE]
    BY <1>4 DEF LoseLastRow, Overwrite
  <2>2. ASSUME faults' <= 1
        PROVE  CalmInv' /\ DamageInv'
    <3>1. faults = 0 /\ CalmInv /\ Untouched
      BY <1>0, <2>1, <2>2 DEF DamageInv
    <3>2. /\ CalmInv' /\ altered' = altered /\ exposed' = exposed
          /\ \A u \in Table : lost'[u] => Short(db, u)'
      BY <1>0, <1>4, <3>1, LossDamages
    <3>3. exposed' = {} /\ ~altered' /\ faults' # 0
      BY <2>1, <3>1, <3>2 DEF Untouched
    <3>4. QED
      BY <3>2, <3>3 DEF DamageInv
  <2>3. QED
    BY <1>0, <2>1, <2>2 DEF FaultInv
<1>5. QED
  BY <1>1, <1>2, <1>3, <1>4 DEF FaultNext

(* On a file whose chains are complete and anchored, a row altered or a    *)
(* last row lost is reported: no verify_chain that read the file after the *)
(* change answers "valid", whatever the other processes record meanwhile.  *)
(* Two changes may cancel each other (altering a row and altering it       *)
(* back), so the theorem speaks of behaviours with one change so far.      *)
THEOREM DamageIsReported ==
    ASSUME AnchoredFiles
    PROVE  FaultSpec => [](faults <= 1 => DamageReported)
<1>1. FaultInit => FaultInv
  BY FaultInitInv
<1>2. FaultInv /\ [FaultNext]_<<vars, faultVars>> => FaultInv'
  BY FaultStepInv
<1>3. FaultInv => (faults <= 1 => DamageReported)
  <2>1. SUFFICES ASSUME FaultInv, faults <= 1, NEW p \in exposed
                 PROVE  out[p] # "valid"
    BY DEF DamageReported
  <2>2. p \in Process /\ LabelState(p) /\ ((pc[p] = "idle" /\ out[p] # "valid") \/ Doomed(p))
    BY <2>1 DEF FaultInv, DamageInv, CalmInv, CalmState
  <2>3. QED
    BY <2>2 DEF Doomed, LabelState
<1>4. QED
  BY <1>1, <1>2, <1>3, PTL DEF FaultSpec
=============================================================================

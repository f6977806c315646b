----------------------------- MODULE Publication -----------------------------
(***************************************************************************)
(* Publication of output files by the trajectory commands                  *)
(* (cli/trajectory/linux_output.rs and its submodules): publish (one       *)
(* file), publish_pair (a sidecar, then the public file), publish_set      *)
(* (several files, rolled back together) and publish_directory_set (files  *)
(* in a staging directory that is renamed once complete).                  *)
(*                                                                         *)
(* A file is written as an anonymous inode and appears under its name by   *)
(* one linkat that never replaces anything.  Other processes of the same   *)
(* user may create, replace, move or write to every name they can know,    *)
(* between any two system calls.  Two intervals are outside the code's     *)
(* claim and atomic here: a random quarantine name is not touched by       *)
(* others, and the last proof of the staging directory is one step with    *)
(* its removal.                                                            *)
(*                                                                         *)
(* A check of a held inode (type, owner, mode, links, length, content and  *)
(* stable metadata before and after) is one step: its metadata comparison  *)
(* makes it a snapshot.                                                    *)
(***************************************************************************)
EXTENDS Integers, FiniteSets, FiniteSetsExt

CONSTANTS
    Ops,          \* the operations that are called
    NMembers,     \* files of a pair or a set
    Foreign,      \* inodes of other processes
    Absent,       \* no directory entry
    OwnDir,       \* the staging directory
    MaxChanges,   \* bound on the steps of other processes
    Rounds        \* proofs of the staging directory before the rename

ASSUME PublicationAssumption ==
    /\ Ops \subseteq {"single", "pair", "set", "directory"}
    /\ NMembers \in Nat \ {0} /\ MaxChanges \in Nat /\ Rounds \in Nat \ {0}
    /\ Foreign \cap (1 .. NMembers) = {} /\ Absent \notin Foreign \cup (1 .. NMembers)
    /\ OwnDir \notin Foreign \cup {Absent}

Members == 1 .. NMembers

VARIABLES
    op,           \* the operation
    at,           \* at[m]: the inode at output name m; the file of m is inode m
    quarantine,   \* quarantine[m]: the inode at the quarantine name of m
    elsewhere,    \* inodes under further names of the same directory
    staging,      \* what the staging name refers to
    final,        \* what the name of the set refers to
    good,         \* good[m]: the content of m's file is what was written
    meta,         \* meta[m]: CommittedPublicationV0.metadata against the inode
    durable,      \* files whose directory was synced after the link
    pc, cur,      \* control: the next step, the member being committed
    check,        \* the member a revalidation loop has reached
    round,        \* proofs of the staging directory so far
    linked,       \* the committed publications
    doubts,       \* failed checks of the present member or pair
    err,          \* the error that ended the forward part
    uncertain,    \* rollback_failed
    result,
    changes,      \* steps other processes have taken
    placed,       \* their inodes that are somewhere
    whole         \* history: the complete output was there at some moment

names == <<at, quarantine, elsewhere, staging, final>>
inodes == <<good, meta, durable>>
local == <<cur, check, round, linked, doubts, err, uncertain>>
others == <<changes, placed>>
publicationVars == <<op, names, inodes, pc, local, result, others, whole>>

Identity == "OutputIdentityUncertain"
Integrity == "OutputIntegrityUncertain"
Durability == "DurabilityUncertain"
RollbackUncertain == "OutputRollbackUncertain"

Last == IF op = "single" THEN 1 ELSE NMembers
Active == 1 .. Last

Links(m) == Cardinality({n \in Active : at[n] = m})
              + Cardinality({n \in Active : quarantine[n] = m})
              + Cardinality(elsewhere \cap {m})

PublicationInit ==
    /\ op \in Ops
    /\ at = [m \in Members |-> Absent] /\ quarantine = [m \in Members |-> Absent]
    /\ elsewhere = {} /\ staging = Absent /\ final = Absent
    /\ good = [m \in Members |-> TRUE] /\ meta = [m \in Members |-> "none"]
    /\ durable = {} /\ linked = {} /\ doubts = {}
    /\ pc = IF op = "directory" THEN "preflight_set" ELSE "prepare"
    /\ cur = 1 /\ check = 1 /\ round = 1
    /\ err = "none" /\ uncertain = FALSE /\ result = "none"
    /\ changes = 0 /\ placed = {} /\ whole = FALSE

-----------------------------------------------------------------------------
(* Ways on. *)

Goto(next) == pc' = next /\ UNCHANGED result
Return(outcome) == pc' = "done" /\ result' = outcome

(* An error ends the forward part.  A set is rolled back, a staging        *)
(* directory is cleaned up, a pair keeps what is linked and checks it      *)
(* again, anything else is returned as it is.                              *)
Abort(code) ==
    /\ err' = code /\ check' = 1
    /\ CASE op = "set" -> Goto("rollback")
         [] op = "directory" -> Goto("cleanup")
         [] op = "pair" /\ linked # {} -> Goto("pair")
         [] OTHER -> Return(code)

Proceed(next) == Goto(next) /\ UNCHANGED <<err, check>>

(* preflight_final, classify_incumbent: what an occupied name is called.   *)
Classify(m) == IF at[m] \in linked THEN "CrossOutputAlias" ELSE "OutputExists"

-----------------------------------------------------------------------------
(* prepare_with_hooks, prepare_relative: the parent is walked and pinned,  *)
(* and the final name must be free.  Parents, names and inputs that are    *)
(* refused are the last case.                                              *)

Prepare ==
    /\ pc = "prepare"
    /\ \/ /\ at[cur] = Absent
          /\ IF cur = Last THEN cur' = 1 /\ Proceed("preflight")
                           ELSE cur' = cur + 1 /\ Proceed("prepare")
       \/ at[cur] # Absent /\ Abort(Classify(cur)) /\ UNCHANGED cur
       \/ Abort("OutputPublish") /\ UNCHANGED cur
    /\ UNCHANGED <<names, inodes, round, linked, doubts, uncertain, others>>

(* commit_with_hooks up to the link: preflight, anonymous file, write,     *)
(* verification, syncs, preflight again.                                   *)
Preflight(here, next) ==
    /\ pc = here
    /\ \/ at[cur] = Absent /\ Proceed(next)
       \/ at[cur] # Absent /\ Abort(Classify(cur))
       \/ Abort("OutputPublish")
    /\ UNCHANGED <<names, inodes, cur, round, linked, doubts, uncertain, others>>

WriteTemporary ==
    /\ pc = "temporary"
    /\ \/ Proceed("preflight_again") \/ Abort("OutputPublish")
    /\ UNCHANGED <<names, inodes, cur, round, linked, doubts, uncertain, others>>

(* verify_held and verify_final_identity against the recorded metadata. *)
IntegrityHolds(m) == good[m] /\ Links(m) = 1 /\ meta[m] = "same"
IdentityHolds(m) == at[m] = m /\ Links(m) = 1 /\ meta[m] # "changed"

(* revalidate_committed *)
Revalidate(m) ==
    IF ~IdentityHolds(m) THEN Identity
    ELSE IF ~IntegrityHolds(m) THEN Integrity ELSE "none"

(* The checks may also fail for reasons of their own (I/O, resources).     *)
Revalidations(m) ==
    IF Revalidate(m) = Identity THEN {Identity} ELSE {Revalidate(m), Identity, Integrity}

(* One round of a revalidation loop that ends at the first failure. *)
RevalidateNext(here) ==
    \E found \in Revalidations(check) :
       \/ found = "none" /\ check' = check + 1 /\ Goto(here) /\ UNCHANGED err
       \/ found # "none" /\ Abort(found)

(* The guard of a commit: a set and a pair revalidate what they have       *)
(* linked before, a set its inputs too, and first.                         *)
Guard ==
    /\ pc = "guard"
    /\ \/ op = "set" /\ check = 1 /\ Abort("InputChanged")
       \/ op \in {"set", "pair"} /\ check < cur /\ RevalidateNext("guard")
       \/ /\ op \in {"single", "directory"} \/ check = cur
          /\ check' = 1 /\ Goto("link") /\ UNCHANGED err
    /\ UNCHANGED <<names, inodes, cur, round, linked, doubts, uncertain, others>>

(* linkat fails on an existing name: nothing is ever replaced. *)
Link ==
    /\ pc = "link"
    /\ \/ /\ at[cur] = Absent /\ at' = [at EXCEPT ![cur] = cur]
          /\ linked' = linked \cup {cur} /\ Proceed("stat")
       \/ /\ at[cur] # Absent /\ UNCHANGED <<at, linked>> /\ Abort(Classify(cur))
       \/ UNCHANGED <<at, linked>> /\ Abort("OutputPublish")
    /\ UNCHANGED <<quarantine, elsewhere, staging, final, inodes, cur, round,
                   doubts, uncertain, others>>

(* fstat of the linked file; its failure leaves no metadata. *)
RecordMetadata ==
    /\ pc = "stat" /\ Proceed("sync") /\ doubts' = {}
    /\ \/ meta' = [meta EXCEPT ![cur] = "same"] \/ UNCHANGED meta
    /\ UNCHANGED <<names, good, durable, cur, round, linked, uncertain, others>>

-----------------------------------------------------------------------------
(* postlink_checks: all of them are made, and the worst one is reported.   *)

SourceAndSync ==
    /\ pc = "sync" /\ Proceed("integrity")
    /\ \E failed \in SUBSET {Identity, Durability} :
          /\ doubts' = doubts \cup failed
          /\ durable' = IF Durability \in failed THEN durable ELSE durable \cup {cur}
    /\ UNCHANGED <<names, good, meta, cur, round, linked, uncertain, others>>

HeldIntegrity ==
    /\ pc = "integrity" /\ Proceed("identity")
    /\ \/ IntegrityHolds(cur) /\ UNCHANGED doubts
       \/ doubts' = doubts \cup {Integrity}
    /\ UNCHANGED <<names, inodes, cur, round, linked, uncertain, others>>

Worst(found) == IF Identity \in found THEN Identity
                ELSE IF Integrity \in found THEN Integrity ELSE Durability

(* The identity check compares with the metadata of the integrity check    *)
(* where that succeeded.                                                   *)
NameIsFinal(m) ==
    /\ at[m] = m /\ Links(m) = 1
    /\ Integrity \in doubts \/ IntegrityHolds(m)

CommitDone ==
    /\ UNCHANGED cur
    /\ CASE op = "single" -> Return("Ok") /\ UNCHANGED <<err, check>>
         [] op = "pair" -> Goto("pair") /\ check' = 1 /\ UNCHANGED err
         [] OTHER -> Proceed("late")

CommitEnds(found) ==
    /\ UNCHANGED linked
    /\ \/ found # {} /\ Abort(Worst(found)) /\ UNCHANGED cur
       \/ found = {} /\ cur < Last /\ cur' = cur + 1 /\ Proceed("preflight")
       \/ found = {} /\ cur = Last /\ CommitDone

FinalIdentity ==
    /\ pc = "identity"
    /\ \/ NameIsFinal(cur) /\ CommitEnds(doubts)
       \/ CommitEnds(doubts \cup {Identity})
    /\ doubts' = {}
    /\ UNCHANGED <<names, inodes, round, uncertain, others>>

-----------------------------------------------------------------------------
(* The end of a set: the late verifier and the inputs, then every file     *)
(* once more.  A directory goes on to its staging directory.               *)

LateVerifier ==
    /\ pc = "late"
    /\ \/ Goto("final") /\ check' = 1 /\ UNCHANGED err
       \/ Abort("InputChanged")
    /\ UNCHANGED <<names, inodes, cur, round, linked, doubts, uncertain, others>>

(* Variant: the files are not looked at again after the last commit. *)
FinalCheckNone ==
    /\ pc = "final"
    /\ \/ op = "set" /\ Return("Ok") /\ UNCHANGED <<err, check>>
       \/ op = "directory" /\ Proceed("staging_name")
    /\ UNCHANGED <<names, inodes, cur, round, linked, doubts, uncertain, others>>

FinalCheck ==
    /\ pc = "final"
    /\ \/ check \in Active /\ RevalidateNext("final")
       \/ check > Last /\ op = "set" /\ Return("Ok") /\ UNCHANGED <<err, check>>
       \/ check > Last /\ op = "directory" /\ Proceed("staging_name")
    /\ UNCHANGED <<names, inodes, cur, round, linked, doubts, uncertain, others>>

(* The end of a pair: what is linked is checked once more, and the worst   *)
(* of the errors is returned; an alias between the two stays an alias.     *)
PairCheck ==
    /\ pc = "pair" /\ check \in linked
    /\ \E found \in Revalidations(check) : doubts' = doubts \cup ({found} \ {"none"})
    /\ check' = check + 1 /\ Goto("pair")
    /\ UNCHANGED <<names, inodes, cur, round, linked, err, uncertain, others>>

RankErrors ==
    IF err = "CrossOutputAlias" THEN err
    ELSE IF doubts \cup {err} \in SUBSET {"none"} THEN "Ok"
    ELSE IF (doubts \cup {err}) \cap {Identity, Integrity, Durability} # {}
         THEN Worst(doubts \cup {err}) ELSE err

PairEnds ==
    /\ pc = "pair" /\ check \notin linked /\ Return(RankErrors)
    /\ UNCHANGED <<names, inodes, local, others>>

-----------------------------------------------------------------------------
(* publish_directory_set and finalize_staging *)

PreflightSet ==
    /\ pc = "preflight_set"
    /\ \/ final = Absent /\ Goto("mkdir")
       \/ final # Absent /\ Return("OutputExists")
       \/ Return("OutputPublish")
    /\ UNCHANGED <<names, inodes, local, others>>

(* The staging directory is created and opened; if it cannot be opened, it *)
(* stays where it is.                                                      *)
CreateStaging ==
    /\ pc = "mkdir"
    /\ \/ staging' = OwnDir /\ Goto("prepare")
       \/ staging' \in {Absent, OwnDir} /\ Return("OutputPublish")
    /\ UNCHANGED <<at, quarantine, elsewhere, final, inodes, local, others>>

StagingName ==
    /\ pc = "staging_name"
    /\ \/ staging = OwnDir /\ Proceed("inventory")
       \/ Abort(Identity)
    /\ UNCHANGED <<names, inodes, cur, round, linked, doubts, uncertain, others>>

InventoryExact == elsewhere = {} /\ \A m \in Active :
                      at[m] # Absent /\ quarantine[m] = Absent

StagingInventory ==
    /\ pc = "inventory"
    /\ \/ InventoryExact /\ Goto("members") /\ check' = 1 /\ UNCHANGED err
       \/ Abort(Identity)
    /\ UNCHANGED <<names, inodes, cur, round, linked, doubts, uncertain, others>>

StagingMembers ==
    /\ pc = "members"
    /\ \/ check \in Active /\ RevalidateNext("members")
       \/ check > Last /\ Proceed("final_name")
    /\ UNCHANGED <<names, inodes, cur, round, linked, doubts, uncertain, others>>

(* Inputs and final name; between the proofs the directories are synced.   *)
FinalName ==
    /\ pc = "final_name"
    /\ \/ /\ final = Absent
          /\ IF round < Rounds THEN round' = round + 1 /\ Proceed("staging_name")
                               ELSE UNCHANGED round /\ Proceed("rename")
       \/ final # Absent /\ Abort("OutputExists") /\ UNCHANGED round
       \/ \E code \in {"InputChanged", "OutputPublish"} : Abort(code) /\ UNCHANGED round
    /\ UNCHANGED <<names, inodes, cur, linked, doubts, uncertain, others>>

(* renameat2 with RENAME_NOREPLACE moves whatever the staging name is.  *)
RenameSet ==
    /\ pc = "rename"
    /\ \/ /\ staging # Absent /\ final = Absent
          /\ final' = staging /\ staging' = Absent
          /\ Return("Ok") /\ UNCHANGED <<err, check>>
       \/ /\ final # Absent /\ UNCHANGED <<staging, final>> /\ Abort("OutputExists")
       \/ UNCHANGED <<staging, final>> /\ Abort("OutputPublish")
    /\ UNCHANGED <<at, quarantine, elsewhere, inodes, cur, round, linked, doubts,
                   uncertain, others>>

-----------------------------------------------------------------------------
(* rollback_after_error and cleanup_staging.  A set goes through its files *)
(* in reverse and carries on after a failure; a staging directory goes     *)
(* forward and gives up.                                                   *)

Target == IF op = "set" THEN Max(linked) ELSE Min(linked)
Loop == IF op = "set" THEN "rollback" ELSE "cleanup_member"

GiveUp ==
    IF op = "set"
    THEN uncertain' = TRUE /\ linked' = linked \ {Target} /\ Goto(Loop)
    ELSE Return(RollbackUncertain) /\ UNCHANGED <<uncertain, linked>>

RollbackEnds ==
    /\ pc = "rollback" /\ linked = {}
    /\ Return(IF uncertain THEN RollbackUncertain ELSE err)
    /\ UNCHANGED <<names, inodes, local, others>>

CleanupName ==
    /\ pc = "cleanup"
    /\ \/ staging = OwnDir /\ Goto("cleanup_member")
       \/ Return(RollbackUncertain)
    /\ UNCHANGED <<names, inodes, local, others>>

StillOurs(m) == IF op = "set" THEN IdentityHolds(m) ELSE Revalidate(m) = "none"

RollbackVerify ==
    /\ pc = Loop /\ linked # {}
    /\ \/ StillOurs(Target) /\ Goto("quarantine") /\ UNCHANGED <<uncertain, linked>>
       \/ GiveUp
    /\ UNCHANGED <<names, inodes, cur, check, round, doubts, err, others>>

(* The rename takes whatever the name refers to by then. *)
Quarantine ==
    /\ pc = "quarantine"
    /\ \/ /\ at[Target] # Absent
          /\ quarantine' = [quarantine EXCEPT ![Target] = at[Target]]
          /\ at' = [at EXCEPT ![Target] = Absent]
          /\ meta' = [m \in Members |-> IF m = at[Target] THEN "changed" ELSE meta[m]]
          /\ Goto("inspect") /\ UNCHANGED <<uncertain, linked>>
       \/ GiveUp /\ UNCHANGED <<at, quarantine, meta>>
    /\ UNCHANGED <<elsewhere, staging, final, good, durable, cur, check, round,
                   doubts, err, others>>

(* Variant: what was moved is removed whoever it belongs to. *)
InspectTrusting ==
    /\ pc = "inspect" /\ Goto("unlink") /\ UNCHANGED <<uncertain, linked>>
    /\ UNCHANGED <<names, inodes, cur, check, round, doubts, err, others>>

Inspect ==
    /\ pc = "inspect"
    /\ \/ /\ quarantine[Target] = Target /\ Links(Target) = 1 /\ good[Target]
          /\ Goto("unlink") /\ UNCHANGED <<uncertain, linked>>
       \/ GiveUp
    /\ UNCHANGED <<names, inodes, cur, check, round, doubts, err, others>>

(* unlinkat, and for a set the sync of the parent; either may fail.        *)
Unlink ==
    /\ pc = "unlink"
    /\ \/ quarantine' = [quarantine EXCEPT ![Target] = Absent]
          /\ linked' = linked \ {Target} /\ Goto(Loop) /\ UNCHANGED uncertain
       \/ UNCHANGED quarantine /\ GiveUp
       \/ op = "set" /\ quarantine' = [quarantine EXCEPT ![Target] = Absent] /\ GiveUp
    /\ UNCHANGED <<at, elsewhere, staging, final, inodes, cur, check, round,
                   doubts, err, others>>

Empty == elsewhere = {} /\ \A m \in Active : at[m] = Absent /\ quarantine[m] = Absent

RemoveStaging ==
    /\ pc = "cleanup_member" /\ linked = {}
    /\ \/ Empty /\ staging = OwnDir /\ staging' = Absent /\ Return(err)
       \/ /\ staging' \in IF Empty /\ staging = OwnDir THEN {OwnDir, Absent}
                          ELSE {staging}
          /\ Return(RollbackUncertain)
    /\ UNCHANGED <<at, quarantine, elsewhere, final, inodes, local, others>>

-----------------------------------------------------------------------------
(* Other processes of the same user (external).  Files of a directory set  *)
(* can be reached once its staging directory exists.                       *)

Reachable == op = "directory" => pc \notin {"preflight_set", "mkdir"}
New(f) == f \in Foreign \ placed /\ placed' = placed \cup {f}
Moves(m) == meta' = [meta EXCEPT ![m] = IF @ = "same" THEN "changed" ELSE @]

Occupy(m, f) ==
    /\ at[m] \in {Absent, m} /\ New(f) /\ at' = [at EXCEPT ![m] = f]
    /\ UNCHANGED <<elsewhere, staging, final, good, meta>>

Carry(m) ==
    /\ at[m] = m /\ at' = [at EXCEPT ![m] = Absent]
    /\ elsewhere' = elsewhere \cup {m} /\ Moves(m)
    /\ UNCHANGED <<staging, final, good, placed>>

CarryTo(m, n) ==
    /\ m \in elsewhere /\ at[n] = Absent /\ at' = [at EXCEPT ![n] = m]
    /\ elsewhere' = elsewhere \ {m} /\ Moves(m)
    /\ UNCHANGED <<staging, final, good, placed>>

Write(m) ==
    /\ Links(m) > 0 /\ Moves(m)
    /\ \E intact \in BOOLEAN : good' = [good EXCEPT ![m] = intact]
    /\ UNCHANGED <<at, elsewhere, staging, final, placed>>

AddEntry(f) ==
    /\ op = "directory" /\ New(f) /\ elsewhere' = elsewhere \cup {f}
    /\ UNCHANGED <<at, staging, final, good, meta>>

DropEntry(f) ==
    /\ f \in elsewhere /\ elsewhere' = elsewhere \ {f} /\ placed' = placed \ {f}
    /\ UNCHANGED <<at, staging, final, good, meta>>

TakeName(f) ==
    /\ op = "directory" /\ New(f)
    /\ \/ final = Absent /\ final' = f /\ UNCHANGED staging
       \/ staging = OwnDir /\ staging' = f /\ UNCHANGED final
    /\ UNCHANGED <<at, elsewhere, good, meta>>

Interfere ==
    /\ result = "none" /\ Reachable /\ changes < MaxChanges /\ changes' = changes + 1
    /\ \/ \E m \in Active : Carry(m) \/ Write(m) \/ \E n \in Active : CarryTo(m, n)
       \/ \E f \in Foreign : \/ AddEntry(f) \/ DropEntry(f) \/ TakeName(f)
                             \/ \E m \in Active : Occupy(m, f)
    /\ UNCHANGED <<quarantine, durable, pc, local, result>>

-----------------------------------------------------------------------------
Publish ==
    \/ Prepare \/ Preflight("preflight", "temporary") \/ WriteTemporary
    \/ Preflight("preflight_again", "guard") \/ Guard \/ Link \/ RecordMetadata
    \/ SourceAndSync \/ HeldIntegrity \/ FinalIdentity
    \/ LateVerifier \/ FinalCheck \/ PairCheck \/ PairEnds
PublishDirectory ==
    \/ PreflightSet \/ CreateStaging \/ StagingName \/ StagingInventory
    \/ StagingMembers \/ FinalName \/ RenameSet
Rollback ==
    \/ RollbackVerify \/ Quarantine \/ Inspect \/ Unlink
    \/ RollbackEnds \/ CleanupName \/ RemoveStaging

Whole == /\ \A m \in Active : at[m] = m /\ good[m] /\ Links(m) = 1
         /\ op = "directory" => InventoryExact

PublicationNext ==
    \/ /\ Publish \/ PublishDirectory \/ Rollback \/ Interfere
       /\ UNCHANGED op /\ whole' = (whole \/ Whole')
    \/ result # "none" /\ UNCHANGED publicationVars

PublicationSpec == PublicationInit /\ [][PublicationNext]_publicationVars

-----------------------------------------------------------------------------
(* Properties. *)

(* Type correctness of a publication: the directory entries it deals with, *)
(* its committed files and the progress of publish and its rollback.       *)
PublicationTypeOK ==
    /\ op \in Ops
    /\ at \in [Members -> Members \cup Foreign \cup {Absent}]
    /\ quarantine \in [Members -> Members \cup Foreign \cup {Absent}]
    /\ elsewhere \subseteq Members \cup Foreign
    /\ staging \in Foreign \cup {Absent, OwnDir}
    /\ final \in Foreign \cup {Absent, OwnDir}
    /\ good \in [Members -> BOOLEAN] /\ durable \subseteq Members
    /\ meta \in [Members -> {"none", "same", "changed"}]
    /\ cur \in Active /\ check \in 1 .. Last + 1 /\ round \in 1 .. Rounds
    /\ linked \subseteq Active /\ doubts \subseteq {Identity, Integrity, Durability}
    /\ uncertain \in BOOLEAN /\ whole \in BOOLEAN
    /\ changes \in 0 .. MaxChanges /\ placed \subseteq Foreign

(* No file of another process is ever removed or overwritten: links and    *)
(* renames replace nothing, and a rollback that finds a stranger at one of *)
(* its names moves it at most.                                             *)
NothingForeignIsLost ==
    placed \subseteq {at[m] : m \in Members} \cup {quarantine[m] : m \in Members}
                       \cup elsewhere \cup {staging, final}

(* Success tells the truth about a moment: although the files are checked  *)
(* one after the other while others may write to them, there was one       *)
(* moment at which all of them were there, intact, under their names, and  *)
(* each had been made durable.                                             *)
OkWasWhole == result = "Ok" => whole /\ Active \subseteq durable

(* An error tells the truth about what is left: a set or a directory that  *)
(* fails without reporting an uncertain rollback has left none of its      *)
(* files under any name; a single file or the public file of a pair that   *)
(* fails before its commit point has never appeared.                       *)
ErrorLeavesNothing ==
    /\ op \in {"set", "directory"} /\ result \notin {"none", "Ok", RollbackUncertain}
         => \A m \in Active : Links(m) = 0
    /\ op \in {"single", "pair"}
         /\ result \notin {"none", "Ok", Identity, Integrity, Durability}
         => Links(Last) = 0

(* The answer of a publication is true at a moment of the call: Ok of one  *)
(* at which everything was there, whole and durable, an error of one at    *)
(* which nothing was left, or it says that the rollback is uncertain.      *)
ResultTellsTheTruth == PublicationTypeOK /\ OkWasWhole /\ ErrorLeavesNothing
=============================================================================

-------------------------- MODULE PublicationProofs --------------------------
(***************************************************************************)
(* Proofs about the publication of output files, for any number of files,  *)
(* of other processes' inodes and of steps that other processes take.      *)
(***************************************************************************)
EXTENDS Publication, TLAPS, FiniteSetTheorems, NaturalsInduction, WellFoundedInduction

-----------------------------------------------------------------------------
(* The inductive invariant.  The phases of a call:                         *)

Starting == {"preflight_set", "mkdir", "prepare"}
Committing == {"preflight", "temporary", "preflight_again", "guard", "link"}
Linking == {"stat", "sync", "integrity", "identity"}
Proving == {"staging_name", "inventory", "members", "final_name", "rename"}
Closing == {"late", "final"} \cup Proving
Forward == Starting \cup Committing \cup Linking \cup Closing
Removing == {"quarantine", "inspect", "unlink"}
Undoing == {"rollback", "cleanup", "cleanup_member"} \cup Removing
Doubts == {Identity, Integrity, Durability}

(* Where the file of m is: under no name, under its own name only, under   *)
(* its quarantine name only.                                               *)
Nowhere(m) == m \notin elsewhere /\ \A n \in Active : at[n] # m /\ quarantine[n] # m
AtHome(m) ==
    m \notin elsewhere /\ \A n \in Active : (at[n] = m <=> n = m) /\ quarantine[n] # m
Aside(m) ==
    m \notin elsewhere /\ \A n \in Active : at[n] # m /\ (quarantine[n] = m <=> n = m)

(* A committed file is as it was committed, or has been spoiled for good:  *)
(* no later check of it can succeed.                                       *)
Intact(m) == AtHome(m) /\ good[m] /\ meta[m] = "same"
Spoiled(m) == Nowhere(m) \/ meta[m] # "same"

(* A pair whose two files are both committed without an error.             *)
PairIsUp == pc = "pair" /\ err = "none"

(* The files that have passed the checks of their commit.                  *)
Committed ==
    IF pc \in Closing \/ PairIsUp THEN Active
    ELSE IF pc \in Committing \cup Linking THEN 1 .. cur - 1 ELSE {}

(* What each phase knows of the operation, the error and the links.        *)
PhaseInv ==
    /\ pc \in Forward \cup Undoing \cup {"pair", "done"}
    /\ result # "none" => pc = "done"
    /\ pc \in {"preflight_set", "mkdir"} \cup Proving => op = "directory"
    /\ pc \in Closing \cup Undoing => op \in {"set", "directory"}
    /\ pc \in {"cleanup", "cleanup_member"} => op = "directory"
    /\ pc = "pair" => op = "pair"
    /\ pc \in Undoing \cup {"pair"} => err # "Ok"
    /\ op # "set" => ~uncertain
    /\ pc \in Forward => err = "none"
    /\ pc = "pair" /\ Last \in linked => err \in Doubts \cup {"none"}
    /\ pc \in {"preflight_set", "mkdir"} => staging = Absent

LinkInv ==
    /\ pc \in Starting => linked = {}
    /\ pc \in Committing => linked = 1 .. cur - 1
    /\ pc \in Linking => linked = 1 .. cur
    /\ pc \in Closing \/ PairIsUp => linked = Active
    /\ pc \in Removing => linked # {}

(* Commits hold until somebody spoils them.                                *)
CommitInv ==
    /\ \A m \in Committed : m \in durable /\ (Intact(m) \/ Spoiled(m))
    /\ pc \in {"integrity", "identity"} => Durability \in doubts \/ cur \in durable

(* While the files are checked once more, one after the other: either all  *)
(* of them were whole at one moment, or one that is still to be checked is *)
(* spoiled.                                                                *)
WholeInv ==
    /\ (pc = "final" /\ op = "set") \/ pc = "members" \/ (PairIsUp /\ doubts = {})
         => whole \/ \E m \in Active : m >= check /\ Spoiled(m)
    /\ pc \in {"final_name", "rename"} => whole

(* A file that is not in the list of committed publications has no name,   *)
(* unless a rollback has given it up.                                      *)
TraceInv == ~uncertain => \A m \in Active \ linked : Nowhere(m)

(* A quarantine name is used once, and what is unlinked there is our file. *)
QuarantineInv ==
    /\ pc \in Forward \cup {"pair"} => \A m \in Members : quarantine[m] = Absent
    /\ pc \in Undoing => \A m \in linked :
          quarantine[m] = Absent \/ (pc \in {"inspect", "unlink"} /\ m = Target)
    /\ pc = "unlink" => Aside(Target)

ResultInv ==
    /\ result = "Ok" => whole /\ Active \subseteq durable
    /\ op \in {"set", "directory"} /\ result \notin {"none", "Ok", RollbackUncertain}
         => linked = {} /\ ~uncertain
    /\ op \in {"single", "pair"} /\ result \notin {"none", "Ok"} \cup Doubts
         => Last \notin linked

PublicationInv ==
    /\ PublicationTypeOK /\ PhaseInv /\ LinkInv /\ CommitInv /\ WholeInv
    /\ TraceInv /\ QuarantineInv /\ ResultInv /\ NothingForeignIsLost

-----------------------------------------------------------------------------
(* Members, links and targets.                                             *)

LEMMA ActiveFacts ==
    ASSUME PublicationTypeOK
    PROVE  /\ Last \in Nat \ {0} /\ NMembers \in Nat \ {0} /\ Active = 1 .. Last
           /\ Active \subseteq Members /\ op \in {"single", "pair", "set", "directory"}
           /\ \A m \in Members : m \in Nat \ {0} /\ m \notin Foreign /\ m # Absent
BY PublicationAssumption DEF PublicationTypeOK, Last, Active, Members

(* The greatest and the least element of a set of members.                 *)
LEMMA MaxIsMember ==
    ASSUME NEW N \in Nat, NEW S \in SUBSET (1 .. N), S # {}
    PROVE  Max(S) \in S
<1> DEFINE bounds == {b \in Nat : \A x \in S : x <= b}
<1>1. N \in bounds /\ bounds \subseteq Nat /\ bounds # {}
  OBVIOUS
<1>2. PICK b \in bounds : \A c \in bounds : ~(<<c, b>> \in OpToRel(<, Nat))
  BY <1>1, WFMin, NatLessThanWellFounded
<1>3. \A c \in bounds : ~(c < b)
  BY <1>1, <1>2 DEF OpToRel
<1>4. b \in S
  <2> SUFFICES ASSUME b \notin S PROVE FALSE
    OBVIOUS
  <2>1. \A x \in S : x <= b /\ x # b /\ x \in 1 .. N
    OBVIOUS
  <2>2. b \in Nat /\ b > 0
    <3>1. PICK x \in S : x \in 1 .. N
      OBVIOUS
    <3>2. b \in Nat /\ x <= b /\ x >= 1
      BY <3>1, <2>1
    <3>3. QED
      BY <3>1, <3>2
  <2>3. b - 1 \in bounds
    BY <2>1, <2>2
  <2>4. QED
    BY <2>2, <2>3, <1>3
<1>5. \E x \in S : \A y \in S : x >= y
  BY <1>4
<1>6. QED
  BY <1>5 DEF Max

LEMMA MinIsMember ==
    ASSUME NEW N \in Nat, NEW S \in SUBSET (1 .. N), S # {}
    PROVE  Min(S) \in S
<1>1. S \subseteq Nat
  OBVIOUS
<1>2. PICK b \in S : \A c \in S : ~(<<c, b>> \in OpToRel(<, Nat))
  BY <1>1, WFMin, NatLessThanWellFounded
<1>3. \A c \in S : ~(c < b)
  BY <1>1, <1>2 DEF OpToRel
<1>4. \E x \in S : \A y \in S : x <= y
  BY <1>1, <1>3
<1>5. QED
  BY <1>4 DEF Min

LEMMA TargetIsLinked ==
    ASSUME PublicationTypeOK, linked # {}
    PROVE  Target \in linked /\ Target \in Active /\ Target \in Members
<1>1. linked \in SUBSET (1 .. Last) /\ Last \in Nat
  BY ActiveFacts DEF PublicationTypeOK
<1>2. Max(linked) \in linked /\ Min(linked) \in linked
  BY <1>1, MaxIsMember, MinIsMember
<1>3. QED
  BY <1>2, ActiveFacts DEF Target, PublicationTypeOK

(* Links counts the names of a file.                                       *)
LEMMA LinksCount ==
    ASSUME PublicationTypeOK, NEW m \in Active
    PROVE  /\ Links(m) \in Nat
           /\ Links(m) = 0 <=> Nowhere(m)
           /\ at[m] = m /\ Links(m) = 1 <=> AtHome(m)
           /\ quarantine[m] = m /\ Links(m) = 1 <=> Aside(m)
<1> DEFINE A == {n \in Active : at[n] = m}
<1> DEFINE Q == {n \in Active : quarantine[n] = m}
<1> DEFINE E == elsewhere \cap {m}
<1>1. IsFiniteSet(Active)
  BY FS_Interval, ActiveFacts
<1>2. IsFiniteSet(A) /\ IsFiniteSet(Q) /\ IsFiniteSet(E)
  <2>1. A \subseteq Active /\ Q \subseteq Active /\ E \subseteq {m}
    OBVIOUS
  <2>2. IsFiniteSet({m})
    BY FS_Singleton
  <2>3. QED
    BY <2>1, <2>2, <1>1, FS_Subset
<1>3. Cardinality(A) \in Nat /\ Cardinality(Q) \in Nat /\ Cardinality(E) \in Nat
  BY <1>2, FS_CardinalityType
<1>4. /\ Cardinality(A) = 0 <=> A = {}
      /\ Cardinality(Q) = 0 <=> Q = {}
      /\ Cardinality(E) = 0 <=> E = {}
  BY <1>2, FS_EmptySet
<1>5. /\ Cardinality(A) = 1 <=> \E x : A = {x}
      /\ Cardinality(Q) = 1 <=> \E x : Q = {x}
  BY <1>2, FS_Singleton
<1>6. Links(m) = Cardinality(A) + Cardinality(Q) + Cardinality(E)
  BY DEF Links
<1>7. Nowhere(m) <=> A = {} /\ Q = {} /\ E = {}
  BY DEF Nowhere
<1>8. AtHome(m) <=> A = {m} /\ Q = {} /\ E = {}
  BY DEF AtHome
<1>9. Aside(m) <=> A = {} /\ Q = {m} /\ E = {}
  BY DEF Aside
<1> HIDE DEF A, Q, E
<1>10. (at[m] = m <=> m \in A) /\ (quarantine[m] = m <=> m \in Q)
  BY DEF A, Q
<1>11. /\ m \in A /\ Links(m) = 1 => A = {m} /\ Q = {} /\ E = {}
       /\ m \in Q /\ Links(m) = 1 => A = {} /\ Q = {m} /\ E = {}
  BY <1>3, <1>4, <1>5, <1>6
<1>12. /\ A = {m} /\ Q = {} /\ E = {} => Links(m) = 1
       /\ A = {} /\ Q = {m} /\ E = {} => Links(m) = 1
  BY <1>3, <1>4, <1>5, <1>6
<1>13. Links(m) = 0 <=> A = {} /\ Q = {} /\ E = {}
  BY <1>3, <1>4, <1>6
<1>14. Links(m) \in Nat
  BY <1>3, <1>6
<1>15. at[m] = m /\ Links(m) = 1 <=> AtHome(m)
  BY <1>8, <1>10, <1>11, <1>12
<1>16. quarantine[m] = m /\ Links(m) = 1 <=> Aside(m)
  BY <1>9, <1>10, <1>11, <1>12
<1>17. QED
  BY <1>7, <1>13, <1>14, <1>15, <1>16

(* What the checks of a file establish, and what they exclude.             *)
LEMMA ChecksMean ==
    ASSUME PublicationTypeOK, NEW m \in Active
    PROVE  /\ IntegrityHolds(m) /\ IdentityHolds(m) => Intact(m) /\ ~Spoiled(m)
           /\ IntegrityHolds(m) /\ at[m] = m => Intact(m) /\ ~Spoiled(m)
           /\ IdentityHolds(m) => at[m] = m
<1>1. AtHome(m) => ~Nowhere(m)
  BY DEF AtHome, Nowhere
<1>2. QED
  BY <1>1, LinksCount DEF IntegrityHolds, IdentityHolds, Intact, Spoiled

-----------------------------------------------------------------------------
(* Steps of the call itself.  Every step keeps op and takes note of a      *)
(* moment at which the output is whole; a quiet one leaves all files as    *)
(* they are.                                                               *)

Noted == UNCHANGED op /\ whole' = (whole \/ Whole')
Quiet == UNCHANGED <<names, inodes, others>> /\ Noted

LEMMA QuietFacts ==
    ASSUME Quiet
    PROVE  /\ op' = op /\ Last' = Last /\ Active' = Active
           /\ at' = at /\ quarantine' = quarantine /\ elsewhere' = elsewhere
           /\ staging' = staging /\ final' = final
           /\ good' = good /\ meta' = meta /\ durable' = durable
           /\ changes' = changes /\ placed' = placed
           /\ \A m : /\ Nowhere(m)' <=> Nowhere(m)
                     /\ Aside(m)' <=> Aside(m)
                     /\ Intact(m)' <=> Intact(m)
                     /\ Spoiled(m)' <=> Spoiled(m)
           /\ linked' = linked => Target' = Target
           /\ NothingForeignIsLost' <=> NothingForeignIsLost
           /\ whole => whole'
           /\ Whole => whole'
           /\ whole' \in BOOLEAN
<1>1. /\ op' = op /\ Last' = Last /\ Active' = Active
      /\ at' = at /\ quarantine' = quarantine /\ elsewhere' = elsewhere
      /\ staging' = staging /\ final' = final
      /\ good' = good /\ meta' = meta /\ durable' = durable
      /\ changes' = changes /\ placed' = placed
  BY DEF Quiet, Noted, names, inodes, others, Last, Active
<1>2. \A m : /\ Nowhere(m)' <=> Nowhere(m)
             /\ Aside(m)' <=> Aside(m)
             /\ AtHome(m)' <=> AtHome(m)
  BY <1>1 DEF Nowhere, Aside, AtHome
<1>3. \A m : /\ Intact(m)' <=> Intact(m)
             /\ Spoiled(m)' <=> Spoiled(m)
  BY <1>1, <1>2 DEF Intact, Spoiled
<1>4. linked' = linked => Target' = Target
  BY <1>1 DEF Target
<1>5. NothingForeignIsLost' <=> NothingForeignIsLost
  BY <1>1 DEF NothingForeignIsLost
<1>6. \A m : Links(m)' = Links(m)
  BY <1>1 DEF Links
<1>7. InventoryExact' <=> InventoryExact
  BY <1>1 DEF InventoryExact
<1>8. Whole' <=> Whole
  BY <1>1, <1>6, <1>7 DEF Whole
<1>9. whole' = (whole \/ Whole')
  BY DEF Quiet, Noted
<1>10. whole' \in BOOLEAN
  BY <1>9
<1>11. (whole => whole') /\ (Whole => whole')
  BY <1>8, <1>9
<1>12. QED
  BY <1>1, <1>2, <1>3, <1>4, <1>5, <1>10, <1>11

(* The forward part ends with an error: for a single file and a pair one   *)
(* of the three doubts if the last file has been linked.                   *)
LEMMA AbortKeeps ==
    ASSUME PublicationInv, Quiet, pc \in Forward, NEW code, Abort(code),
           code \notin {"none", "Ok"},
           op \in {"single", "pair"} /\ Last \in linked => code \in Doubts,
           UNCHANGED <<cur, round, linked, uncertain>>, doubts' \subseteq Doubts
    PROVE  PublicationInv'
<1>1. PublicationTypeOK /\ PhaseInv /\ TraceInv /\ QuarantineInv /\ NothingForeignIsLost
  BY DEF PublicationInv
<1>2. /\ err' = code /\ check' = 1 /\ cur' = cur /\ round' = round
      /\ linked' = linked /\ uncertain' = uncertain
      /\ pc' \in {"rollback", "cleanup", "pair", "done"}
      /\ pc' = "rollback" => op = "set"
      /\ pc' = "cleanup" => op = "directory"
      /\ pc' = "pair" => op = "pair"
      /\ pc' = "done" => result' = code
      /\ pc' = "done" => op \in {"single", "pair"}
      /\ pc' # "done" => result' = result
      /\ pc' = "done" /\ op = "pair" => linked = {}
  BY <1>1, ActiveFacts DEF Abort, Goto, Return
<1>3. result = "none"
  BY <1>1 DEF PhaseInv, Forward, Starting, Committing, Linking, Closing, Proving
<1>4. ~PairIsUp'
  BY <1>2 DEF PairIsUp
<1>5. Committed' = {}
  BY <1>2, <1>4 DEF Committed, Closing, Proving, Committing, Linking
<1>6. PublicationTypeOK'
  BY <1>1, <1>2, QuietFacts, ActiveFacts DEF PublicationTypeOK, Doubts
<1>7. PhaseInv'
  BY <1>1, <1>2, <1>3, QuietFacts
     DEF PhaseInv, Forward, Starting, Committing, Linking, Closing, Proving, Undoing, Removing, Doubts
<1>8. LinkInv'
  BY <1>2, <1>4 DEF LinkInv, Starting, Committing, Linking, Closing, Proving, Removing
<1>9. CommitInv' /\ WholeInv'
  BY <1>2, <1>4, <1>5 DEF CommitInv, WholeInv
<1>10. TraceInv'
  BY <1>1, <1>2, QuietFacts DEF TraceInv
<1>11. QuarantineInv'
  <2>1. \A m \in Members : quarantine[m] = Absent
    BY <1>1 DEF QuarantineInv
  <2>2. linked \subseteq Members
    BY <1>1, ActiveFacts DEF PublicationTypeOK
  <2>3. QED
    BY <1>2, <2>1, <2>2, QuietFacts DEF QuarantineInv
<1>12. ResultInv'
  BY <1>2, <1>3, QuietFacts, ActiveFacts, <1>1 DEF ResultInv, Doubts, PublicationTypeOK
<1>13. NothingForeignIsLost'
  BY <1>1, QuietFacts
<1>14. QED
  BY <1>6, <1>7, <1>8, <1>9, <1>10, <1>11, <1>12, <1>13 DEF PublicationInv

(* A quiet step within the forward part.                                   *)
LEMMA ForwardKeeps ==
    ASSUME PublicationInv, Quiet, pc \in Forward, pc' \in Forward,
           UNCHANGED <<err, result, uncertain, linked>>,
           pc' \in {"preflight_set", "mkdir"} => op = "directory" /\ staging = Absent,
           pc' \in Proving => op = "directory",
           pc' \in Closing => op \in {"set", "directory"},
           PublicationTypeOK', LinkInv', CommitInv', WholeInv'
    PROVE  PublicationInv'
<1>1. PhaseInv /\ TraceInv /\ QuarantineInv /\ NothingForeignIsLost /\ ResultInv
  BY DEF PublicationInv
<1>2. pc' \notin Undoing \cup {"pair", "done"} /\ pc \notin Undoing \cup {"pair", "done"}
  BY DEF Forward, Starting, Committing, Linking, Closing, Proving, Undoing, Removing
<1>3. PhaseInv'
  BY <1>1, <1>2, QuietFacts DEF PhaseInv, Undoing
<1>4. TraceInv'
  BY <1>1, QuietFacts DEF TraceInv
<1>5. QuarantineInv'
  BY <1>1, <1>2, QuietFacts DEF QuarantineInv, Undoing, Removing
<1>6. ResultInv'
  BY <1>1, <1>2, QuietFacts DEF PhaseInv, ResultInv
<1>7. QED
  BY <1>1, <1>3, <1>4, <1>5, <1>6, QuietFacts DEF PublicationInv

(* A step of the commit of one file that changes none of the commits.      *)
LEMMA CommittingKeeps ==
    ASSUME PublicationInv, Quiet, pc \in Committing, pc' \in Committing,
           UNCHANGED <<err, result, uncertain, linked, cur, round, doubts>>,
           check' \in 1 .. Last + 1
    PROVE  PublicationInv'
<1>1. PublicationTypeOK /\ LinkInv /\ CommitInv
  BY DEF PublicationInv
<1>2. /\ pc' \notin Linking \cup Closing \cup Starting \cup Removing
      /\ pc \notin Linking \cup Closing \cup Starting \cup Removing
      /\ ~PairIsUp' /\ ~PairIsUp
  BY DEF Starting, Committing, Linking, Closing, Proving, Removing, PairIsUp
<1>3. PublicationTypeOK'
  BY <1>1, QuietFacts DEF PublicationTypeOK
<1>4. LinkInv'
  BY <1>1, <1>2 DEF LinkInv
<1>5. Committed' = Committed
  BY <1>2 DEF Committed
<1>6. CommitInv'
  BY <1>1, <1>2, <1>5, QuietFacts DEF CommitInv, Committing
<1>7. WholeInv'
  BY <1>2 DEF WholeInv, Committing
<1>8. pc \in Forward /\ pc' \in Forward
  BY DEF Forward
<1>9. pc' \notin {"preflight_set", "mkdir"} \cup Proving \cup Closing
  BY DEF Committing, Proving, Closing
<1>10. QED
  BY <1>3, <1>4, <1>6, <1>7, <1>8, <1>9, ForwardKeeps

(* Classify names an error.                                                *)
LEMMA ClassifyIsError == \A m : Classify(m) \notin {"none", "Ok"}
BY DEF Classify

LEMMA PrepareKeeps ==
    ASSUME PublicationInv, Prepare, Noted
    PROVE  PublicationInv'
<1>1. PublicationTypeOK /\ LinkInv /\ pc = "prepare" /\ linked = {}
  BY DEF PublicationInv, LinkInv, Prepare, Starting
<1>2. Quiet /\ pc \in Forward /\ UNCHANGED <<round, linked, doubts, uncertain>>
  BY <1>1 DEF Prepare, Quiet, Forward, Starting
<1>3. Last \notin linked /\ doubts \subseteq Doubts
  BY <1>1 DEF PublicationTypeOK, Doubts
<1>4. CASE \E code : Abort(code) /\ code \notin {"none", "Ok"} /\ UNCHANGED cur
  BY <1>2, <1>3, <1>4, AbortKeeps
<1>5. CASE IF cur = Last THEN cur' = 1 /\ Proceed("preflight")
                         ELSE cur' = cur + 1 /\ Proceed("prepare")
  <2>1. /\ UNCHANGED <<err, result, check>> /\ cur' \in Active
        /\ pc' = "prepare" \/ (pc' = "preflight" /\ cur' = 1)
    BY <1>1, <1>5, ActiveFacts DEF Proceed, Goto, PublicationTypeOK
  <2>2. PublicationTypeOK'
    BY <1>1, <1>2, <2>1, QuietFacts DEF PublicationTypeOK
  <2>3. /\ pc' \notin Linking \cup Closing \cup Removing
        /\ pc' \in Starting \/ pc' \in Committing
        /\ pc' \in Starting => pc' \notin Committing
        /\ ~PairIsUp'
        /\ pc' \notin {"preflight_set", "mkdir"} \cup Proving
    BY <2>1 DEF Starting, Committing, Linking, Closing, Proving, Removing, PairIsUp
  <2>4. 1 .. cur' - 1 = {} \/ pc' = "prepare"
    BY <2>1
  <2>5. LinkInv'
    BY <1>1, <1>2, <2>1, <2>3, <2>4 DEF LinkInv, Committing
  <2>6. Committed' = {}
    BY <2>1, <2>3, <2>4 DEF Committed, Committing
  <2>7. CommitInv'
    BY <2>1, <2>6 DEF CommitInv
  <2>8. WholeInv'
    BY <2>1, <2>3 DEF WholeInv
  <2>9. pc' \in Forward
    BY <2>3 DEF Forward
  <2>10. QED
    BY <1>2, <2>1, <2>2, <2>3, <2>5, <2>7, <2>8, <2>9, ForwardKeeps
<1>6. QED
  BY <1>4, <1>5, ClassifyIsError DEF Prepare

(* Before the link of a file its commit may fail with any error.           *)
LEMMA CommittingFacts ==
    ASSUME PublicationInv, pc \in Committing
    PROVE  /\ PublicationTypeOK /\ pc \in Forward /\ doubts \subseteq Doubts
           /\ linked = 1 .. cur - 1 /\ Last \notin linked /\ check \in 1 .. Last + 1
BY ActiveFacts DEF PublicationInv, LinkInv, PublicationTypeOK, Forward, Doubts

LEMMA PreflightKeeps ==
    ASSUME PublicationInv, Noted,
           \/ Preflight("preflight", "temporary")
           \/ WriteTemporary
           \/ Preflight("preflight_again", "guard")
    PROVE  PublicationInv'
<1>1. /\ Quiet /\ pc \in Committing
      /\ UNCHANGED <<cur, round, linked, doubts, uncertain>>
  BY DEF Preflight, WriteTemporary, Quiet, Committing
<1>2. \/ \E code : Abort(code) /\ code \notin {"none", "Ok"}
      \/ pc' \in Committing /\ UNCHANGED <<err, result, check>>
  BY ClassifyIsError DEF Preflight, WriteTemporary, Proceed, Goto, Committing
<1>3. CASE \E code : Abort(code) /\ code \notin {"none", "Ok"}
  BY <1>1, <1>3, CommittingFacts, AbortKeeps
<1>4. CASE pc' \in Committing /\ UNCHANGED <<err, result, check>>
  BY <1>1, <1>4, CommittingFacts, CommittingKeeps
<1>5. QED
  BY <1>2, <1>3, <1>4

(* A round of a revalidation: the file is intact and was not spoiled, or   *)
(* the loop ends with a doubt.                                             *)
LEMMA RevalidationMeans ==
    ASSUME PublicationTypeOK, NEW m \in Active, NEW found \in Revalidations(m)
    PROVE  /\ found \in {"none", Identity, Integrity}
           /\ found = "none" => Intact(m) /\ ~Spoiled(m)
<1>1. Revalidate(m) \in {"none", Identity, Integrity}
  BY DEF Revalidate
<1>2. Revalidate(m) = "none" => IdentityHolds(m) /\ IntegrityHolds(m)
  BY DEF Revalidate, Identity, Integrity
<1>3. Revalidate(m) = "none" => Intact(m) /\ ~Spoiled(m)
  BY <1>2, ChecksMean
<1>4. QED
  BY <1>1, <1>3 DEF Revalidations, Identity, Integrity

LEMMA GuardKeeps ==
    ASSUME PublicationInv, Guard, Noted
    PROVE  PublicationInv'
<1>1. /\ Quiet /\ pc \in Committing
      /\ UNCHANGED <<cur, round, linked, doubts, uncertain>>
  BY DEF Guard, Quiet, Committing
<1>2. /\ PublicationTypeOK /\ check \in 1 .. Last + 1 /\ cur \in Active
      /\ Active = 1 .. Last /\ Last \in Nat \ {0}
  BY <1>1, CommittingFacts, ActiveFacts DEF PublicationTypeOK
<1>3. CASE RevalidateNext("guard") /\ check < cur
  <2>1. check \in Active
    BY <1>2, <1>3
  <2>2. PICK found \in Revalidations(check) :
           \/ found = "none" /\ check' = check + 1 /\ Goto("guard") /\ UNCHANGED err
           \/ found # "none" /\ Abort(found)
    BY <1>3 DEF RevalidateNext
  <2>3. found \in {"none", Identity, Integrity}
    BY <1>2, <2>1, RevalidationMeans
  <2>4. CASE found = "none" /\ check' = check + 1 /\ Goto("guard") /\ UNCHANGED err
    <3>1. check' \in 1 .. Last + 1 /\ pc' \in Committing /\ UNCHANGED <<err, result>>
      BY <1>2, <2>1, <2>4 DEF Goto, Committing
    <3>2. QED
      BY <1>1, <3>1, CommittingKeeps
  <2>5. CASE found # "none" /\ Abort(found)
    BY <1>1, <2>3, <2>5, CommittingFacts, AbortKeeps DEF Identity, Integrity
  <2>6. QED
    BY <2>2, <2>4, <2>5
<1>4. CASE Abort("InputChanged")
  BY <1>1, <1>4, CommittingFacts, AbortKeeps
<1>5. CASE check' = 1 /\ Goto("link") /\ UNCHANGED err
  <2>1. check' \in 1 .. Last + 1 /\ pc' \in Committing /\ UNCHANGED <<err, result>>
    BY <1>2, <1>5 DEF Goto, Committing
  <2>2. QED
    BY <1>1, <2>1, CommittingKeeps
<1>6. QED
  BY <1>3, <1>4, <1>5 DEF Guard

(* The link of a file: no other file is touched, and nothing is replaced.  *)
LEMMA LinkKeeps ==
    ASSUME PublicationInv, Link, Noted
    PROVE  PublicationInv'
<1>1. /\ PublicationTypeOK /\ PhaseInv /\ LinkInv /\ CommitInv /\ TraceInv
      /\ QuarantineInv /\ ResultInv /\ NothingForeignIsLost
  BY DEF PublicationInv
<1>2. /\ pc = "link" /\ pc \in Committing
      /\ UNCHANGED <<quarantine, elsewhere, staging, final, good, meta, durable,
                     cur, round, doubts, uncertain, changes, placed, op>>
  BY DEF Link, Noted, Committing, inodes, others
<1>3. /\ linked = 1 .. cur - 1 /\ Last \notin linked /\ doubts \subseteq Doubts
      /\ pc \in Forward
  BY <1>2, CommittingFacts
<1>4. CASE UNCHANGED <<at, linked>> /\ \E code : Abort(code) /\ code \notin {"none", "Ok"}
  <2>1. Quiet
    BY <1>2, <1>4 DEF Quiet, names, inodes, others, Noted
  <2>2. QED
    BY <1>2, <1>3, <1>4, <2>1, AbortKeeps
<1>5. CASE /\ at[cur] = Absent /\ at' = [at EXCEPT ![cur] = cur]
           /\ linked' = linked \cup {cur} /\ Proceed("stat")
  <2>1. /\ pc' = "stat" /\ UNCHANGED <<result, err, check>> /\ Last' = Last /\ Active' = Active
    BY <1>2, <1>5 DEF Proceed, Goto, Last, Active
  <2>2. /\ cur \in Active /\ cur \in Members /\ Active \subseteq Members
        /\ Last \in Nat /\ Active = 1 .. Last
        /\ at \in [Members -> Members \cup Foreign \cup {Absent}]
    BY <1>1, ActiveFacts DEF PublicationTypeOK
  <2>3. /\ at' \in [Members -> Members \cup Foreign \cup {Absent}]
        /\ at'[cur] = cur /\ \A n \in Members \ {cur} : at'[n] = at[n]
    BY <1>5, <2>2
  <2>4. linked' = 1 .. cur /\ linked' \subseteq Active
    BY <1>3, <1>5, <2>2
  <2>5. PublicationTypeOK'
    <3>1. whole' \in BOOLEAN
      BY DEF Noted
    <3>2. QED
      BY <1>1, <1>2, <2>1, <2>3, <2>4, <3>1 DEF PublicationTypeOK
  <2>6. PhaseInv'
    BY <1>1, <1>2, <2>1 DEF PhaseInv, Forward, Starting, Committing, Linking, Closing, Proving,
                            Undoing, Removing
  <2>7. ~PairIsUp' /\ ~PairIsUp /\ pc' \in Linking /\ pc' \notin Starting \cup Committing \cup Closing \cup Removing
    BY <1>2, <2>1 DEF PairIsUp, Starting, Committing, Linking, Closing, Proving, Removing
  <2>8. LinkInv'
    BY <1>2, <2>4, <2>7 DEF LinkInv
  <2>9. \A m \in Active \ {cur} : /\ Nowhere(m) => Nowhere(m)'
                                  /\ AtHome(m) => AtHome(m)'
    BY <1>2, <2>1, <2>2, <2>3 DEF Nowhere, AtHome
  <2>10. \A m \in Active \ {cur} : /\ Intact(m) => Intact(m)'
                                   /\ Spoiled(m) => Spoiled(m)'
    BY <1>2, <2>9 DEF Intact, Spoiled
  <2>11. CommitInv'
    <3>1. Committed = 1 .. cur - 1 /\ Committed' = 1 .. cur - 1
      BY <1>2, <2>1, <2>7 DEF Committed, Committing, Linking, Closing, Proving
    <3>2. \A m \in 1 .. cur - 1 : m \in Active \ {cur}
      BY <2>2
    <3>3. QED
      BY <1>1, <1>2, <2>1, <2>10, <3>1, <3>2 DEF CommitInv
  <2>12. WholeInv'
    BY <2>1, <2>7 DEF WholeInv
  <2>13. TraceInv'
    BY <1>1, <1>2, <1>5, <2>1, <2>9 DEF TraceInv
  <2>14. QuarantineInv'
    BY <1>1, <1>2, <1>3, <2>1 DEF QuarantineInv, Undoing, Removing, Forward, Linking
  <2>15. ResultInv'
    BY <1>1, <1>2, <2>1 DEF ResultInv, PhaseInv
  <2>16. NothingForeignIsLost'
    <3>1. placed \subseteq Foreign /\ Absent \notin Foreign
      BY <1>1, PublicationAssumption DEF PublicationTypeOK
    <3>2. {at[m] : m \in Members} \ {Absent} \subseteq {at'[m] : m \in Members}
      BY <1>5, <2>2, <2>3
    <3>3. QED
      BY <1>1, <1>2, <3>1, <3>2 DEF NothingForeignIsLost
  <2>17. QED
    BY <2>5, <2>6, <2>8, <2>11, <2>12, <2>13, <2>14, <2>15, <2>16 DEF PublicationInv
<1>6. QED
  BY <1>4, <1>5, ClassifyIsError DEF Link

(* A step of the checks after the link, which may record the metadata and  *)
(* the sync of the present file.                                           *)
LEMMA LinkingKeeps ==
    ASSUME PublicationInv, Noted, pc \in Linking, pc' \in Linking,
           UNCHANGED <<names, good, others, cur, check, round, linked, err, uncertain, result>>,
           meta' \in [Members -> {"none", "same", "changed"}],
           \A m \in Members \ {cur} : meta'[m] = meta[m],
           durable \subseteq durable', durable' \subseteq Members, doubts' \subseteq Doubts,
           pc' \in {"integrity", "identity"} => Durability \in doubts' \/ cur \in durable'
    PROVE  PublicationInv'
<1>1. /\ PublicationTypeOK /\ PhaseInv /\ LinkInv /\ CommitInv /\ TraceInv
      /\ QuarantineInv /\ ResultInv /\ NothingForeignIsLost
  BY DEF PublicationInv
<1>2. /\ UNCHANGED <<at, quarantine, elsewhere, staging, final, changes, placed, op>>
      /\ Last' = Last /\ Active' = Active
  BY DEF names, others, Noted, Last, Active
<1>3. /\ ~PairIsUp' /\ ~PairIsUp
      /\ pc' \notin Starting \cup Committing \cup Closing \cup Removing \cup Undoing
      /\ pc \notin Starting \cup Committing \cup Closing \cup Removing
      /\ pc \in Forward /\ pc' \in Forward /\ pc \notin {"pair", "done"} /\ pc' \notin {"pair", "done"}
      /\ pc' \notin {"preflight_set", "mkdir"} \cup Proving
  BY DEF PairIsUp, Starting, Committing, Linking, Closing, Proving, Removing, Forward, Undoing
<1>4. PublicationTypeOK'
  <2>1. whole' \in BOOLEAN
    BY DEF Noted
  <2>2. QED
    BY <1>1, <1>2, <2>1 DEF PublicationTypeOK, Doubts
<1>5. PhaseInv'
  BY <1>1, <1>2, <1>3 DEF PhaseInv, Undoing
<1>6. LinkInv'
  BY <1>1, <1>3 DEF LinkInv
<1>7. CommitInv'
  <2>1. Committed = 1 .. cur - 1 /\ Committed' = 1 .. cur - 1
    BY <1>3 DEF Committed
  <2>2. \A m \in 1 .. cur - 1 : m \in Members \ {cur}
    BY <1>1, ActiveFacts DEF PublicationTypeOK
  <2>3. \A m \in Members \ {cur} : (Intact(m) => Intact(m)') /\ (Spoiled(m) => Spoiled(m)')
    BY <1>2 DEF Intact, Spoiled, AtHome, Nowhere
  <2>4. QED
    BY <1>1, <2>1, <2>2, <2>3 DEF CommitInv
<1>8. WholeInv'
  BY <1>3 DEF WholeInv, Linking
<1>9. TraceInv'
  BY <1>1, <1>2 DEF TraceInv, Nowhere
<1>10. QuarantineInv'
  BY <1>1, <1>2, <1>3 DEF QuarantineInv, Removing
<1>11. ResultInv'
  BY <1>1, <1>2, <1>3 DEF ResultInv, PhaseInv
<1>12. NothingForeignIsLost'
  BY <1>1, <1>2 DEF NothingForeignIsLost
<1>13. QED
  BY <1>4, <1>5, <1>6, <1>7, <1>8, <1>9, <1>10, <1>11, <1>12 DEF PublicationInv

LEMMA PostlinkKeeps ==
    ASSUME PublicationInv, Noted, RecordMetadata \/ SourceAndSync \/ HeldIntegrity
    PROVE  PublicationInv'
<1>1. /\ PublicationTypeOK /\ CommitInv /\ doubts \subseteq Doubts
      /\ cur \in Members /\ durable \subseteq Members
      /\ meta \in [Members -> {"none", "same", "changed"}]
  BY ActiveFacts DEF PublicationInv, PublicationTypeOK, Doubts
<1>2. CASE RecordMetadata
  <2>1. /\ pc \in Linking /\ pc' \in Linking /\ pc' = "sync"
        /\ UNCHANGED <<names, good, others, durable, cur, check, round, linked, err, uncertain, result>>
        /\ doubts' = {}
    BY <1>2 DEF RecordMetadata, Proceed, Goto, Linking
  <2>2. /\ meta' \in [Members -> {"none", "same", "changed"}]
        /\ \A m \in Members \ {cur} : meta'[m] = meta[m]
    BY <1>1, <1>2 DEF RecordMetadata
  <2>3. QED
    BY <1>1, <2>1, <2>2, LinkingKeeps
<1>3. CASE SourceAndSync
  <2>1. /\ pc \in Linking /\ pc' \in Linking
        /\ UNCHANGED <<names, good, meta, others, cur, check, round, linked, err, uncertain, result>>
    BY <1>3 DEF SourceAndSync, Proceed, Goto, Linking
  <2>2. PICK failed \in SUBSET {Identity, Durability} :
          /\ doubts' = doubts \cup failed
          /\ durable' = IF Durability \in failed THEN durable ELSE durable \cup {cur}
    BY <1>3 DEF SourceAndSync
  <2>3. /\ durable \subseteq durable' /\ durable' \subseteq Members /\ doubts' \subseteq Doubts
        /\ Durability \in doubts' \/ cur \in durable'
    BY <1>1, <2>2 DEF Doubts
  <2>4. QED
    BY <1>1, <2>1, <2>3, LinkingKeeps
<1>4. CASE HeldIntegrity
  <2>1. /\ pc = "integrity" /\ pc \in Linking /\ pc' \in Linking
        /\ UNCHANGED <<names, good, meta, durable, others, cur, check, round, linked, err, uncertain, result>>
    BY <1>4 DEF HeldIntegrity, Proceed, Goto, Linking, inodes
  <2>2. doubts \subseteq doubts' /\ doubts' \subseteq Doubts
    BY <1>1, <1>4 DEF HeldIntegrity, Doubts
  <2>3. Durability \in doubts' \/ cur \in durable'
    BY <1>1, <2>1, <2>2 DEF CommitInv
  <2>4. QED
    BY <1>1, <2>1, <2>2, <2>3, LinkingKeeps
<1>5. QED
  BY <1>2, <1>3, <1>4

(* A step that returns and moves none of the files.                        *)
LEMMA EndKeeps ==
    ASSUME PublicationInv, Noted, pc' = "done",
           UNCHANGED <<at, quarantine, elsewhere, good, meta, durable, changes, placed>>,
           UNCHANGED <<cur, check, round, linked, uncertain>>, doubts' \subseteq Doubts,
           staging' \in Foreign \cup {Absent, OwnDir}, final' \in Foreign \cup {Absent, OwnDir},
           NothingForeignIsLost', ResultInv'
    PROVE  PublicationInv'
<1>1. PublicationTypeOK /\ PhaseInv /\ TraceInv
  BY DEF PublicationInv
<1>2. op' = op /\ Last' = Last /\ Active' = Active /\ whole' \in BOOLEAN
  BY DEF Noted, Last, Active
<1>3. PublicationTypeOK'
  BY <1>1, <1>2 DEF PublicationTypeOK, Doubts
<1>4. /\ pc' \notin Forward \cup Undoing \cup {"pair"}
      /\ pc' \notin Starting \cup Committing \cup Linking \cup Closing \cup Proving \cup Removing
      /\ pc' \notin {"preflight_set", "mkdir"} /\ ~PairIsUp'
  BY DEF Forward, Starting, Committing, Linking, Closing, Proving, Undoing, Removing, PairIsUp
<1>5. PhaseInv'
  BY <1>1, <1>2, <1>4 DEF PhaseInv
<1>6. LinkInv'
  BY <1>4 DEF LinkInv
<1>7. Committed' = {}
  BY <1>4 DEF Committed
<1>8. CommitInv' /\ WholeInv'
  BY <1>4, <1>7 DEF CommitInv, WholeInv
<1>9. TraceInv'
  BY <1>1, <1>2 DEF TraceInv, Nowhere
<1>10. QuarantineInv'
  BY <1>4 DEF QuarantineInv
<1>11. QED
  BY <1>3, <1>5, <1>6, <1>8, <1>9, <1>10 DEF PublicationInv

(* All files intact at once: the output is whole.                          *)
LEMMA IntactIsWhole ==
    ASSUME PublicationTypeOK, \A m \in Active : Intact(m), op = "directory" => InventoryExact
    PROVE  Whole
<1>1. \A m \in Active : at[m] = m /\ good[m] /\ Links(m) = 1
  BY LinksCount DEF Intact
<1>2. QED
  BY <1>1 DEF Whole

(* What a successful end of a commit knows.                                *)
LEMMA IdentityMeans ==
    ASSUME PublicationInv, pc = "identity", doubts = {}, NameIsFinal(cur)
    PROVE  /\ Intact(cur)
           /\ \A m \in 1 .. cur : m \in durable /\ (Intact(m) \/ Spoiled(m))
<1>1. PublicationTypeOK /\ CommitInv /\ cur \in Active /\ cur \in Nat \ {0}
  BY ActiveFacts DEF PublicationInv, PublicationTypeOK
<1>2. Intact(cur)
  BY <1>1, ChecksMean DEF NameIsFinal
<1>3. cur \in durable
  BY <1>1 DEF CommitInv
<1>4. Committed = 1 .. cur - 1
  BY DEF Committed, Closing, Proving, PairIsUp, Linking
<1>5. \A m \in 1 .. cur - 1 : m \in durable /\ (Intact(m) \/ Spoiled(m))
  BY <1>1, <1>4 DEF CommitInv
<1>6. \A m \in 1 .. cur : m = cur \/ m \in 1 .. cur - 1
  BY <1>1
<1>7. QED
  BY <1>2, <1>3, <1>5, <1>6

(* The commits are complete: a single file is done, a pair and a set are   *)
(* checked once more.                                                      *)
LEMMA CommitDoneKeeps ==
    ASSUME PublicationInv, Quiet, pc = "identity", doubts = {}, NameIsFinal(cur),
           cur = Last, CommitDone, doubts' = {}, UNCHANGED <<round, linked, uncertain>>
    PROVE  PublicationInv'
<1>1. /\ PublicationTypeOK /\ PhaseInv /\ LinkInv /\ CommitInv /\ TraceInv
      /\ QuarantineInv /\ ResultInv /\ NothingForeignIsLost
  BY DEF PublicationInv
<1>2. /\ Active = 1 .. Last /\ Last \in Nat \ {0} /\ linked = Active
      /\ \A m \in Active : m \in durable /\ (Intact(m) \/ Spoiled(m))
      /\ op \in {"single", "pair", "set", "directory"}
      /\ Active \subseteq Members
      /\ err = "none" /\ result = "none" /\ pc \in Forward
  BY <1>1, ActiveFacts, IdentityMeans
     DEF PhaseInv, LinkInv, Forward, Starting, Committing, Linking, Closing, Proving
<1>3. cur' = cur /\ err' = err /\ check' \in {check, 1}
  BY <1>1, <1>2 DEF CommitDone, Proceed
<1>4. PublicationTypeOK'
  BY <1>1, <1>2, <1>3, QuietFacts DEF PublicationTypeOK
<1>5. TraceInv' /\ NothingForeignIsLost'
  BY <1>1, QuietFacts DEF TraceInv
<1>6. whole' \/ (\E m \in Active : Spoiled(m)) \/ op = "directory"
  <2> SUFFICES ASSUME \A m \in Active : ~Spoiled(m), op # "directory"
               PROVE  whole'
    OBVIOUS
  <2>1. Whole
    BY <1>1, <1>2, IntactIsWhole
  <2>2. QED
    BY <2>1, QuietFacts
<1>7. CASE op = "single"
  <2>1. pc' = "done" /\ result' = "Ok"
    BY <1>7 DEF CommitDone, Return
  <2>2. whole'
    <3>1. \A m \in Active : Intact(m)
      BY <1>1, <1>2, <1>7, IdentityMeans DEF Last, PublicationTypeOK
    <3>2. Whole
      BY <1>1, <1>7, <3>1, IntactIsWhole
    <3>3. QED
      BY <3>2, QuietFacts
  <2>3. ResultInv'
    BY <1>2, <1>7, <2>1, <2>2, QuietFacts DEF ResultInv
  <2>4. check' = check
    BY <1>7 DEF CommitDone
  <2>5. QED
    BY <1>1, <1>3, <1>5, <2>1, <2>3, <2>4, QuietFacts, EndKeeps DEF PublicationTypeOK, Quiet
<1>8. CASE op = "pair"
  <2>1. pc' = "pair" /\ result' = result /\ check' = 1 /\ PairIsUp'
    BY <1>2, <1>3, <1>8 DEF CommitDone, Goto, PairIsUp
  <2>2. PhaseInv'
    BY <1>1, <1>2, <1>3, <1>8, <2>1, QuietFacts DEF PhaseInv, Forward, Starting, Committing, Linking,
                                        Closing, Proving, Undoing, Removing
  <2>3. LinkInv'
    BY <1>2, <2>1, QuietFacts DEF LinkInv, Starting, Committing, Linking, Closing, Proving, Removing
  <2>4. Committed' = Active
    BY <2>1, QuietFacts DEF Committed
  <2>5. CommitInv'
    BY <1>2, <2>1, <2>4, QuietFacts DEF CommitInv
  <2>6. WholeInv'
    <3>1. \A m \in Active : m >= check'
      BY <1>2, <2>1
    <3>2. QED
      BY <1>6, <1>8, <2>1, <3>1, QuietFacts DEF WholeInv
  <2>7. QuarantineInv'
    BY <1>1, <1>2, <2>1, QuietFacts DEF QuarantineInv, Undoing, Removing
  <2>8. ResultInv'
    BY <1>1, <1>2, <2>1, QuietFacts DEF ResultInv
  <2>9. QED
    BY <1>4, <1>5, <2>2, <2>3, <2>5, <2>6, <2>7, <2>8 DEF PublicationInv
<1>9. CASE op \in {"set", "directory"}
  <2>1. pc' = "late" /\ result' = result /\ UNCHANGED err
    BY <1>9 DEF CommitDone, Proceed, Goto
  <2>2. pc' \in Closing /\ pc' \in Forward /\ pc' \notin Starting \cup Committing \cup Linking \cup Removing
    BY <2>1 DEF Forward, Starting, Committing, Linking, Closing, Proving, Removing
  <2>3. LinkInv'
    BY <1>2, <2>1, <2>2, QuietFacts DEF LinkInv
  <2>4. Committed' = Active
    BY <2>2, QuietFacts DEF Committed
  <2>5. CommitInv'
    BY <1>2, <2>1, <2>4, QuietFacts DEF CommitInv
  <2>6. WholeInv'
    BY <2>1 DEF WholeInv, PairIsUp
  <2>7. pc' \notin Proving \cup {"preflight_set", "mkdir"}
    BY <2>1 DEF Proving
  <2>8. QED
    BY <1>2, <1>4, <1>9, <2>1, <2>2, <2>3, <2>5, <2>6, <2>7, ForwardKeeps
<1>10. QED
  BY <1>2, <1>7, <1>8, <1>9

LEMMA FinalIdentityKeeps ==
    ASSUME PublicationInv, FinalIdentity, Noted
    PROVE  PublicationInv'
<1>1. PublicationTypeOK /\ LinkInv /\ PhaseInv /\ doubts \subseteq Doubts
  BY DEF PublicationInv, PublicationTypeOK, Doubts
<1>2. /\ pc = "identity" /\ Quiet /\ doubts' = {} /\ UNCHANGED <<round, linked, uncertain>>
      /\ pc \in Linking /\ pc \in Forward
  BY DEF FinalIdentity, CommitEnds, Quiet, Linking, Forward
<1>3. PICK found \in SUBSET Doubts :
         /\ CommitEnds(found) /\ doubts \subseteq found
         /\ NameIsFinal(cur) \/ Identity \in found
  BY <1>1 DEF FinalIdentity, Doubts
<1>4. CASE found # {} /\ Abort(Worst(found)) /\ UNCHANGED cur
  <2>1. Worst(found) \in Doubts /\ Worst(found) \notin {"none", "Ok"}
    BY DEF Worst, Doubts, Identity, Integrity, Durability
  <2>2. QED
    BY <1>2, <1>4, <2>1, AbortKeeps
<1>5. CASE found = {} /\ cur < Last /\ cur' = cur + 1 /\ Proceed("preflight")
  <2>1. doubts = {} /\ NameIsFinal(cur)
    BY <1>3, <1>5
  <2>2. \A m \in 1 .. cur : m \in durable /\ (Intact(m) \/ Spoiled(m))
    BY <1>2, <2>1, IdentityMeans
  <2>3. /\ cur \in Nat \ {0} /\ cur' \in Active /\ cur' - 1 = cur /\ linked = 1 .. cur
    BY <1>1, <1>2, <1>5, ActiveFacts DEF PublicationTypeOK, LinkInv
  <2>4. pc' = "preflight" /\ UNCHANGED <<err, result, check>>
    BY <1>5 DEF Proceed, Goto
  <2>5. PublicationTypeOK'
    BY <1>1, <1>2, <2>3, <2>4, QuietFacts DEF PublicationTypeOK
  <2>6. /\ pc' \in Committing /\ pc' \in Forward /\ ~PairIsUp'
        /\ pc' \notin Starting \cup Linking \cup Closing \cup Removing
        /\ pc' \notin Proving \cup {"preflight_set", "mkdir"}
    BY <2>4 DEF Forward, Starting, Committing, Linking, Closing, Proving, Removing, PairIsUp
  <2>7. LinkInv'
    BY <1>2, <2>3, <2>6 DEF LinkInv
  <2>8. Committed' = 1 .. cur
    BY <2>3, <2>6 DEF Committed
  <2>9. CommitInv'
    BY <2>2, <2>4, <2>8, QuietFacts, <1>2 DEF CommitInv
  <2>10. WholeInv'
    BY <2>4, <2>6 DEF WholeInv
  <2>11. QED
    BY <1>2, <2>4, <2>5, <2>6, <2>7, <2>9, <2>10, ForwardKeeps
<1>6. CASE found = {} /\ cur = Last /\ CommitDone
  <2>1. doubts = {} /\ NameIsFinal(cur)
    BY <1>3, <1>6
  <2>2. QED
    BY <1>2, <1>6, <2>1, CommitDoneKeeps
<1>7. QED
  BY <1>3, <1>4, <1>5, <1>6 DEF CommitEnds

-----------------------------------------------------------------------------
(* The end of a set and of a directory.                                    *)

LEMMA ClosingFacts ==
    ASSUME PublicationInv, pc \in Closing
    PROVE  /\ PublicationTypeOK /\ pc \in Forward /\ op \in {"set", "directory"}
           /\ doubts \subseteq Doubts /\ linked = Active /\ check \in 1 .. Last + 1
           /\ Active = 1 .. Last /\ Last \in Nat \ {0}
           /\ \A m \in Active : m \in durable /\ (Intact(m) \/ Spoiled(m))
<1>1. PublicationTypeOK /\ PhaseInv /\ LinkInv /\ CommitInv
  BY DEF PublicationInv
<1>2. Committed = Active
  BY DEF Committed
<1>3. QED
  BY <1>1, <1>2, ActiveFacts DEF PublicationTypeOK, PhaseInv, LinkInv, CommitInv, Forward, Doubts

LEMMA ClosingKeeps ==
    ASSUME PublicationInv, Quiet, pc \in Closing, pc' \in Closing,
           UNCHANGED <<err, result, uncertain, linked, cur, doubts>>,
           check' \in 1 .. Last + 1, round' \in 1 .. Rounds,
           pc' \in Proving => op = "directory", WholeInv'
    PROVE  PublicationInv'
<1>1. /\ PublicationTypeOK /\ pc \in Forward /\ op \in {"set", "directory"} /\ linked = Active
      /\ \A m \in Active : m \in durable /\ (Intact(m) \/ Spoiled(m))
  BY ClosingFacts
<1>2. PublicationTypeOK'
  BY <1>1, QuietFacts DEF PublicationTypeOK
<1>3. /\ pc' \in Forward /\ pc' \notin Starting \cup Committing \cup Linking \cup Removing
      /\ pc' \notin {"integrity", "identity", "preflight_set", "mkdir"}
  BY DEF Forward, Starting, Committing, Linking, Closing, Proving, Removing
<1>4. LinkInv'
  BY <1>1, <1>3, QuietFacts DEF LinkInv
<1>5. Committed' = Active
  BY QuietFacts DEF Committed
<1>6. CommitInv'
  BY <1>1, <1>3, <1>5, QuietFacts DEF CommitInv
<1>7. QED
  BY <1>1, <1>2, <1>3, <1>4, <1>6, ForwardKeeps

(* One more file has passed the checks of a closing loop.                  *)
LEMMA RevalidationKeeps ==
    ASSUME PublicationInv, Quiet, NEW here \in {"final", "members"}, pc = here,
           check \in Active, RevalidateNext(here),
           UNCHANGED <<cur, round, linked, doubts, uncertain>>
    PROVE  PublicationInv'
<1>1. pc \in Closing /\ (here = "members" => here \in Proving)
  BY DEF Closing, Proving
<1>2. /\ PublicationTypeOK /\ pc \in Forward /\ op \in {"set", "directory"}
      /\ doubts \subseteq Doubts /\ check \in 1 .. Last + 1 /\ PhaseInv /\ WholeInv
      /\ Active = 1 .. Last /\ Last \in Nat \ {0}
  BY <1>1, ClosingFacts DEF PublicationInv
<1>3. PICK found \in Revalidations(check) :
         \/ found = "none" /\ check' = check + 1 /\ Goto(here) /\ UNCHANGED err
         \/ found # "none" /\ Abort(found)
  BY DEF RevalidateNext
<1>4. /\ found \in {"none", Identity, Integrity}
      /\ found = "none" => ~Spoiled(check)
  BY <1>2, RevalidationMeans
<1>5. CASE found = "none" /\ check' = check + 1 /\ Goto(here) /\ UNCHANGED err
  <2>1. /\ pc' = pc /\ UNCHANGED <<result, err>> /\ check' \in 1 .. Last + 1
        /\ round' \in 1 .. Rounds
    BY <1>2, <1>5 DEF Goto, PublicationTypeOK
  <2>2. pc' \in Proving => op = "directory"
    BY <1>2, <2>1 DEF PhaseInv
  <2>3. WholeInv'
    <3>1. \A m \in Active : m >= check /\ Spoiled(m) => m >= check' /\ m # check
      BY <1>2, <1>4, <1>5
    <3>2. ~PairIsUp' /\ ~PairIsUp
      BY <2>1 DEF PairIsUp
    <3>3. QED
      BY <1>2, <2>1, <3>1, <3>2, QuietFacts DEF WholeInv
  <2>4. QED
    BY <1>1, <2>1, <2>2, <2>3, ClosingKeeps
<1>6. CASE found # "none" /\ Abort(found)
  BY <1>2, <1>4, <1>6, AbortKeeps DEF Identity, Integrity
<1>7. QED
  BY <1>3, <1>5, <1>6

LEMMA LateVerifierKeeps ==
    ASSUME PublicationInv, LateVerifier, Noted
    PROVE  PublicationInv'
<1>1. /\ pc = "late" /\ pc \in Closing /\ Quiet
      /\ UNCHANGED <<cur, round, linked, doubts, uncertain>>
  BY DEF LateVerifier, Quiet, Closing
<1>2. /\ PublicationTypeOK /\ pc \in Forward /\ op \in {"set", "directory"}
      /\ doubts \subseteq Doubts /\ Active = 1 .. Last /\ Last \in Nat \ {0}
      /\ \A m \in Active : Intact(m) \/ Spoiled(m)
  BY <1>1, ClosingFacts
<1>3. CASE Goto("final") /\ check' = 1 /\ UNCHANGED err
  <2>1. /\ pc' = "final" /\ pc' \in Closing /\ pc' \notin Proving /\ UNCHANGED <<result, err>>
        /\ check' \in 1 .. Last + 1 /\ round' \in 1 .. Rounds
    BY <1>1, <1>2, <1>3 DEF Goto, Closing, Proving, PublicationTypeOK
  <2>2. op = "set" => whole' \/ \E m \in Active : Spoiled(m)
    <3> SUFFICES ASSUME op = "set", \A m \in Active : ~Spoiled(m)
                 PROVE  whole'
      OBVIOUS
    <3>1. Whole
      BY <1>2, IntactIsWhole
    <3>2. QED
      BY <1>1, <3>1, QuietFacts
  <2>3. \A m \in Active : m >= check'
    BY <1>2, <1>3
  <2>4. WholeInv'
    BY <1>1, <2>1, <2>2, <2>3, QuietFacts DEF WholeInv, PairIsUp
  <2>5. QED
    BY <1>1, <2>1, <2>4, ClosingKeeps
<1>4. CASE Abort("InputChanged")
  BY <1>1, <1>2, <1>4, AbortKeeps
<1>5. QED
  BY <1>3, <1>4 DEF LateVerifier

(* The last check of a set has passed.                                     *)
LEMMA FinalCheckKeeps ==
    ASSUME PublicationInv, FinalCheck, Noted
    PROVE  PublicationInv'
<1>1. /\ pc = "final" /\ pc \in Closing /\ Quiet
      /\ UNCHANGED <<cur, round, linked, doubts, uncertain>>
  BY DEF FinalCheck, Quiet, Closing
<1>2. /\ PublicationTypeOK /\ op \in {"set", "directory"} /\ WholeInv /\ PhaseInv
      /\ TraceInv /\ NothingForeignIsLost /\ check \in 1 .. Last + 1 /\ linked = Active
      /\ Active = 1 .. Last /\ Last \in Nat \ {0} /\ \A m \in Active : m \in durable
  BY <1>1, ClosingFacts DEF PublicationInv
<1>3. CASE check \in Active /\ RevalidateNext("final")
  BY <1>1, <1>3, RevalidationKeeps
<1>4. CASE check > Last /\ op = "set" /\ Return("Ok") /\ UNCHANGED <<err, check>>
  <2>1. pc' = "done" /\ result' = "Ok" /\ UNCHANGED <<err, check>>
    BY <1>4 DEF Return
  <2>2. whole
    BY <1>1, <1>2, <1>4 DEF WholeInv
  <2>3. ResultInv'
    BY <1>1, <1>2, <2>1, <2>2, QuietFacts DEF ResultInv
  <2>4. QED
    BY <1>1, <1>2, <2>1, <2>3, QuietFacts, EndKeeps DEF PublicationTypeOK, Quiet, Doubts
<1>5. CASE op = "directory" /\ Proceed("staging_name")
  <2>1. /\ pc' = "staging_name" /\ pc' \in Closing /\ UNCHANGED <<err, result, check>>
        /\ check' \in 1 .. Last + 1 /\ round' \in 1 .. Rounds
    BY <1>1, <1>2, <1>5 DEF Proceed, Goto, Closing, Proving, PublicationTypeOK
  <2>2. WholeInv'
    BY <2>1 DEF WholeInv, PairIsUp
  <2>3. QED
    BY <1>1, <1>5, <2>1, <2>2, ClosingKeeps
<1>6. QED
  BY <1>3, <1>4, <1>5 DEF FinalCheck

LEMMA StagingKeeps ==
    ASSUME PublicationInv, Noted,
           StagingName \/ StagingInventory \/ StagingMembers \/ FinalName
    PROVE  PublicationInv'
<1>1. /\ pc \in Proving /\ pc \in Closing /\ Quiet
      /\ UNCHANGED <<cur, linked, doubts, uncertain>>
  BY DEF StagingName, StagingInventory, StagingMembers, FinalName, Quiet, Closing, Proving
<1>2. /\ PublicationTypeOK /\ op = "directory" /\ WholeInv /\ pc \in Forward
      /\ doubts \subseteq Doubts /\ check \in 1 .. Last + 1 /\ round \in 1 .. Rounds
      /\ Active = 1 .. Last /\ Last \in Nat \ {0} /\ Rounds \in Nat
      /\ \A m \in Active : Intact(m) \/ Spoiled(m)
  BY <1>1, ClosingFacts, PublicationAssumption DEF PublicationInv, PhaseInv, PublicationTypeOK
<1>3. ASSUME NEW code, Abort(code), code \notin {"none", "Ok"}, UNCHANGED round
      PROVE  PublicationInv'
  BY <1>1, <1>2, <1>3, AbortKeeps
<1>4. ASSUME pc' \in Proving, UNCHANGED <<err, result>>, check' \in 1 .. Last + 1,
             round' \in 1 .. Rounds, WholeInv'
      PROVE  PublicationInv'
  <2>1. pc' \in Closing
    BY <1>4 DEF Closing
  <2>2. QED
    BY <1>1, <1>2, <1>4, <2>1, ClosingKeeps
<1>5. CASE StagingName
  <2>1. UNCHANGED round /\ (Proceed("inventory") \/ Abort(Identity))
    BY <1>5 DEF StagingName
  <2>2. CASE Proceed("inventory")
    <3>1. pc' = "inventory" /\ pc' \in Proving /\ UNCHANGED <<err, result, check>>
      BY <2>2 DEF Proceed, Goto, Proving
    <3>2. WholeInv'
      BY <3>1 DEF WholeInv, PairIsUp
    <3>3. QED
      BY <1>2, <1>4, <2>1, <3>1, <3>2
  <2>3. QED
    BY <1>3, <2>1, <2>2 DEF Identity
<1>6. CASE StagingInventory
  <2>1. /\ UNCHANGED round
        /\ \/ InventoryExact /\ Goto("members") /\ check' = 1 /\ UNCHANGED err
           \/ Abort(Identity)
    BY <1>6 DEF StagingInventory
  <2>2. CASE InventoryExact /\ Goto("members") /\ check' = 1 /\ UNCHANGED err
    <3>1. pc' = "members" /\ pc' \in Proving /\ UNCHANGED <<err, result>> /\ check' = 1
      BY <2>2 DEF Goto, Proving
    <3>2. whole' \/ \E m \in Active : Spoiled(m)
      <4> SUFFICES ASSUME \A m \in Active : ~Spoiled(m) PROVE whole'
        OBVIOUS
      <4>1. Whole
        BY <1>2, <2>2, IntactIsWhole
      <4>2. QED
        BY <1>1, <4>1, QuietFacts
    <3>3. \A m \in Active : m >= check'
      BY <1>2, <3>1
    <3>4. WholeInv'
      BY <1>1, <3>1, <3>2, <3>3, QuietFacts DEF WholeInv
    <3>5. QED
      BY <1>2, <1>4, <2>1, <3>1, <3>4
  <2>3. QED
    BY <1>3, <2>1, <2>2 DEF Identity
<1>7. CASE StagingMembers
  <2>1. pc = "members" /\ UNCHANGED round
    BY <1>7 DEF StagingMembers
  <2>2. CASE check \in Active /\ RevalidateNext("members")
    BY <1>1, <2>1, <2>2, RevalidationKeeps
  <2>3. CASE check > Last /\ Proceed("final_name")
    <3>1. pc' = "final_name" /\ pc' \in Proving /\ UNCHANGED <<err, result, check>>
      BY <2>3 DEF Proceed, Goto, Proving
    <3>2. whole
      BY <1>2, <2>1, <2>3 DEF WholeInv
    <3>3. WholeInv'
      BY <1>1, <3>1, <3>2, QuietFacts DEF WholeInv, PairIsUp
    <3>4. QED
      BY <1>2, <1>4, <2>1, <3>1, <3>3
  <2>4. QED
    BY <1>7, <2>2, <2>3 DEF StagingMembers
<1>8. CASE FinalName
  <2>1. whole
    BY <1>2, <1>8 DEF WholeInv, FinalName
  <2>2. CASE \E code : Abort(code) /\ code \notin {"none", "Ok"} /\ UNCHANGED round
    BY <1>3, <2>2
  <2>3. CASE IF round < Rounds THEN round' = round + 1 /\ Proceed("staging_name")
                               ELSE UNCHANGED round /\ Proceed("rename")
    <3>1. /\ pc' \in {"staging_name", "rename"} /\ pc' \in Proving
          /\ UNCHANGED <<err, result, check>> /\ round' \in 1 .. Rounds
      BY <1>2, <2>3 DEF Proceed, Goto, Proving
    <3>2. WholeInv'
      BY <1>1, <2>1, <3>1, QuietFacts DEF WholeInv, PairIsUp
    <3>3. QED
      BY <1>2, <1>4, <3>1, <3>2
  <2>4. QED
    BY <1>8, <2>2, <2>3 DEF FinalName
<1>9. QED
  BY <1>5, <1>6, <1>7, <1>8

(* The staging directory gets its final name, whatever it is by then.      *)
LEMMA RenameKeeps ==
    ASSUME PublicationInv, RenameSet, Noted
    PROVE  PublicationInv'
<1>1. /\ pc = "rename" /\ pc \in Closing
      /\ UNCHANGED <<op, at, quarantine, elsewhere, good, meta, durable, changes, placed>>
      /\ UNCHANGED <<cur, round, linked, doubts, uncertain>>
  BY DEF RenameSet, Closing, Proving, inodes, others, Noted
<1>2. /\ PublicationTypeOK /\ op \in {"set", "directory"} /\ WholeInv /\ pc \in Forward
      /\ NothingForeignIsLost /\ doubts \subseteq Doubts
      /\ \A m \in Active : m \in durable
  BY <1>1, ClosingFacts DEF PublicationInv
<1>3. CASE /\ staging # Absent /\ final = Absent
           /\ final' = staging /\ staging' = Absent
           /\ Return("Ok") /\ UNCHANGED <<err, check>>
  <2>1. pc' = "done" /\ result' = "Ok" /\ UNCHANGED check
    BY <1>3 DEF Return
  <2>2. whole'
    BY <1>1, <1>2 DEF WholeInv, Noted
  <2>3. Active' = Active
    BY <1>1 DEF Active, Last
  <2>4. ResultInv'
    BY <1>1, <1>2, <2>1, <2>2, <2>3 DEF ResultInv
  <2>5. NothingForeignIsLost'
    <3>1. placed \subseteq Foreign /\ Absent \notin Foreign
      BY <1>2, PublicationAssumption DEF PublicationTypeOK
    <3>2. QED
      BY <1>1, <1>2, <1>3, <3>1 DEF NothingForeignIsLost
  <2>6. QED
    BY <1>1, <1>2, <1>3, <2>1, <2>4, <2>5, EndKeeps DEF PublicationTypeOK
<1>4. CASE UNCHANGED <<staging, final>> /\ \E code : Abort(code) /\ code \notin {"none", "Ok"}
  <2>1. Quiet
    BY <1>1, <1>4 DEF Quiet, names, inodes, others, Noted
  <2>2. QED
    BY <1>1, <1>2, <1>4, <2>1, AbortKeeps
<1>5. QED
  BY <1>3, <1>4 DEF RenameSet

(* The start of a directory.  Nobody can reach the staging name before it  *)
(* exists, so creating it replaces nothing.                                *)
LEMMA PreflightSetKeeps ==
    ASSUME PublicationInv, PreflightSet, Noted
    PROVE  PublicationInv'
<1>1. /\ pc = "preflight_set" /\ pc \in Starting /\ pc \in Forward /\ Quiet
      /\ UNCHANGED <<cur, check, round, linked, doubts, err, uncertain>>
  BY DEF PreflightSet, Quiet, Starting, Forward, local
<1>2. /\ PublicationTypeOK /\ PhaseInv /\ LinkInv /\ NothingForeignIsLost
      /\ op = "directory" /\ staging = Absent /\ linked = {} /\ ~uncertain
  BY <1>1 DEF PublicationInv, PhaseInv, LinkInv
<1>3. CASE Goto("mkdir")
  <2>1. /\ pc' = "mkdir" /\ UNCHANGED result /\ pc' \in Forward /\ pc' \in Starting
        /\ pc' \notin Committing \cup Linking \cup Closing \cup Proving \cup Removing /\ ~PairIsUp'
    BY <1>3 DEF Goto, Forward, Starting, Committing, Linking, Closing, Proving, Removing, PairIsUp
  <2>2. PublicationTypeOK'
    BY <1>1, <1>2, QuietFacts DEF PublicationTypeOK
  <2>3. LinkInv'
    BY <1>1, <1>2, <2>1 DEF LinkInv
  <2>4. Committed' = {}
    BY <2>1 DEF Committed
  <2>5. CommitInv' /\ WholeInv'
    BY <2>1, <2>4 DEF CommitInv, WholeInv
  <2>6. QED
    BY <1>1, <1>2, <2>1, <2>2, <2>3, <2>5, ForwardKeeps
<1>4. CASE \E code \in {"OutputExists", "OutputPublish"} : Return(code)
  <2>1. pc' = "done" /\ result' \in {"OutputExists", "OutputPublish"}
    BY <1>4 DEF Return
  <2>2. ResultInv'
    BY <1>1, <1>2, <2>1, QuietFacts DEF ResultInv
  <2>3. QED
    BY <1>1, <1>2, <2>1, <2>2, QuietFacts, EndKeeps DEF PublicationTypeOK, Quiet, Doubts
<1>5. QED
  BY <1>3, <1>4 DEF PreflightSet

LEMMA CreateStagingKeeps ==
    ASSUME PublicationInv, CreateStaging, Noted
    PROVE  PublicationInv'
<1>1. /\ pc = "mkdir" /\ pc \in Starting
      /\ UNCHANGED <<op, at, quarantine, elsewhere, final, good, meta, durable, changes, placed>>
      /\ UNCHANGED <<cur, check, round, linked, doubts, err, uncertain>>
  BY DEF CreateStaging, Starting, local, inodes, others, Noted
<1>2. /\ PublicationTypeOK /\ PhaseInv /\ LinkInv /\ NothingForeignIsLost /\ TraceInv
      /\ QuarantineInv /\ ResultInv
      /\ op = "directory" /\ staging = Absent /\ linked = {} /\ ~uncertain
  BY <1>1 DEF PublicationInv, PhaseInv, LinkInv
<1>3. staging' \in {Absent, OwnDir}
  BY DEF CreateStaging
<1>4. NothingForeignIsLost'
  <2>1. placed \subseteq Foreign /\ Absent \notin Foreign
    BY <1>2, PublicationAssumption DEF PublicationTypeOK
  <2>2. QED
    BY <1>1, <1>2, <2>1 DEF NothingForeignIsLost
<1>5. CASE Goto("prepare")
  <2>1. /\ pc' = "prepare" /\ UNCHANGED result /\ pc' \in Starting /\ pc' \in Forward
        /\ pc' \notin Committing \cup Linking \cup Closing \cup Proving \cup Removing \cup Undoing
        /\ pc' \notin {"pair", "done", "preflight_set", "mkdir"} /\ ~PairIsUp'
    BY <1>5 DEF Goto, Forward, Starting, Committing, Linking, Closing, Proving, Removing, Undoing,
                PairIsUp
  <2>2. Last' = Last /\ Active' = Active /\ whole' \in BOOLEAN
    BY <1>1 DEF Last, Active, Noted
  <2>3. PublicationTypeOK'
    BY <1>1, <1>2, <1>3, <2>2 DEF PublicationTypeOK
  <2>4. PhaseInv'
    BY <1>1, <1>2, <2>1, <2>2 DEF PhaseInv, Forward
  <2>5. LinkInv'
    BY <1>1, <1>2, <2>1 DEF LinkInv
  <2>6. Committed' = {}
    BY <2>1 DEF Committed
  <2>7. CommitInv' /\ WholeInv'
    BY <2>1, <2>6 DEF CommitInv, WholeInv
  <2>8. TraceInv'
    BY <1>1, <1>2, <2>2 DEF TraceInv, Nowhere
  <2>9. QuarantineInv'
    BY <1>1, <1>2, <2>1 DEF QuarantineInv, Forward
  <2>10. ResultInv'
    BY <1>1, <1>2, <2>1, <2>2 DEF ResultInv, PhaseInv
  <2>11. QED
    BY <1>4, <2>3, <2>4, <2>5, <2>7, <2>8, <2>9, <2>10 DEF PublicationInv
<1>6. CASE Return("OutputPublish")
  <2>1. pc' = "done" /\ result' = "OutputPublish"
    BY <1>6 DEF Return
  <2>2. ResultInv'
    BY <1>1, <1>2, <2>1 DEF ResultInv
  <2>3. QED
    BY <1>1, <1>2, <1>3, <1>4, <2>1, <2>2, EndKeeps DEF PublicationTypeOK, Doubts
<1>7. QED
  BY <1>5, <1>6 DEF CreateStaging

-----------------------------------------------------------------------------
(* The end of a pair.                                                      *)

LEMMA PairCheckKeeps ==
    ASSUME PublicationInv, PairCheck, Noted
    PROVE  PublicationInv'
<1>1. /\ pc = "pair" /\ pc' = "pair" /\ UNCHANGED result /\ Quiet
      /\ UNCHANGED <<cur, round, linked, err, uncertain>>
      /\ check' = check + 1 /\ check \in linked
  BY DEF PairCheck, Goto, Quiet
<1>2. /\ PublicationTypeOK /\ PhaseInv /\ LinkInv /\ CommitInv /\ WholeInv /\ TraceInv
      /\ QuarantineInv /\ ResultInv /\ NothingForeignIsLost
  BY DEF PublicationInv
<1>3. /\ linked \subseteq Active /\ check \in Active /\ Active = 1 .. Last /\ Last \in Nat \ {0}
      /\ check' \in 1 .. Last + 1 /\ doubts \subseteq Doubts
  BY <1>1, <1>2, ActiveFacts DEF PublicationTypeOK, Doubts
<1>4. PICK found \in Revalidations(check) : doubts' = doubts \cup ({found} \ {"none"})
  BY DEF PairCheck
<1>5. found \in {"none", Identity, Integrity} /\ (found = "none" => ~Spoiled(check))
  BY <1>2, <1>3, RevalidationMeans
<1>6. doubts' \subseteq Doubts /\ (doubts' = {} => doubts = {} /\ ~Spoiled(check))
  BY <1>3, <1>4, <1>5 DEF Doubts, Identity, Integrity
<1>7. PublicationTypeOK'
  BY <1>1, <1>2, <1>3, <1>6, QuietFacts DEF PublicationTypeOK, Doubts
<1>8. PairIsUp' <=> PairIsUp
  BY <1>1 DEF PairIsUp
<1>9. PhaseInv'
  BY <1>1, <1>2, QuietFacts DEF PhaseInv
<1>10. LinkInv'
  BY <1>1, <1>2, <1>8, QuietFacts DEF LinkInv
<1>11. Committed' = Committed
  BY <1>1, <1>8, QuietFacts DEF Committed
<1>12. CommitInv'
  BY <1>1, <1>2, <1>11, QuietFacts DEF CommitInv
<1>13. WholeInv'
  <2>1. ~Spoiled(check) => \A m \in Active : m >= check /\ Spoiled(m) => m >= check'
    BY <1>1, <1>3
  <2>2. QED
    BY <1>1, <1>2, <1>6, <1>8, <2>1, QuietFacts DEF WholeInv
<1>14. TraceInv' /\ QuarantineInv' /\ ResultInv' /\ NothingForeignIsLost'
  BY <1>1, <1>2, QuietFacts DEF TraceInv, QuarantineInv, ResultInv, PhaseInv
<1>15. QED
  BY <1>7, <1>9, <1>10, <1>12, <1>13, <1>14 DEF PublicationInv

(* A pair answers Ok after the checks of both files, and with a doubt if   *)
(* the public file has been linked.                                        *)
LEMMA PairEndsKeeps ==
    ASSUME PublicationInv, PairEnds, Noted
    PROVE  PublicationInv'
<1>1. /\ pc = "pair" /\ pc' = "done" /\ result' = RankErrors /\ Quiet /\ check \notin linked
      /\ UNCHANGED <<cur, check, round, linked, doubts, err, uncertain>>
  BY DEF PairEnds, Return, Quiet, local
<1>2. /\ PublicationTypeOK /\ PhaseInv /\ LinkInv /\ CommitInv /\ WholeInv
      /\ NothingForeignIsLost /\ op = "pair" /\ doubts \subseteq Doubts
      /\ check \in 1 .. Last + 1 /\ Active = 1 .. Last /\ Last \in Nat \ {0}
  BY <1>1, ActiveFacts DEF PublicationInv, PhaseInv, PublicationTypeOK, Doubts
<1>3. CASE err = "none" /\ doubts = {}
  <2>1. RankErrors = "Ok"
    BY <1>3 DEF RankErrors
  <2>2. PairIsUp /\ linked = Active /\ Committed = Active
    BY <1>1, <1>2, <1>3 DEF PairIsUp, LinkInv, Committed
  <2>3. check = Last + 1
    BY <1>1, <1>2, <2>2
  <2>4. whole
    BY <1>2, <1>3, <2>2, <2>3 DEF WholeInv
  <2>5. Active \subseteq durable
    BY <1>2, <2>2 DEF CommitInv
  <2>6. ResultInv'
    BY <1>1, <1>2, <2>1, <2>4, <2>5, QuietFacts DEF ResultInv
  <2>7. QED
    BY <1>1, <1>2, <2>6, QuietFacts, EndKeeps DEF PublicationTypeOK, Quiet
<1>4. CASE ~(err = "none" /\ doubts = {})
  <2>1. Last \in linked => RankErrors \in Doubts
    <3> SUFFICES ASSUME Last \in linked PROVE RankErrors \in Doubts
      OBVIOUS
    <3>1. err \in Doubts \cup {"none"}
      BY <1>1, <1>2 DEF PhaseInv
    <3>2. (doubts \cup {err}) \cap Doubts # {}
      BY <1>2, <1>4, <3>1 DEF Doubts
    <3>3. Worst(doubts \cup {err}) \in Doubts
      BY DEF Worst, Doubts
    <3>4. err # "CrossOutputAlias" /\ ~(doubts \cup {err} \in SUBSET {"none"})
      BY <3>1, <3>2 DEF Doubts, Identity, Integrity, Durability
    <3>5. QED
      BY <3>2, <3>3, <3>4 DEF RankErrors, Doubts
  <2>2. RankErrors # "Ok"
    <3>1. err # "Ok"
      BY <1>1, <1>2 DEF PhaseInv
    <3>2. ~(doubts \cup {err} \in SUBSET {"none"})
      BY <1>2, <1>4 DEF Doubts, Identity, Integrity, Durability
    <3>3. QED
      BY <3>1, <3>2 DEF RankErrors, Worst, Identity, Integrity, Durability
  <2>3. ResultInv'
    BY <1>1, <1>2, <2>1, <2>2, QuietFacts DEF ResultInv
  <2>4. QED
    BY <1>1, <1>2, <2>3, QuietFacts, EndKeeps DEF PublicationTypeOK, Quiet
<1>5. QED
  BY <1>3, <1>4

-----------------------------------------------------------------------------
(* Rollback and clean-up.                                                  *)

LEMMA UndoKeeps ==
    ASSUME PublicationInv, Noted, pc \in Undoing, pc' \in Undoing, UNCHANGED <<result, err>>,
           pc' \in Removing => linked' # {}, op # "set" => ~uncertain',
           pc' \in {"cleanup", "cleanup_member"} => op = "directory",
           PublicationTypeOK', TraceInv', QuarantineInv', NothingForeignIsLost'
    PROVE  PublicationInv'
<1>1. PhaseInv /\ ResultInv
  BY DEF PublicationInv
<1>2. /\ op' = op /\ pc' \notin Forward \cup {"pair", "done"} /\ pc \notin {"pair", "done"}
      /\ pc' \notin Starting \cup Committing \cup Linking \cup Closing \cup Proving
      /\ pc' \notin {"preflight_set", "mkdir"} /\ ~PairIsUp'
  BY DEF Noted, Forward, Starting, Committing, Linking, Closing, Proving, Undoing, Removing, PairIsUp
<1>3. PhaseInv'
  BY <1>1, <1>2 DEF PhaseInv
<1>4. LinkInv'
  BY <1>2 DEF LinkInv
<1>5. Committed' = {}
  BY <1>2 DEF Committed
<1>6. CommitInv' /\ WholeInv'
  BY <1>2, <1>5 DEF CommitInv, WholeInv, Forward, Linking, Closing, Proving
<1>7. ResultInv'
  BY <1>1, <1>2 DEF ResultInv, PhaseInv
<1>8. QED
  BY <1>3, <1>4, <1>6, <1>7 DEF PublicationInv

LEMMA UndoFacts ==
    ASSUME PublicationInv, pc \in Undoing
    PROVE  /\ PublicationTypeOK /\ PhaseInv /\ TraceInv /\ QuarantineInv /\ NothingForeignIsLost
           /\ op \in {"set", "directory"} /\ doubts \subseteq Doubts /\ err # "Ok"
           /\ op # "set" => ~uncertain
           /\ linked \subseteq Active /\ Active \subseteq Members
           /\ placed \subseteq Foreign /\ Absent \notin Foreign
           /\ \A m \in Members : m \notin Foreign /\ m # Absent
BY ActiveFacts, PublicationAssumption DEF PublicationInv, PhaseInv, PublicationTypeOK, Doubts

(* A file that cannot be removed: a set marks the rollback as uncertain    *)
(* and goes on, a directory returns.                                       *)
LEMMA GiveUpKeeps ==
    ASSUME PublicationInv, Noted, pc \in Undoing, linked # {}, GiveUp,
           UNCHANGED <<at, elsewhere, staging, final, good, meta, durable, changes, placed>>,
           UNCHANGED <<cur, check, round, doubts, err>>,
           quarantine' \in [Members -> Members \cup Foreign \cup {Absent}],
           \A m \in Members \ {Target} : quarantine'[m] = quarantine[m],
           op # "set" => quarantine' = quarantine, NothingForeignIsLost'
    PROVE  PublicationInv'
<1>1. /\ PublicationTypeOK /\ PhaseInv /\ QuarantineInv
      /\ op \in {"set", "directory"} /\ doubts \subseteq Doubts
      /\ linked \subseteq Active /\ Active \subseteq Members
  BY UndoFacts
<1>2. op' = op /\ Last' = Last /\ Active' = Active /\ whole' \in BOOLEAN
  BY DEF Noted, Last, Active
<1>3. CASE op = "set"
  <2>1. /\ uncertain' = TRUE /\ linked' = linked \ {Target}
        /\ pc' = "rollback" /\ UNCHANGED result
    BY <1>3 DEF GiveUp, Goto, Loop
  <2>2. PublicationTypeOK'
    BY <1>1, <1>2, <2>1 DEF PublicationTypeOK
  <2>3. TraceInv'
    BY <2>1 DEF TraceInv
  <2>4. \A m \in linked' : quarantine'[m] = Absent
    BY <1>1, <2>1 DEF QuarantineInv
  <2>5. pc' \in Undoing /\ pc' \notin Removing \cup Forward \cup {"pair"}
    BY <2>1 DEF Undoing, Removing, Forward, Starting, Committing, Linking, Closing, Proving
  <2>6. QuarantineInv'
    BY <2>1, <2>4, <2>5 DEF QuarantineInv
  <2>7. QED
    BY <1>1, <1>3, <2>1, <2>2, <2>3, <2>5, <2>6, UndoKeeps
<1>4. CASE op = "directory"
  <2>1. pc' = "done" /\ result' = RollbackUncertain /\ UNCHANGED <<uncertain, linked>>
    BY <1>4 DEF GiveUp, Return
  <2>2. ResultInv'
    BY <1>2, <1>4, <2>1 DEF ResultInv, RollbackUncertain
  <2>3. QED
    BY <1>1, <1>4, <2>1, <2>2, EndKeeps DEF PublicationTypeOK
<1>5. QED
  BY <1>1, <1>3, <1>4

(* A quiet step on to the next part of the removal of a file.              *)
LEMMA QuietUndoKeeps ==
    ASSUME PublicationInv, Quiet, pc \in Undoing, pc' \in Undoing, UNCHANGED <<result>>,
           UNCHANGED <<cur, check, round, linked, doubts, err, uncertain>>,
           pc \in {"inspect", "unlink"} => pc' \in {"inspect", "unlink"},
           pc' \in Removing => linked # {}, pc' = "unlink" => Aside(Target),
           pc' \in {"cleanup", "cleanup_member"} => op = "directory"
    PROVE  PublicationInv'
<1>1. /\ PublicationTypeOK /\ TraceInv /\ QuarantineInv /\ NothingForeignIsLost
      /\ op # "set" => ~uncertain
  BY UndoFacts
<1>2. Target' = Target
  BY QuietFacts
<1>3. PublicationTypeOK'
  BY <1>1, QuietFacts DEF PublicationTypeOK
<1>4. TraceInv' /\ NothingForeignIsLost'
  BY <1>1, QuietFacts DEF TraceInv
<1>5. pc' \notin Forward \cup {"pair"}
  BY DEF Undoing, Removing, Forward, Starting, Committing, Linking, Closing, Proving
<1>6. QuarantineInv'
  <2>1. \A m \in linked : quarantine[m] = Absent \/ (pc \in {"inspect", "unlink"} /\ m = Target)
    BY <1>1 DEF QuarantineInv
  <2>2. pc' = "unlink" => Aside(Target)'
    BY QuietFacts
  <2>3. QED
    BY <1>2, <1>5, <2>1, <2>2, QuietFacts DEF QuarantineInv
<1>7. QED
  BY <1>1, <1>3, <1>4, <1>6, UndoKeeps DEF Quiet

LEMMA RollbackVerifyKeeps ==
    ASSUME PublicationInv, RollbackVerify, Noted
    PROVE  PublicationInv'
<1>1. /\ pc \in {"rollback", "cleanup_member"} /\ pc \in Undoing /\ linked # {} /\ Quiet
      /\ UNCHANGED <<cur, check, round, doubts, err>>
  BY DEF RollbackVerify, Loop, Undoing, Quiet
<1>2. PublicationTypeOK /\ NothingForeignIsLost
  BY DEF PublicationInv
<1>3. CASE Goto("quarantine") /\ UNCHANGED <<uncertain, linked>>
  <2>1. pc' = "quarantine" /\ UNCHANGED result /\ pc' \in Undoing
    BY <1>3 DEF Goto, Undoing, Removing
  <2>2. QED
    BY <1>1, <1>3, <2>1, QuietUndoKeeps
<1>4. CASE GiveUp
  BY <1>1, <1>2, <1>4, QuietFacts, GiveUpKeeps DEF PublicationTypeOK, Quiet
<1>5. QED
  BY <1>3, <1>4 DEF RollbackVerify

(* What a name of ours refers to is moved to its quarantine name, which    *)
(* nothing has had before.                                                 *)
LEMMA QuarantineKeeps ==
    ASSUME PublicationInv, Quarantine, Noted
    PROVE  PublicationInv'
<1>1. /\ pc = "quarantine" /\ pc \in Undoing
      /\ UNCHANGED <<op, elsewhere, staging, final, good, durable, changes, placed>>
      /\ UNCHANGED <<cur, check, round, doubts, err>>
  BY DEF Quarantine, Undoing, Removing, Noted, others
<1>2. /\ PublicationTypeOK /\ PhaseInv /\ TraceInv /\ QuarantineInv /\ NothingForeignIsLost
      /\ op # "set" => ~uncertain
      /\ linked \subseteq Active /\ Active \subseteq Members
      /\ placed \subseteq Foreign /\ Absent \notin Foreign
      /\ \A m \in Members : m \notin Foreign /\ m # Absent
  BY <1>1, UndoFacts
<1>3. linked # {} /\ Target \in linked /\ Target \in Active /\ Target \in Members
  <2>1. linked # {}
    BY <1>1 DEF PublicationInv, LinkInv, Removing
  <2>2. QED
    BY <2>1, <1>2, TargetIsLinked
<1>4. CASE /\ at[Target] # Absent
           /\ quarantine' = [quarantine EXCEPT ![Target] = at[Target]]
           /\ at' = [at EXCEPT ![Target] = Absent]
           /\ meta' = [m \in Members |-> IF m = at[Target] THEN "changed" ELSE meta[m]]
           /\ Goto("inspect") /\ UNCHANGED <<uncertain, linked>>
  <2>1. pc' = "inspect" /\ UNCHANGED result /\ pc' \in Undoing /\ pc' \notin Forward \cup {"pair"}
    BY <1>4 DEF Goto, Undoing, Removing, Forward, Starting, Committing, Linking, Closing, Proving
  <2>2. /\ Last' = Last /\ Active' = Active /\ Target' = Target /\ whole' \in BOOLEAN
    BY <1>1, <1>4 DEF Last, Active, Target, Noted
  <2>3. PICK t : t = Target
    OBVIOUS
  <2>4. /\ at \in [Members -> Members \cup Foreign \cup {Absent}]
        /\ quarantine \in [Members -> Members \cup Foreign \cup {Absent}]
        /\ t \in Members /\ t \in Active /\ t \in linked
    BY <1>2, <1>3, <2>3 DEF PublicationTypeOK
  <2>5. /\ at' \in [Members -> Members \cup Foreign \cup {Absent}]
        /\ quarantine' \in [Members -> Members \cup Foreign \cup {Absent}]
        /\ at'[t] = Absent /\ quarantine'[t] = at[t]
        /\ \A n \in Members \ {t} : at'[n] = at[n] /\ quarantine'[n] = quarantine[n]
    BY <1>4, <2>3, <2>4
  <2>6. meta' \in [Members -> {"none", "same", "changed"}]
    BY <1>2, <1>4 DEF PublicationTypeOK
  <2>7. PublicationTypeOK'
    BY <1>1, <1>2, <1>4, <2>2, <2>5, <2>6 DEF PublicationTypeOK
  <2>8. \A m \in Active \ linked : Nowhere(m) => Nowhere(m)'
    BY <1>1, <1>2, <2>2, <2>4, <2>5 DEF Nowhere
  <2>9. TraceInv'
    BY <1>2, <1>4, <2>2, <2>8 DEF TraceInv
  <2>10. \A m \in linked : quarantine[m] = Absent
    BY <1>1, <1>2 DEF QuarantineInv
  <2>11. QuarantineInv'
    <3>1. \A m \in linked' : quarantine'[m] = Absent \/ m = Target'
      BY <1>2, <1>4, <2>2, <2>3, <2>5, <2>10
    <3>2. QED
      BY <2>1, <3>1 DEF QuarantineInv
  <2>12. NothingForeignIsLost'
    <3>1. {at[m] : m \in Members} \subseteq {at'[m] : m \in Members} \cup {quarantine'[m] : m \in Members}
      BY <2>4, <2>5
    <3>2. {quarantine[m] : m \in Members} \ {Absent} \subseteq {quarantine'[m] : m \in Members}
      BY <2>4, <2>5, <2>10
    <3>3. QED
      BY <1>1, <1>2, <3>1, <3>2 DEF NothingForeignIsLost
  <2>13. QED
    BY <1>1, <1>2, <1>3, <1>4, <2>1, <2>7, <2>9, <2>11, <2>12, UndoKeeps
<1>5. CASE GiveUp /\ UNCHANGED <<at, quarantine, meta>>
  <2>1. NothingForeignIsLost'
    BY <1>1, <1>2, <1>5 DEF NothingForeignIsLost
  <2>2. QED
    BY <1>1, <1>2, <1>3, <1>5, <2>1, GiveUpKeeps DEF PublicationTypeOK
<1>6. QED
  BY <1>4, <1>5 DEF Quarantine

(* Only a file that is our own and has no other name passes the inspection.*)
LEMMA InspectKeeps ==
    ASSUME PublicationInv, Inspect, Noted
    PROVE  PublicationInv'
<1>1. /\ pc = "inspect" /\ pc \in Undoing /\ Quiet /\ UNCHANGED <<cur, check, round, doubts, err>>
  BY DEF Inspect, Undoing, Removing, Quiet
<1>2. PublicationTypeOK /\ NothingForeignIsLost /\ linked # {}
  BY <1>1 DEF PublicationInv, LinkInv, Removing
<1>3. CASE /\ quarantine[Target] = Target /\ Links(Target) = 1 /\ good[Target]
           /\ Goto("unlink") /\ UNCHANGED <<uncertain, linked>>
  <2>1. pc' = "unlink" /\ UNCHANGED result /\ pc' \in Undoing
    BY <1>3 DEF Goto, Undoing, Removing
  <2>2. Aside(Target)
    BY <1>2, <1>3, TargetIsLinked, LinksCount
  <2>3. QED
    BY <1>1, <1>2, <1>3, <2>1, <2>2, QuietUndoKeeps
<1>4. CASE GiveUp
  BY <1>1, <1>2, <1>4, QuietFacts, GiveUpKeeps DEF PublicationTypeOK, Quiet
<1>5. QED
  BY <1>3, <1>4 DEF Inspect

(* The only removal of a file: it is our own, and gone completely.         *)
LEMMA UnlinkKeeps ==
    ASSUME PublicationInv, Unlink, Noted
    PROVE  PublicationInv'
<1>1. /\ pc = "unlink" /\ pc \in Undoing
      /\ UNCHANGED <<op, at, elsewhere, staging, final, good, meta, durable, changes, placed>>
      /\ UNCHANGED <<cur, check, round, doubts, err>>
  BY DEF Unlink, Undoing, Removing, Noted, inodes, others
<1>2. /\ PublicationTypeOK /\ PhaseInv /\ TraceInv /\ QuarantineInv /\ NothingForeignIsLost
      /\ op # "set" => ~uncertain /\ op \in {"set", "directory"}
      /\ linked \subseteq Active /\ Active \subseteq Members
      /\ placed \subseteq Foreign /\ Absent \notin Foreign
      /\ \A m \in Members : m \notin Foreign /\ m # Absent
  BY <1>1, UndoFacts
<1>3. linked # {} /\ Target \in linked /\ Target \in Active /\ Target \in Members
  <2>1. linked # {}
    BY <1>1 DEF PublicationInv, LinkInv, Removing
  <2>2. QED
    BY <2>1, <1>2, TargetIsLinked
<1>4. PICK t : t = Target
  OBVIOUS
<1>5. /\ quarantine \in [Members -> Members \cup Foreign \cup {Absent}]
      /\ t \in Members /\ t \in Active /\ t \in linked /\ Aside(t) /\ quarantine[t] = t
  BY <1>1, <1>2, <1>3, <1>4 DEF PublicationTypeOK, QuarantineInv, Aside
<1>6. ASSUME quarantine' = [quarantine EXCEPT ![Target] = Absent]
      PROVE  /\ quarantine' \in [Members -> Members \cup Foreign \cup {Absent}]
             /\ quarantine'[t] = Absent
             /\ \A n \in Members \ {t} : quarantine'[n] = quarantine[n]
             /\ NothingForeignIsLost'
  <2>1. /\ quarantine' \in [Members -> Members \cup Foreign \cup {Absent}]
        /\ quarantine'[t] = Absent
        /\ \A n \in Members \ {t} : quarantine'[n] = quarantine[n]
    BY <1>4, <1>5, <1>6
  <2>2. {quarantine[m] : m \in Members} \ {t} \subseteq {quarantine'[m] : m \in Members}
    BY <1>5, <2>1
  <2>3. NothingForeignIsLost'
    BY <1>1, <1>2, <1>5, <2>2 DEF NothingForeignIsLost
  <2>4. QED
    BY <2>1, <2>3
<1>7. CASE /\ quarantine' = [quarantine EXCEPT ![Target] = Absent]
           /\ linked' = linked \ {Target} /\ Goto(Loop) /\ UNCHANGED uncertain
  <2>1. /\ pc' \in {"rollback", "cleanup_member"} /\ UNCHANGED result
        /\ pc' = "cleanup_member" => op = "directory"
        /\ pc' \in Undoing /\ pc' \notin Forward \cup Removing \cup {"pair", "cleanup"}
    BY <1>2, <1>7 DEF Goto, Loop, Undoing, Removing, Forward, Starting, Committing, Linking, Closing, Proving
  <2>2. Last' = Last /\ Active' = Active /\ whole' \in BOOLEAN
    BY <1>1 DEF Last, Active, Noted
  <2>3. PublicationTypeOK'
    BY <1>1, <1>2, <1>6, <1>7, <2>2 DEF PublicationTypeOK
  <2>4. \A m \in Active : Nowhere(m) \/ m = t => Nowhere(m)'
    BY <1>1, <1>2, <1>5, <1>6, <1>7, <2>2 DEF Nowhere, Aside
  <2>5. TraceInv'
    BY <1>2, <1>4, <1>7, <2>2, <2>4 DEF TraceInv
  <2>6. \A m \in linked' : quarantine'[m] = Absent
    BY <1>1, <1>2, <1>4, <1>6, <1>7 DEF QuarantineInv
  <2>7. QuarantineInv'
    BY <2>1, <2>6 DEF QuarantineInv
  <2>8. QED
    BY <1>1, <1>2, <1>6, <1>7, <2>1, <2>3, <2>5, <2>7, UndoKeeps
<1>8. CASE UNCHANGED quarantine /\ GiveUp
  <2>1. NothingForeignIsLost'
    BY <1>1, <1>2, <1>8 DEF NothingForeignIsLost
  <2>2. QED
    BY <1>1, <1>3, <1>5, <1>8, <2>1, GiveUpKeeps
<1>9. CASE op = "set" /\ quarantine' = [quarantine EXCEPT ![Target] = Absent] /\ GiveUp
  <2>1. \A m \in Members \ {Target} : quarantine'[m] = quarantine[m]
    BY <1>4, <1>6, <1>9
  <2>2. QED
    BY <1>1, <1>3, <1>6, <1>9, <2>1, GiveUpKeeps
<1>10. QED
  BY <1>7, <1>8, <1>9 DEF Unlink

(* The ways out of a rollback and of a clean-up.                           *)
LEMMA RollbackEndsKeeps ==
    ASSUME PublicationInv, Noted, RollbackEnds \/ CleanupName \/ RemoveStaging
    PROVE  PublicationInv'
<1>1. /\ pc \in {"rollback", "cleanup", "cleanup_member"} /\ pc \in Undoing
      /\ UNCHANGED <<op, at, quarantine, elsewhere, final, good, meta, durable, changes, placed>>
      /\ UNCHANGED <<cur, check, round, linked, doubts, err, uncertain>>
  BY DEF RollbackEnds, CleanupName, RemoveStaging, Undoing, names, inodes, local, others, Noted
<1>2. /\ PublicationTypeOK /\ PhaseInv /\ TraceInv /\ QuarantineInv /\ NothingForeignIsLost
      /\ op \in {"set", "directory"} /\ doubts \subseteq Doubts /\ err # "Ok"
      /\ op # "set" => ~uncertain
      /\ placed \subseteq Foreign /\ Absent \notin Foreign
  BY <1>1, UndoFacts
<1>3. op' = op /\ Active' = Active /\ Last' = Last
  BY <1>1 DEF Active, Last
<1>4. CASE RollbackEnds
  <2>1. /\ pc' = "done" /\ linked = {} /\ UNCHANGED staging
        /\ result' = IF uncertain THEN RollbackUncertain ELSE err
    BY <1>4 DEF RollbackEnds, Return, names
  <2>2. ResultInv'
    BY <1>1, <1>2, <1>3, <2>1 DEF ResultInv, RollbackUncertain
  <2>3. NothingForeignIsLost'
    BY <1>1, <1>2, <2>1 DEF NothingForeignIsLost
  <2>4. QED
    BY <1>1, <1>2, <2>1, <2>2, <2>3, EndKeeps DEF PublicationTypeOK
<1>5. CASE CleanupName
  <2>1. pc = "cleanup" /\ UNCHANGED staging /\ Quiet /\ op = "directory"
    BY <1>2, <1>5 DEF CleanupName, names, Quiet, PhaseInv
  <2>2. CASE Goto("cleanup_member")
    <3>1. /\ pc' = "cleanup_member" /\ UNCHANGED result /\ pc' \in Undoing
          /\ pc' \notin Removing
      BY <2>2 DEF Goto, Undoing, Removing
    <3>2. QED
      BY <1>1, <2>1, <3>1, QuietUndoKeeps
  <2>3. CASE Return(RollbackUncertain)
    <3>1. pc' = "done" /\ result' = RollbackUncertain
      BY <2>3 DEF Return
    <3>2. ResultInv'
      BY <1>3, <2>1, <3>1 DEF ResultInv, RollbackUncertain
    <3>3. NothingForeignIsLost'
      BY <1>2, <2>1, QuietFacts
    <3>4. QED
      BY <1>1, <1>2, <2>1, <3>1, <3>2, <3>3, EndKeeps DEF PublicationTypeOK
  <2>4. QED
    BY <1>5, <2>2, <2>3 DEF CleanupName
<1>6. CASE RemoveStaging
  <2>1. /\ pc' = "done" /\ linked = {} /\ op = "directory" /\ result' \in {err, RollbackUncertain}
        /\ staging' = staging \/ (staging = OwnDir /\ staging' \in {OwnDir, Absent})
    BY <1>2, <1>6 DEF RemoveStaging, Return, PhaseInv
  <2>2. ResultInv'
    BY <1>1, <1>2, <1>3, <2>1 DEF ResultInv, RollbackUncertain
  <2>3. NothingForeignIsLost'
    BY <1>1, <1>2, <2>1, PublicationAssumption DEF NothingForeignIsLost
  <2>4. QED
    BY <1>1, <1>2, <2>1, <2>2, <2>3, EndKeeps DEF PublicationTypeOK
<1>7. QED
  BY <1>4, <1>5, <1>6

-----------------------------------------------------------------------------
(* Other processes.                                                        *)

(* What a step of another process may do to our files: a file without a    *)
(* name gets none, a quarantined file stays, a spoiled one stays spoiled   *)
(* and an intact one stays intact or is spoiled.                           *)
LEMMA StrangersOnlySpoil ==
    ASSUME PublicationTypeOK, NothingForeignIsLost, UNCHANGED <<op, quarantine, durable>>,
           \/ \E m \in Active : Carry(m) \/ Write(m) \/ \E n \in Active : CarryTo(m, n)
           \/ \E f \in Foreign : \/ AddEntry(f) \/ DropEntry(f) \/ TakeName(f)
                                 \/ \E m \in Active : Occupy(m, f)
    PROVE  /\ \A m \in Active : /\ Nowhere(m) => Nowhere(m)'
                                /\ Aside(m) => Aside(m)'
                                /\ Spoiled(m) => Spoiled(m)'
                                /\ Intact(m) => Intact(m)' \/ Spoiled(m)'
           /\ NothingForeignIsLost'
           /\ at' \in [Members -> Members \cup Foreign \cup {Absent}]
           /\ elsewhere' \subseteq Members \cup Foreign
           /\ staging' \in Foreign \cup {Absent, OwnDir}
           /\ final' \in Foreign \cup {Absent, OwnDir}
           /\ good' \in [Members -> BOOLEAN]
           /\ meta' \in [Members -> {"none", "same", "changed"}]
           /\ placed' \subseteq Foreign
<1>1. /\ Active \subseteq Members /\ Last' = Last /\ Active' = Active
      /\ \A m \in Members : m \notin Foreign /\ m # Absent
      /\ Absent \notin Foreign /\ OwnDir \notin Foreign
      /\ at \in [Members -> Members \cup Foreign \cup {Absent}]
      /\ elsewhere \subseteq Members \cup Foreign
      /\ staging \in Foreign \cup {Absent, OwnDir}
      /\ final \in Foreign \cup {Absent, OwnDir}
      /\ good \in [Members -> BOOLEAN]
      /\ meta \in [Members -> {"none", "same", "changed"}]
      /\ placed \subseteq Foreign
  BY ActiveFacts, PublicationAssumption DEF PublicationTypeOK, Active, Last
<1>2. ASSUME NEW m \in Active, Moves(m)
      PROVE  /\ meta' \in [Members -> {"none", "same", "changed"}] /\ meta'[m] # "same"
             /\ \A k \in Members \ {m} : meta'[k] = meta[k]
             /\ \A k \in Members : meta[k] # "same" => meta'[k] # "same"
  BY <1>1, <1>2 DEF Moves
<1>3. ASSUME NEW m \in Active, NEW f \in Foreign, Occupy(m, f) PROVE
             /\ \A k \in Active : /\ Nowhere(k) => Nowhere(k)'
                                  /\ Aside(k) => Aside(k)'
                                  /\ AtHome(k) => AtHome(k)' \/ Nowhere(k)'
             /\ NothingForeignIsLost'
             /\ at' \in [Members -> Members \cup Foreign \cup {Absent}]
             /\ UNCHANGED <<elsewhere, staging, final, good, meta>> /\ placed' \subseteq Foreign
  <2>1. /\ at[m] \in {Absent, m} /\ placed' = placed \cup {f} /\ m \in Members
        /\ at' = [at EXCEPT ![m] = f] /\ UNCHANGED <<elsewhere, staging, final, good, meta>>
    BY <1>1, <1>3 DEF Occupy, New
  <2>2. /\ at' \in [Members -> Members \cup Foreign \cup {Absent}]
        /\ at'[m] = f /\ \A n \in Members \ {m} : at'[n] = at[n]
    BY <1>1, <2>1
  <2>3. \A k \in Active : Nowhere(k) => Nowhere(k)'
    BY <1>1, <2>1, <2>2 DEF Nowhere
  <2>4. \A k \in Active : Aside(k) => Aside(k)'
    BY <1>1, <2>1, <2>2 DEF Aside
  <2>5. \A k \in Active : AtHome(k) => AtHome(k)' \/ Nowhere(k)'
    BY <1>1, <2>1, <2>2 DEF Nowhere, AtHome
  <2>6. NothingForeignIsLost'
    <3>1. {at[n] : n \in Members} \ {Absent, m} \subseteq {at'[n] : n \in Members}
      BY <1>1, <2>1, <2>2
    <3>2. f \in {at'[n] : n \in Members}
      BY <2>1, <2>2
    <3>3. QED
      BY <1>1, <2>1, <3>1, <3>2 DEF NothingForeignIsLost
  <2>7. QED
    BY <1>1, <2>1, <2>2, <2>3, <2>4, <2>5, <2>6
<1>4. ASSUME NEW m \in Active, Carry(m) PROVE
             /\ \A k \in Active : /\ Nowhere(k) => Nowhere(k)'
                                  /\ Aside(k) => Aside(k)'
                                  /\ AtHome(k) /\ k # m => AtHome(k)'
             /\ NothingForeignIsLost' /\ Moves(m)
             /\ at' \in [Members -> Members \cup Foreign \cup {Absent}]
             /\ elsewhere' \subseteq Members \cup Foreign
             /\ UNCHANGED <<staging, final, good, placed>>
  <2>1. /\ at[m] = m /\ at' = [at EXCEPT ![m] = Absent] /\ elsewhere' = elsewhere \cup {m}
        /\ Moves(m) /\ UNCHANGED <<staging, final, good, placed>> /\ m \in Members
    BY <1>1, <1>4 DEF Carry
  <2>2. /\ at' \in [Members -> Members \cup Foreign \cup {Absent}]
        /\ at'[m] = Absent /\ \A n \in Members \ {m} : at'[n] = at[n]
    BY <1>1, <2>1
  <2>3. \A k \in Active : Nowhere(k) => Nowhere(k)'
    BY <1>1, <2>1, <2>2 DEF Nowhere
  <2>4. \A k \in Active : Aside(k) => Aside(k)'
    BY <1>1, <2>1, <2>2 DEF Aside
  <2>5. \A k \in Active : AtHome(k) /\ k # m => AtHome(k)'
    BY <1>1, <2>1, <2>2 DEF AtHome
  <2>6. NothingForeignIsLost'
    <3>1. {at[n] : n \in Members} \ {m} \subseteq {at'[n] : n \in Members}
      BY <1>1, <2>1, <2>2
    <3>2. QED
      BY <1>1, <2>1, <3>1 DEF NothingForeignIsLost
  <2>7. QED
    BY <1>1, <2>1, <2>2, <2>3, <2>4, <2>5, <2>6
<1>5. ASSUME NEW m \in Active, NEW n \in Active, CarryTo(m, n) PROVE
             /\ \A k \in Active : /\ Nowhere(k) => Nowhere(k)'
                                  /\ Aside(k) => Aside(k)'
                                  /\ AtHome(k) /\ k # m => AtHome(k)'
             /\ NothingForeignIsLost' /\ Moves(m)
             /\ at' \in [Members -> Members \cup Foreign \cup {Absent}]
             /\ elsewhere' \subseteq Members \cup Foreign
             /\ UNCHANGED <<staging, final, good, placed>>
  <2>1. /\ m \in elsewhere /\ at[n] = Absent /\ at' = [at EXCEPT ![n] = m]
        /\ elsewhere' = elsewhere \ {m} /\ Moves(m)
        /\ UNCHANGED <<staging, final, good, placed>> /\ m \in Members /\ n \in Members
    BY <1>1, <1>5 DEF CarryTo
  <2>2. /\ at' \in [Members -> Members \cup Foreign \cup {Absent}]
        /\ at'[n] = m /\ \A k \in Members \ {n} : at'[k] = at[k]
    BY <1>1, <2>1
  <2>3. \A k \in Active : Nowhere(k) => Nowhere(k)'
    BY <1>1, <2>1, <2>2 DEF Nowhere
  <2>4. \A k \in Active : Aside(k) => Aside(k)'
    BY <1>1, <2>1, <2>2 DEF Aside
  <2>5. \A k \in Active : AtHome(k) /\ k # m => AtHome(k)'
    BY <1>1, <2>1, <2>2 DEF AtHome
  <2>6. NothingForeignIsLost'
    <3>1. {at[k] : k \in Members} \ {Absent} \subseteq {at'[k] : k \in Members}
      BY <1>1, <2>1, <2>2
    <3>2. QED
      BY <1>1, <2>1, <3>1 DEF NothingForeignIsLost
  <2>7. QED
    BY <1>1, <2>1, <2>2, <2>3, <2>4, <2>5, <2>6
<1>6. ASSUME NEW f \in Foreign, AddEntry(f) \/ DropEntry(f) \/ TakeName(f) PROVE
             /\ \A k \in Active : /\ Nowhere(k) => Nowhere(k)'
                                  /\ Aside(k) => Aside(k)'
                                  /\ AtHome(k) => AtHome(k)'
             /\ NothingForeignIsLost'
             /\ elsewhere' \subseteq Members \cup Foreign
             /\ staging' \in Foreign \cup {Absent, OwnDir}
             /\ final' \in Foreign \cup {Absent, OwnDir}
             /\ UNCHANGED <<at, good, meta>> /\ placed' \subseteq Foreign
  <2>1. /\ UNCHANGED <<at, good, meta>> /\ elsewhere' \subseteq elsewhere \cup {f}
        /\ placed' \subseteq placed \cup {f} /\ elsewhere \subseteq elsewhere' \cup {f}
    BY <1>6 DEF AddEntry, DropEntry, TakeName, New
  <2>2. \A k \in Active : k # f
    BY <1>1
  <2>3. \A k \in Active : Nowhere(k) => Nowhere(k)'
    BY <1>1, <2>1, <2>2 DEF Nowhere
  <2>4. \A k \in Active : Aside(k) => Aside(k)'
    BY <1>1, <2>1, <2>2 DEF Aside
  <2>5. \A k \in Active : AtHome(k) => AtHome(k)'
    BY <1>1, <2>1, <2>2 DEF AtHome
  <2>6. /\ staging' \in Foreign \cup {Absent, OwnDir} /\ final' \in Foreign \cup {Absent, OwnDir}
    BY <1>1, <1>6 DEF AddEntry, DropEntry, TakeName
  <2>7. NothingForeignIsLost'
    BY <1>1, <1>6, <2>1 DEF NothingForeignIsLost, AddEntry, DropEntry, TakeName, New
  <2>8. QED
    BY <1>1, <2>1, <2>3, <2>4, <2>5, <2>6, <2>7
<1>7. ASSUME NEW m \in Active, Write(m) PROVE
             /\ \A k \in Active : /\ Nowhere(k) => Nowhere(k)'
                                  /\ Aside(k) => Aside(k)'
                                  /\ AtHome(k) => AtHome(k)'
             /\ NothingForeignIsLost' /\ Moves(m)
             /\ good' \in [Members -> BOOLEAN] /\ \A k \in Members \ {m} : good'[k] = good[k]
             /\ UNCHANGED <<at, elsewhere, staging, final, placed>>
  <2>1. Moves(m) /\ UNCHANGED <<at, elsewhere, staging, final, placed>>
    BY <1>7 DEF Write
  <2>2. good' \in [Members -> BOOLEAN] /\ \A k \in Members \ {m} : good'[k] = good[k]
    BY <1>1, <1>7 DEF Write
  <2>3. \A k \in Active : /\ Nowhere(k) => Nowhere(k)'
                          /\ Aside(k) => Aside(k)'
                          /\ AtHome(k) => AtHome(k)'
    BY <1>1, <2>1 DEF Nowhere, Aside, AtHome
  <2>4. NothingForeignIsLost'
    BY <2>1 DEF NothingForeignIsLost
  <2>5. QED
    BY <2>1, <2>2, <2>3, <2>4
<1>8. CASE \E m \in Active : Carry(m) \/ Write(m) \/ \E n \in Active : CarryTo(m, n)
  <2>1. PICK m \in Active : Carry(m) \/ Write(m) \/ \E n \in Active : CarryTo(m, n)
    BY <1>8
  <2>2. /\ \A k \in Active : /\ Nowhere(k) => Nowhere(k)'
                             /\ Aside(k) => Aside(k)'
                             /\ AtHome(k) /\ k # m => AtHome(k)'
        /\ NothingForeignIsLost' /\ Moves(m)
        /\ at' \in [Members -> Members \cup Foreign \cup {Absent}]
        /\ elsewhere' \subseteq Members \cup Foreign
        /\ good' \in [Members -> BOOLEAN] /\ \A k \in Members \ {m} : good'[k] = good[k]
        /\ UNCHANGED <<staging, final, placed>>
    BY <1>1, <1>4, <1>5, <1>7, <2>1
  <2>3. \A k \in Active : k \in Members
    BY <1>1
  <2>4. \A k \in Active : Spoiled(k) => Spoiled(k)'
    BY <1>2, <2>2, <2>3 DEF Spoiled
  <2>5. \A k \in Active : Intact(k) => Intact(k)' \/ Spoiled(k)'
    BY <1>2, <2>2, <2>3 DEF Intact, Spoiled
  <2>6. QED
    BY <1>1, <1>2, <2>2, <2>4, <2>5
<1>9. CASE \E f \in Foreign : \/ AddEntry(f) \/ DropEntry(f) \/ TakeName(f)
                              \/ \E m \in Active : Occupy(m, f)
  <2>1. /\ \A k \in Active : /\ Nowhere(k) => Nowhere(k)'
                             /\ Aside(k) => Aside(k)'
                             /\ AtHome(k) => AtHome(k)' \/ Nowhere(k)'
        /\ NothingForeignIsLost'
        /\ at' \in [Members -> Members \cup Foreign \cup {Absent}]
        /\ elsewhere' \subseteq Members \cup Foreign
        /\ staging' \in Foreign \cup {Absent, OwnDir}
        /\ final' \in Foreign \cup {Absent, OwnDir}
        /\ UNCHANGED <<good, meta>> /\ placed' \subseteq Foreign
    BY <1>1, <1>3, <1>6, <1>9
  <2>2. \A k \in Active : /\ Spoiled(k) => Spoiled(k)'
                          /\ Intact(k) => Intact(k)' \/ Spoiled(k)'
    BY <2>1 DEF Spoiled, Intact
  <2>3. QED
    BY <1>1, <2>1, <2>2
<1>10. QED
  BY <1>8, <1>9

LEMMA InterfereKeeps ==
    ASSUME PublicationInv, Interfere, Noted
    PROVE  PublicationInv'
<1>1. /\ PublicationTypeOK /\ PhaseInv /\ LinkInv /\ CommitInv /\ WholeInv /\ TraceInv
      /\ QuarantineInv /\ ResultInv /\ NothingForeignIsLost
  BY DEF PublicationInv
<1>2. /\ UNCHANGED <<op, quarantine, durable, pc, result>>
      /\ UNCHANGED <<cur, check, round, linked, doubts, err, uncertain>>
      /\ result = "none" /\ changes' = changes + 1 /\ changes < MaxChanges
      /\ pc \notin {"preflight_set", "mkdir"}
  BY <1>1 DEF Interfere, Noted, local, Reachable, PhaseInv
<1>3. /\ \A m \in Active : /\ Nowhere(m) => Nowhere(m)'
                           /\ Aside(m) => Aside(m)'
                           /\ Spoiled(m) => Spoiled(m)'
                           /\ Intact(m) => Intact(m)' \/ Spoiled(m)'
      /\ NothingForeignIsLost'
      /\ at' \in [Members -> Members \cup Foreign \cup {Absent}]
      /\ elsewhere' \subseteq Members \cup Foreign
      /\ staging' \in Foreign \cup {Absent, OwnDir}
      /\ final' \in Foreign \cup {Absent, OwnDir}
      /\ good' \in [Members -> BOOLEAN]
      /\ meta' \in [Members -> {"none", "same", "changed"}]
      /\ placed' \subseteq Foreign
  BY <1>1, <1>2, StrangersOnlySpoil DEF Interfere
<1>4. /\ Last' = Last /\ Active' = Active /\ Target' = Target
      /\ (PairIsUp' <=> PairIsUp) /\ Committed' = Committed
  BY <1>2 DEF Last, Active, Target, PairIsUp, Committed
<1>5. whole' \in BOOLEAN /\ (whole => whole')
  BY DEF Noted
<1>6. PublicationTypeOK'
  <2>1. changes' \in 0 .. MaxChanges
    BY <1>1, <1>2, PublicationAssumption DEF PublicationTypeOK
  <2>2. QED
    BY <1>1, <1>2, <1>3, <1>4, <1>5, <2>1 DEF PublicationTypeOK
<1>7. PhaseInv'
  BY <1>1, <1>2, <1>4 DEF PhaseInv
<1>8. LinkInv'
  BY <1>1, <1>2, <1>4 DEF LinkInv
<1>9. CommitInv'
  <2>1. Committed \subseteq Active
    BY <1>1, ActiveFacts DEF Committed, PublicationTypeOK
  <2>2. QED
    BY <1>1, <1>2, <1>3, <1>4, <2>1 DEF CommitInv
<1>10. WholeInv'
  BY <1>1, <1>2, <1>3, <1>4, <1>5 DEF WholeInv
<1>11. TraceInv'
  BY <1>1, <1>2, <1>3, <1>4 DEF TraceInv
<1>12. QuarantineInv'
  <2>1. pc = "unlink" => Target \in Active /\ Aside(Target)
    BY <1>1, TargetIsLinked DEF QuarantineInv, LinkInv, Removing
  <2>2. PICK t : t = Target
    OBVIOUS
  <2>3. pc = "unlink" => Aside(t)'
    BY <1>3, <2>1, <2>2
  <2>4. Aside(t)' => Aside(Target)'
    BY <1>4, <2>2
  <2>5. QED
    BY <1>1, <1>2, <1>4, <2>3, <2>4 DEF QuarantineInv
<1>13. ResultInv'
  BY <1>2 DEF ResultInv
<1>14. QED
  BY <1>3, <1>6, <1>7, <1>8, <1>9, <1>10, <1>11, <1>12, <1>13 DEF PublicationInv

-----------------------------------------------------------------------------
(* The theorems.                                                           *)

LEMMA PublicationInitInv == PublicationInit => PublicationInv
<1> SUFFICES ASSUME PublicationInit PROVE PublicationInv
  OBVIOUS
<1>1. /\ pc \in {"preflight_set", "prepare"} /\ (pc = "preflight_set" => op = "directory")
      /\ result = "none" /\ linked = {} /\ ~uncertain /\ err = "none" /\ staging = Absent
      /\ quarantine = [m \in Members |-> Absent] /\ at = [m \in Members |-> Absent]
      /\ elsewhere = {} /\ placed = {}
  BY DEF PublicationInit
<1>2. PublicationTypeOK
  <2>1. Last \in Nat \ {0} /\ 1 \in Active /\ Active = 1 .. Last
    BY PublicationAssumption DEF Last, Active
  <2>2. 1 \in 1 .. Rounds /\ 0 \in 0 .. MaxChanges /\ 1 \in 1 .. Last + 1
    BY <2>1, PublicationAssumption
  <2>3. QED
    BY <2>1, <2>2 DEF PublicationInit, PublicationTypeOK
<1>3. /\ pc \in Starting /\ pc \in Forward /\ ~PairIsUp
      /\ pc \notin Committing \cup Linking \cup Closing \cup Proving \cup Undoing \cup Removing
      /\ pc \notin {"mkdir", "pair", "done"}
  BY <1>1 DEF Forward, Starting, Committing, Linking, Closing, Proving, Undoing, Removing, PairIsUp
<1>4. PhaseInv
  BY <1>1, <1>3 DEF PhaseInv, Undoing
<1>5. LinkInv
  BY <1>1, <1>3 DEF LinkInv
<1>6. Committed = {}
  BY <1>3 DEF Committed
<1>7. CommitInv /\ WholeInv
  BY <1>1, <1>3, <1>6 DEF CommitInv, WholeInv
<1>8. TraceInv
  BY <1>1, <1>2, ActiveFacts DEF TraceInv, Nowhere
<1>9. QuarantineInv /\ ResultInv /\ NothingForeignIsLost
  BY <1>1, <1>3 DEF QuarantineInv, ResultInv, NothingForeignIsLost, Removing
<1>10. QED
  BY <1>2, <1>4, <1>5, <1>7, <1>8, <1>9 DEF PublicationInv

LEMMA PublicationNextInv ==
    PublicationInv /\ [PublicationNext]_publicationVars => PublicationInv'
<1> SUFFICES ASSUME PublicationInv, [PublicationNext]_publicationVars PROVE PublicationInv'
  OBVIOUS
<1>1. CASE UNCHANGED publicationVars
  <2>1. /\ UNCHANGED <<op, at, quarantine, elsewhere, staging, final, good, meta, durable, pc>>
        /\ UNCHANGED <<cur, check, round, linked, doubts, err, uncertain>>
        /\ UNCHANGED <<result, changes, placed, whole>>
    BY <1>1 DEF publicationVars, names, inodes, local, others
  <2>2. Last' = Last /\ Active' = Active /\ Target' = Target
    BY <2>1 DEF Last, Active, Target
  <2>3. \A m : /\ Nowhere(m)' <=> Nowhere(m)
               /\ Aside(m)' <=> Aside(m)
               /\ AtHome(m)' <=> AtHome(m)
    BY <2>1, <2>2 DEF Nowhere, Aside, AtHome
  <2>4. \A m : (Intact(m)' <=> Intact(m)) /\ (Spoiled(m)' <=> Spoiled(m))
    BY <2>1, <2>3 DEF Intact, Spoiled
  <2>5. (PairIsUp' <=> PairIsUp) /\ Committed' = Committed
    BY <2>1, <2>2 DEF PairIsUp, Committed
  <2>6. PublicationTypeOK' /\ PhaseInv' /\ LinkInv'
    BY <2>1, <2>2, <2>5 DEF PublicationInv, PublicationTypeOK, PhaseInv, LinkInv
  <2>7. CommitInv' /\ WholeInv' /\ TraceInv'
    BY <2>1, <2>2, <2>3, <2>4, <2>5 DEF PublicationInv, CommitInv, WholeInv, TraceInv
  <2>8. QuarantineInv' /\ ResultInv' /\ NothingForeignIsLost'
    BY <2>1, <2>2, <2>3 DEF PublicationInv, QuarantineInv, ResultInv, NothingForeignIsLost
  <2>9. QED
    BY <2>6, <2>7, <2>8 DEF PublicationInv
<1>2. CASE Publish /\ Noted
  BY <1>2, PrepareKeeps, PreflightKeeps, GuardKeeps, LinkKeeps, PostlinkKeeps, FinalIdentityKeeps,
     LateVerifierKeeps, FinalCheckKeeps, PairCheckKeeps, PairEndsKeeps DEF Publish
<1>3. CASE PublishDirectory /\ Noted
  BY <1>3, PreflightSetKeeps, CreateStagingKeeps, StagingKeeps, RenameKeeps DEF PublishDirectory
<1>4. CASE Rollback /\ Noted
  BY <1>4, RollbackVerifyKeeps, QuarantineKeeps, InspectKeeps, UnlinkKeeps, RollbackEndsKeeps
     DEF Rollback
<1>5. CASE Interfere /\ Noted
  BY <1>5, InterfereKeeps
<1>6. QED
  BY <1>1, <1>2, <1>3, <1>4, <1>5 DEF PublicationNext, Noted

(* Every reachable state of a publication satisfies the inductive          *)
(* invariant, whatever other processes do to the names of publish,         *)
(* publish_pair, publish_set and publish_directory_set meanwhile.          *)
THEOREM PublicationAlwaysInv == PublicationSpec => []PublicationInv
BY PublicationInitInv, PublicationNextInv, PTL DEF PublicationSpec

(* linkat, the renames and the rollback never remove or overwrite a file   *)
(* of another process, for any number of files and strangers.              *)
THEOREM ForeignFilesSurvive == PublicationSpec => []NothingForeignIsLost
<1>1. PublicationInv => NothingForeignIsLost
  BY DEF PublicationInv
<1>2. QED
  BY <1>1, PublicationAlwaysInv, PTL

(* The answer of a publication is true of a moment of the call: Ok of one  *)
(* at which every file was there, whole and durable; an error that does    *)
(* not speak of an uncertain rollback, of one at which nothing was left.   *)
THEOREM AnswersTellTheTruth == PublicationSpec => []ResultTellsTheTruth
<1>1. PublicationInv => ResultTellsTheTruth
  <2> SUFFICES ASSUME PublicationInv PROVE ResultTellsTheTruth
    OBVIOUS
  <2>1. PublicationTypeOK /\ ResultInv /\ TraceInv /\ PhaseInv
    BY DEF PublicationInv
  <2>2. OkWasWhole
    BY <2>1 DEF OkWasWhole, ResultInv
  <2>3. Last \in Active /\ Active = 1 .. Last
    BY <2>1, ActiveFacts
  <2>4. \A m \in Active : Nowhere(m) => Links(m) = 0
    BY <2>1, LinksCount
  <2>5. op \in {"set", "directory"} /\ result \notin {"none", "Ok", RollbackUncertain}
          => \A m \in Active : Links(m) = 0
    BY <2>1, <2>4 DEF ResultInv, TraceInv
  <2>6. op \in {"single", "pair"} /\ result \notin {"none", "Ok", Identity, Integrity, Durability}
          => Links(Last) = 0
    BY <2>1, <2>3, <2>4 DEF ResultInv, TraceInv, PhaseInv, Doubts
  <2>7. QED
    BY <2>1, <2>2, <2>5, <2>6 DEF ResultTellsTheTruth, ErrorLeavesNothing
<1>2. QED
  BY <1>1, PublicationAlwaysInv, PTL
=============================================================================

------------------------------ MODULE Snapshots ------------------------------
(***************************************************************************)
(* Input snapshots (cli/trajectory/linux_path.rs) over files that others   *)
(* change while a command reads them.                                      *)
(*                                                                         *)
(* names[f] is the inode a name leads to, Absent or Symlink; an inode is   *)
(* [content, stamp, private].  The stamp stands for the rest of the        *)
(* fingerprint (link count, size and times): every write, chmod, link and  *)
(* unlink moves it.  private tells an owner's file of mode 0400 or 0600.   *)
(* The walk of pinned ancestors is left out: the parent directory is held. *)
(***************************************************************************)
EXTENDS Integers, Sequences, FiniteSets, SequencesExt

CONSTANTS Files,
          Contents,        \* [Files -> what others may put there]
          Links,           \* pairs of names others may make one file
          MaxEdits,
          SizeOf(_)        \* bytes of a content

VARIABLES names, inodes, edits,
          cmd              \* the command that runs, at most one at a time

(* The closed set of failures of the adapter.                              *)
AdapterErrorCodes ==
    {"unsafe-input-path", "unsafe-output-path", "input-open", "input-type", "input-symlink",
     "input-alias", "input-changed", "input-too-large", "output-symlink", "cross-output-alias",
     "unsupported-input-profile", "json-framing", "json-syntax", "json-shape", "json-budget",
     "receipt-shape", "receipt-mismatch", "trusted-context-mismatch", "unsupported-authority",
     "unsupported-profile", "illegal-termination", "stream-state", "unsupported-record", "mapping",
     "validation", "bundle-mismatch", "lineage-sidecar-shape", "sanitizer-rejected",
     "output-exists", "output-publish", "durability-uncertain", "output-identity-uncertain",
     "output-integrity-uncertain", "output-rollback-uncertain", "unsupported-publication-profile",
     "entropy-unavailable", "public-shareability-denied", "reserved-policy",
     "unsupported-platform", "capture-spawn", "capture-stdin", "capture-stdout-overflow",
     "capture-stderr-overflow", "capture-timeout", "capture-live-descendant", "capture-cleanup"}

Absent == 0
Symlink == -1

files == <<names, inodes, edits>>

IdleCommand == [op |-> "none", args |-> <<>>, step |-> "idle", todo |-> <<>>, gate |-> <<>>,
                snaps |-> <<>>, code |-> "none"]

(* A command reads its inputs in the order of todo, a sequence of          *)
(* [file, cap].                                                            *)
StartCommand(op, args, todo) ==
    cmd' = [IdleCommand EXCEPT !.op = op, !.args = args, !.step = "next", !.todo = todo]

(* The command ends with a code; the snapshots are dropped.                *)
EndCommand(code) == cmd' = [IdleCommand EXCEPT !.op = cmd.op, !.code = code]

Fingerprint(ino) == <<ino, inodes[ino].stamp>>

(* read_snapshot up to the reader: the name is examined, held and          *)
(* reopened; the bytes that are read first are those of now.               *)
OpenGate ==
    /\ cmd.step = "next" /\ cmd.todo # <<>>
    /\ LET f == cmd.todo[1].file
       IN IF names[f] = Absent THEN EndCommand("input-open")
          ELSE IF names[f] = Symlink THEN EndCommand("input-symlink")
          ELSE \/ cmd' = [cmd EXCEPT !.step = "reading",
                              !.gate = [fingerprint |-> Fingerprint(names[f]),
                                        first |-> inodes[names[f]].content]]
               \/ EndCommand("unsupported-input-profile")      \* reopen_gate, validate_reader
    /\ UNCHANGED files

(* Mutant: only the name is looked at again.                               *)
StillSameName(gate, f) == names[f] = gate.fingerprint[1]

(* verify_reader_and_name: held descriptor and name still have the         *)
(* fingerprint.                                                            *)
StillSame(gate, f) ==
    /\ Fingerprint(gate.fingerprint[1]) = gate.fingerprint
    /\ names[f] = gate.fingerprint[1]

(* The rest of read_snapshot.                                              *)
FinishRead ==
    /\ cmd.step = "reading"
    /\ LET f == cmd.todo[1].file
           ino == cmd.gate.fingerprint[1]
           snap == [file |-> f, fingerprint |-> cmd.gate.fingerprint,
                    private |-> inodes[ino].private,
                    first |-> cmd.gate.first, content |-> inodes[ino].content]
       IN IF ~StillSame(cmd.gate, f) THEN EndCommand("input-changed")
          ELSE IF SizeOf(snap.content) > cmd.todo[1].cap THEN EndCommand("input-too-large")
          ELSE \/ cmd' = [cmd EXCEPT !.step = "next", !.todo = Tail(@), !.gate = <<>>,
                                     !.snaps = Append(@, snap)]
               \/ EndCommand("input-open")                     \* the read fails
    /\ UNCHANGED files

(* reject_duplicate_inodes.                                                *)
DuplicateInodes(snaps) ==
    \E i, j \in DOMAIN snaps : i < j /\ snaps[i].fingerprint[1] = snaps[j].fingerprint[1]

(* revalidate: the held inode, whatever the name leads to now.             *)
Revalidates(snap) ==
    /\ Fingerprint(snap.fingerprint[1]) = snap.fingerprint
    /\ inodes[snap.fingerprint[1]].content = snap.content

Snap(f) == LET i == CHOOSE k \in DOMAIN cmd.snaps : cmd.snaps[k].file = f IN cmd.snaps[i].content

(* preflight_final and classify_incumbent: an output name that is taken.   *)
Occupied(f) ==
    IF names[f] = Absent THEN "ok"
    ELSE IF names[f] = Symlink THEN "output-symlink"
    ELSE IF \E i \in DOMAIN cmd.snaps : cmd.snaps[i].fingerprint[1] = names[f] THEN "input-alias"
    ELSE "output-exists"

NewInode(content, private) == Append(inodes, [content |-> content, stamp |-> 0, private |-> private])

(* A publication that succeeds; what can happen inside it is the subject   *)
(* of Publication.                                                         *)
Published(f, content) ==
    /\ inodes' = NewInode(content, TRUE) /\ names' = [names EXCEPT ![f] = Len(inodes) + 1]
    /\ UNCHANGED edits

-----------------------------------------------------------------------------
(* What others do to the files.                                            *)
Edit == edits < MaxEdits /\ edits' = edits + 1

Touched(ino) == [inodes EXCEPT ![ino].stamp = @ + 1]

WriteInPlace(f, content) ==
    /\ Edit /\ names[f] > 0
    /\ inodes' = [inodes EXCEPT ![names[f]] =
                    [content |-> content, stamp |-> @.stamp + 1, private |-> @.private]]
    /\ UNCHANGED <<names, cmd>>

Replace(f, content) ==
    /\ Edit
    /\ inodes' = IF names[f] > 0
                 THEN Append(Touched(names[f]), [content |-> content, stamp |-> 0, private |-> FALSE])
                 ELSE NewInode(content, FALSE)
    /\ names' = [names EXCEPT ![f] = Len(inodes) + 1]
    /\ UNCHANGED cmd

HardLink(f, g) ==
    /\ Edit /\ names[f] = Absent /\ names[g] > 0
    /\ inodes' = Touched(names[g]) /\ names' = [names EXCEPT ![f] = names[g]]
    /\ UNCHANGED cmd

Unlink(f) ==
    /\ Edit /\ names[f] # Absent
    /\ inodes' = IF names[f] > 0 THEN Touched(names[f]) ELSE inodes
    /\ names' \in {[names EXCEPT ![f] = to] : to \in {Absent, Symlink}}
    /\ UNCHANGED cmd

Others ==
    \E f \in Files : \/ \E c \in Contents[f] : WriteInPlace(f, c) \/ Replace(f, c)
                     \/ \E g \in Files : <<f, g>> \in Links /\ HardLink(f, g)
                     \/ Unlink(f)

-----------------------------------------------------------------------------
(* Nothing is computed from half a file: a snapshot that a command holds   *)
(* is what the file was when it was opened and still was at the end        *)
(* (read_snapshot_with_hooks).                                             *)
SnapshotsAreWhole == \A i \in DOMAIN cmd.snaps : cmd.snaps[i].first = cmd.snaps[i].content
=============================================================================

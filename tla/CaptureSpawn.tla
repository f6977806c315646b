---------------------------- MODULE CaptureSpawn ----------------------------
(***************************************************************************)
(* The spawn handshake of a capture (execute_held_inner in                 *)
(* process_capture_supervisor.rs, the pidfd channel of                     *)
(* process_capture_signal.rs).                                             *)
(*                                                                         *)
(* The parent blocks in Command::spawn until the child has either executed *)
(* the held file or failed.  Before it executes, the child sends its own   *)
(* pidfd over a socket pair and waits for an acknowledgement, which a      *)
(* receipt thread of the parent gives once it owns the descriptor.  Each   *)
(* side learns of the other's failure only as end of file on the socket,   *)
(* so every copy of a socket end that is not closed is a possible hang.    *)
(***************************************************************************)
EXTENDS FiniteSets

CONSTANT Kills    \* the child may be killed from outside before it executes

ASSUME KillsAssumption == Kills \in BOOLEAN

VARIABLES
    forked,     \* the control state of the forked child
    errpipe,    \* the child's end of spawn's error pipe is intact
    receiver,   \* who has the receiving end of the pair open
    sender,     \* who has the sending end open
    packet,     \* what is on its way to the parent
    ack,        \* an acknowledgement is on its way to the child
    keeper,     \* the receipt worker: "receive", "acknowledge" or "done"
    ownership,  \* PreExecReceiptOwnership
    spawner,    \* the control state of execute_held_inner
    spawned,    \* the result of Command::spawn
    outcome     \* what execute_held_inner does with the child

spawnVars == <<forked, errpipe, receiver, sender, packet, ack, keeper, ownership, spawner,
              spawned, outcome>>

PreExec == {"forked", "sending", "awaiting", "granted"}
Packets == {"pidfd", "handleless", "malformed"}

SpawnInit ==
    /\ forked = "none" /\ errpipe = TRUE /\ packet = "none" /\ ack = FALSE
    /\ receiver = {"thread"} /\ sender = {"command"}
    /\ keeper = "receive" /\ ownership = "None"
    /\ spawner = "spawn" /\ spawned = "none" /\ outcome = "none"

-----------------------------------------------------------------------------
(* The parent in Command::spawn (external, as far as the standard library  *)
(* does it): a fork, then a wait for the close-on-exec error pipe.         *)

(* The child inherits every open descriptor.  If the receipt thread has    *)
(* already closed the receiving end, its number is free and spawn's error  *)
(* pipe may have been given it: the number the child is about to close.    *)
ForkChild ==
    /\ spawner = "spawn" /\ forked' = "forked" /\ spawner' = "spawning"
    /\ receiver' = IF receiver = {} THEN {} ELSE receiver \cup {"child"}
    /\ sender' = sender \cup {"child"}
    /\ errpipe' \in IF receiver = {} THEN BOOLEAN ELSE {TRUE}
    /\ UNCHANGED <<packet, ack, keeper, ownership, spawned, outcome>>

ForkFails ==
    /\ spawner = "spawn"
    /\ spawner' = "drop" /\ spawned' = "Err"
    /\ UNCHANGED <<forked, errpipe, receiver, sender, packet, ack, keeper, ownership,
                   outcome>>

(* A child that reports an error is reaped by spawn.  One that vanishes    *)
(* without a word closes the error pipe as a successful exec does.         *)
SpawnReturns ==
    /\ spawner = "spawning"
    /\ \/ forked \in {"running", "failed", "dead"}
       \/ ~errpipe /\ forked # "forked"
    /\ spawned' = IF forked = "failed" THEN "Err" ELSE "Ok"
    /\ forked' = IF forked = "failed" THEN "reaped" ELSE forked
    /\ spawner' = "drop"
    /\ UNCHANGED <<errpipe, receiver, sender, packet, ack, keeper, ownership,
                   outcome>>

-----------------------------------------------------------------------------
(* The child between fork and exec: the closure given to pre_exec. *)

ChildCloses ==
    /\ forked = "forked" /\ forked' = "sending"
    /\ receiver' = receiver \ {"child"}
    /\ UNCHANGED <<errpipe, sender, packet, ack, keeper, ownership, spawner, spawned,
                   outcome>>

ChildLeaves(state) ==
    /\ forked' = state
    /\ receiver' = receiver \ {"child"} /\ sender' = sender \ {"child"}

(* An error of the closure is written to the error pipe; a child that      *)
(* cannot write it aborts.                                                 *)
ChildReports == ChildLeaves(IF errpipe THEN "failed" ELSE "dead")

(* send_self_pidfd.  A parent out of descriptors receives the packet       *)
(* without its handle; a packet may arrive malformed.                      *)
ChildSends ==
    /\ forked = "sending" /\ receiver # {}
    /\ forked' = "awaiting" /\ packet' \in Packets
    /\ UNCHANGED <<errpipe, receiver, sender, ack, keeper, ownership, spawner, spawned,
                   outcome>>

(* await_pidfd_receipt_ack *)
ChildAcknowledged ==
    /\ forked = "awaiting" /\ ack
    /\ forked' = "granted" /\ ack' = FALSE
    /\ UNCHANGED <<errpipe, receiver, sender, packet, keeper, ownership, spawner,
                   spawned, outcome>>

ChildRefused ==
    /\ forked = "awaiting" /\ ~ack /\ receiver = {}
    /\ ChildReports
    /\ UNCHANGED <<errpipe, packet, ack, keeper, ownership, spawner, spawned,
                   outcome>>

ChildExecs ==
    /\ forked = "granted" /\ ChildLeaves("running")
    /\ UNCHANGED <<errpipe, packet, ack, keeper, ownership, spawner, spawned,
                   outcome>>

(* An error of pidfd_open, sendmsg, the signal restoration, setsid, fchdir *)
(* or fexecve is reported; a kill from outside is not.                     *)
ChildFails ==
    /\ forked \in {"sending", "granted"} /\ ChildReports
    /\ UNCHANGED <<errpipe, packet, ack, keeper, ownership, spawner, spawned,
                   outcome>>

ChildKilled ==
    /\ Kills /\ forked \in PreExec /\ ChildLeaves("dead")
    /\ UNCHANGED <<errpipe, packet, ack, keeper, ownership, spawner, spawned,
                   outcome>>

-----------------------------------------------------------------------------
(* The receipt worker: receive_pidfd, then publish ownership, then         *)
(* acknowledge.  Its end of the socket closes when it returns.             *)

ThreadEnds == keeper' = "done" /\ receiver' = receiver \ {"thread"}

(* Variant: the child is let go before the descriptor is owned. *)
ReceiveAcceptedEager ==
    /\ keeper = "receive" /\ packet = "pidfd" /\ ~ack
    /\ ack' = TRUE
    /\ UNCHANGED <<forked, errpipe, receiver, sender, packet, keeper, ownership,
                   spawner, spawned, outcome>>

ReceiveAccepted ==
    /\ keeper = "receive" /\ packet = "pidfd"
    /\ packet' = "none" /\ ownership' = "Accepted" /\ keeper' = "acknowledge"
    /\ UNCHANGED <<forked, errpipe, receiver, sender, ack, spawner, spawned, outcome>>

ReceiveRejected ==
    /\ keeper = "receive" /\ packet \in {"handleless", "malformed"}
    /\ packet' = "none" /\ ThreadEnds
    /\ ownership' = IF packet = "malformed" THEN "Rejected" ELSE "None"
    /\ UNCHANGED <<forked, errpipe, sender, ack, spawner, spawned, outcome>>

(* End of file; a permanent receive error. *)
ReceiveNothing ==
    /\ keeper = "receive" /\ packet = "none" /\ sender = {} /\ ThreadEnds
    /\ UNCHANGED <<forked, errpipe, sender, packet, ack, ownership, spawner,
                   spawned, outcome>>

ReceiveFails ==
    /\ keeper = "receive" /\ ThreadEnds
    /\ UNCHANGED <<forked, errpipe, sender, packet, ack, ownership, spawner,
                   spawned, outcome>>

(* A write to a child that is gone fails, and the failure is ignored. *)
Acknowledge ==
    /\ keeper = "acknowledge" /\ ThreadEnds
    /\ ack' = (sender # {})
    /\ UNCHANGED <<forked, errpipe, sender, packet, ownership, spawner, spawned, outcome>>

-----------------------------------------------------------------------------
(* The parent after spawn. *)

(* Variant: the thread is joined while the command still holds the sender. *)
DropCommandLate ==
    /\ spawner = "drop" /\ spawner' = "join"
    /\ UNCHANGED <<forked, errpipe, receiver, sender, packet, ack, keeper,
                   ownership, spawned, outcome>>

DropCommand ==
    /\ spawner = "drop" /\ spawner' = "join"
    /\ sender' = sender \ {"command"}
    /\ UNCHANGED <<forked, errpipe, receiver, packet, ack, keeper, ownership,
                   spawned, outcome>>

JoinThread ==
    /\ spawner = "join" /\ keeper = "done" /\ spawner' = "match"
    /\ UNCHANGED <<forked, errpipe, receiver, sender, packet, ack, keeper,
                   ownership, spawned, outcome>>

MatchSpawn ==
    /\ spawner = "match" /\ spawner' = "done"
    /\ outcome' = IF spawned = "Err" THEN "CaptureSpawn"
                 ELSE IF ownership = "Accepted" THEN "supervise"
                 ELSE IF ownership = "Rejected" THEN "contain"
                 ELSE "CaptureCleanup"
    /\ UNCHANGED <<forked, errpipe, receiver, sender, packet, ack, keeper,
                   ownership, spawned>>

HandshakeOver == outcome # "none" /\ UNCHANGED spawnVars

ChildStep == ChildCloses \/ ChildSends \/ ChildAcknowledged \/ ChildRefused
             \/ ChildExecs
ThreadStep == ReceiveAccepted \/ ReceiveRejected \/ ReceiveNothing \/ Acknowledge
ParentStep == ForkChild \/ SpawnReturns \/ DropCommand \/ JoinThread \/ MatchSpawn

SpawnNext ==
    \/ ParentStep \/ ThreadStep \/ ChildStep
    \/ ForkFails \/ ReceiveFails \/ ChildFails \/ ChildKilled
    \/ HandshakeOver

SpawnSpec == SpawnInit /\ [][SpawnNext]_spawnVars

(* The parent, its receipt thread and the child before exec run code of    *)
(* this repository and are scheduled.  No failure has to happen, except    *)
(* that a send to a closed socket does fail.                               *)
FairSpawnSpec ==
    /\ SpawnSpec /\ WF_spawnVars(ParentStep) /\ WF_spawnVars(ThreadStep)
    /\ WF_spawnVars(ChildStep) /\ WF_spawnVars(receiver = {} /\ ChildFails)

-----------------------------------------------------------------------------
(* Properties. *)

(* The held file is executed only under signal authority: when the child   *)
(* runs it, the parent already owns its pidfd, and the parent supervises   *)
(* exactly that child.                                                     *)
ExecOnlyOwned ==
    forked = "running" => /\ ownership = "Accepted"
                         /\ outcome \in {"none", "supervise"}

(* capture-spawn leaves nothing behind: no child was created or spawn has  *)
(* reaped it.                                                              *)
SpawnErrorLeavesNoChild ==
    outcome = "CaptureSpawn" => forked \in {"none", "reaped"}

(* A handshake that begins ends: neither side waits for a message or an    *)
(* end of file that cannot come.                                           *)
HandshakeEnds == spawner = "spawn" ~> outcome # "none"

(* Whichever side of the handshake fails, and whenever: nothing runs that  *)
(* the parent does not own, and a reported failure leaves no child.        *)
HandshakeIsSafe == ExecOnlyOwned /\ SpawnErrorLeavesNoChild
=============================================================================

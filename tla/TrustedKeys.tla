----------------------------- MODULE TrustedKeys -----------------------------
(***************************************************************************)
(* The trusted signers of mnemo-store: trust, revoke and rotate, and the   *)
(* question apply asks.  Each command is a process with its own SQLite     *)
(* connection in WAL mode: a statement commits on its own, a rotation is   *)
(* one deferred transaction that reads a snapshot and fails when another   *)
(* connection committed before its first write.                            *)
(*                                                                         *)
(* A public key stands for its fingerprint.  A decision is what a user     *)
(* took when he trusted a key that was not trusted; a rotation hands it on *)
(* to the replacement.                                                     *)
(***************************************************************************)
EXTENDS Naturals

CONSTANTS
    Procs,
    Keys, Labels,
    None,
    MaxDecisions, MaxCrashes    \* bounds

ASSUME NoneIsApart == None \notin Keys \union Labels \union Procs
ASSUME BoundsAreNumbers == MaxDecisions \in Nat /\ MaxCrashes \in Nat

VARIABLES
    trusted,        \* trusted_keys: key to label
    lock,           \* the connection that holds SQLite's write lock
    pc, arg,        \* the step of every command and its arguments
    read,           \* the row a revocation or rotation read
    moved,          \* rotations whose snapshot is no longer the latest
    decision,       \* the decision a trusted key rests on (history)
    decisions,      \* how many were taken
    crashes

tableVars == <<trusted, decision, decisions>>
vars == <<tableVars, lock, pc, arg, read, moved, crashes>>

Row == [label: Labels, decision: Nat]
Arg == [key: Keys, new: Keys \union {None}, label: Labels \union {None}]

TypeOK ==
    /\ trusted \in [Keys -> Labels \union {None}]
    /\ lock \in Procs \union {None}
    /\ pc \in [Procs -> {"idle", "added", "seen", "begun", "written", "opened", "allowed"}]
    /\ arg \in [Procs -> Arg \union {None}]
    /\ read \in [Procs -> Row \union {None}]
    /\ moved \subseteq Procs
    /\ decision \in [Keys -> Nat]
    /\ decisions \in Nat /\ crashes \in Nat

Init ==
    /\ trusted = [k \in Keys |-> None]
    /\ lock = None
    /\ pc = [p \in Procs |-> "idle"]
    /\ arg = [p \in Procs |-> None] /\ read = [p \in Procs |-> None]
    /\ moved = {}
    /\ decision = [k \in Keys |-> 0] /\ decisions = 0
    /\ crashes = 0

-----------------------------------------------------------------------------
Trusted(k) == trusted[k] # None

Go(p, l) == pc' = [pc EXCEPT ![p] = l]

Call(p, k, new, label) ==
    arg' = [arg EXCEPT ![p] = [key |-> k, new |-> new, label |-> label]]

\* The command ends, with an answer or an error.
Return(p) ==
    /\ arg' = [arg EXCEPT ![p] = None]
    /\ read' = [read EXCEPT ![p] = None]
    /\ Go(p, "idle")

RowOf(k) == [label |-> trusted[k], decision |-> decision[k]]

\* A commit makes the snapshots of all open rotations old.
Commits == moved' = moved \union {q \in Procs : pc[q] = "begun"}

-----------------------------------------------------------------------------
(* trust add: an upsert, and the row is read back by a second statement *)

Add(p, k, label) ==
    /\ pc[p] = "idle" /\ lock = None
    /\ trusted' = [trusted EXCEPT ![k] = label]
    /\ IF Trusted(k)
       THEN UNCHANGED <<decision, decisions>>
       ELSE /\ decisions < MaxDecisions
            /\ decisions' = decisions + 1
            /\ decision' = [decision EXCEPT ![k] = decisions + 1]
    /\ Call(p, k, None, label)
    /\ Go(p, "added")
    /\ Commits
    /\ UNCHANGED <<lock, read>>

\* An error if the key was revoked since.
AddReadBack(p) ==
    /\ pc[p] = "added"
    /\ Return(p)
    /\ UNCHANGED <<tableVars, lock, moved>>

-----------------------------------------------------------------------------
(* trust revoke: a SELECT and a DELETE that commit on their own *)

RevokeRead(p, k) ==
    /\ pc[p] = "idle"
    /\ IF Trusted(k)
       THEN /\ Call(p, k, None, None)
            /\ read' = [read EXCEPT ![p] = RowOf(k)]
            /\ Go(p, "seen")
       ELSE Return(p)
    /\ UNCHANGED <<tableVars, lock, moved>>

RevokeDelete(p) ==
    /\ pc[p] = "seen" /\ lock = None
    /\ trusted' = [trusted EXCEPT ![arg[p].key] = None]
    /\ decision' = [decision EXCEPT ![arg[p].key] = 0]
    /\ Return(p)
    /\ Commits
    /\ UNCHANGED <<lock, decisions>>

-----------------------------------------------------------------------------
(* trust rotate: both reads are of one snapshot, both writes one commit *)

\* Mutant of Replaceable: a replacement that is trusted already is accepted.
AnyReplacement(old, new) == old # new /\ Trusted(old)

\* Mutant of Replaceable: the signer to be rotated need not be trusted.
AnySigner(old, new) == old # new /\ ~Trusted(new)

Replaceable(old, new) == old # new /\ Trusted(old) /\ ~Trusted(new)

RotateBegin(p, old, new, label) ==
    /\ pc[p] = "idle"
    /\ IF Replaceable(old, new)
       THEN /\ Call(p, old, new, label)
            /\ read' = [read EXCEPT ![p] = RowOf(old)]
            /\ moved' = moved \ {p}
            /\ Go(p, "begun")
       ELSE Return(p) /\ UNCHANGED moved
    /\ UNCHANGED <<tableVars, lock>>

\* Mutant of RotateWrite: it waits until its snapshot is the latest.
RotateWriteWaits(p) ==
    /\ pc[p] = "begun" /\ lock = None /\ p \notin moved
    /\ lock' = p
    /\ Go(p, "written")
    /\ UNCHANGED <<arg, read, tableVars, moved>>

\* INSERT takes the lock or fails (SQLITE_BUSY_SNAPSHOT); what it and DELETE
\* write is seen by nobody else yet.
RotateWrite(p) ==
    /\ pc[p] = "begun" /\ lock = None
    /\ IF p \in moved
       THEN Return(p) /\ UNCHANGED lock
       ELSE lock' = p /\ Go(p, "written") /\ UNCHANGED <<arg, read>>
    /\ UNCHANGED <<tableVars, moved>>

\* Mutant of RotateCommit: the old signer is not deleted.
RotateCommitAdds(p) ==
    /\ pc[p] = "written"
    /\ trusted' = [trusted EXCEPT ![arg[p].new] = arg[p].label]
    /\ decision' = [decision EXCEPT ![arg[p].new] = read[p].decision]
    /\ lock' = None
    /\ Return(p)
    /\ Commits
    /\ UNCHANGED decisions

RotateCommit(p) ==
    /\ pc[p] = "written"
    /\ trusted' = [trusted EXCEPT ![arg[p].key] = None, ![arg[p].new] = arg[p].label]
    /\ decision' = [decision EXCEPT ![arg[p].key] = 0, ![arg[p].new] = read[p].decision]
    /\ lock' = None
    /\ Return(p)
    /\ Commits
    /\ UNCHANGED decisions

-----------------------------------------------------------------------------
(* apply: the signer of the opened package is looked up, the writes follow *)

ApplyOpen(p, k) ==
    /\ pc[p] = "idle"
    /\ Call(p, k, None, None)
    /\ Go(p, "opened")
    /\ UNCHANGED <<tableVars, lock, read, moved>>

\* require_trusted_signer.  A revocation may commit before the writes below,
\* which are one step here: they do not ask again.
ApplyCheck(p) ==
    /\ pc[p] = "opened"
    /\ IF Trusted(arg[p].key)
       THEN Go(p, "allowed") /\ UNCHANGED <<arg, read>>
       ELSE Return(p)
    /\ UNCHANGED <<tableVars, lock, moved>>

ApplyWrite(p) ==
    /\ pc[p] = "allowed"
    /\ Return(p)
    /\ UNCHANGED <<tableVars, lock, moved>>

-----------------------------------------------------------------------------
\* Another connection held the lock for longer than SQLite waits.
TimeOut(p) ==
    /\ pc[p] \in {"seen", "begun"} /\ lock # None
    /\ Return(p)
    /\ UNCHANGED <<tableVars, lock, moved>>

\* SQLite drops the lock and the uncommitted writes of a process that died.
Crash(p) ==
    /\ pc[p] # "idle" /\ crashes < MaxCrashes
    /\ crashes' = crashes + 1
    /\ Return(p)
    /\ lock' = IF lock = p THEN None ELSE lock
    /\ UNCHANGED <<tableVars, moved>>

\* Some other command commits to another table of the ledger.
LedgerCommit ==
    /\ lock = None
    /\ Commits
    /\ UNCHANGED <<tableVars, lock, pc, arg, read>>

Start(p) ==
    \E k \in Keys :
        \/ RevokeRead(p, k) \/ ApplyOpen(p, k)
        \/ \E label \in Labels :
            Add(p, k, label) \/ \E new \in Keys : RotateBegin(p, k, new, label)

Continue(p) ==
    \/ AddReadBack(p) \/ RevokeDelete(p) \/ RotateWrite(p) \/ RotateCommit(p)
    \/ ApplyCheck(p) \/ ApplyWrite(p) \/ TimeOut(p)

Next ==
    \/ (LedgerCommit \/ \E p \in Procs : Start(p) \/ Continue(p)) /\ UNCHANGED crashes
    \/ \E p \in Procs : Crash(p)

\* No command waits for more than SQLite's busy timeout.
Spec == Init /\ [][Next]_vars
FairSpec == Spec /\ \A p \in Procs : WF_vars(Continue(p) /\ UNCHANGED crashes)

-----------------------------------------------------------------------------
(***************************************************************************)
(* A rotation moves trust and never multiplies it: each trusted key rests  *)
(* on one decision of the user and no two on the same, whatever rotations  *)
(* of the same key race, whoever revokes or trusts in between and wherever *)
(* a rotation stops.                                                       *)
(***************************************************************************)
OneKeyPerDecision ==
    \A k \in Keys : Trusted(k) =>
        /\ decision[k] # 0
        /\ \A j \in Keys : Trusted(j) /\ decision[j] = decision[k] => j = k

(***************************************************************************)
(* Nobody loses a trusted signer without revoking one: a decision that     *)
(* some key rests on goes away only in the DELETE of a revocation of that  *)
(* key.  Rotations keep it, of this key and of others.                     *)
(***************************************************************************)
RestsNext(d) == \E k \in Keys : trusted'[k] # None /\ decision'[k] = d

DecisionsEndByRevocation ==
    [][\A k \in Keys :
        Trusted(k) /\ ~RestsNext(decision[k]) =>
            \E p \in Procs : RevokeDelete(p) /\ arg[p].key = k]_vars

(***************************************************************************)
(* A command that waits for the lock, or whose snapshot is too old, ends   *)
(* with an answer; two rotations never wait for each other.                *)
(***************************************************************************)
EveryCommandEnds == \A p \in Procs : pc[p] # "idle" ~> pc[p] = "idle"
-----------------------------------------------------------------------------
(* The inductive invariant of these properties *)

\* The lock is held by exactly the rotation whose writes are not committed.
Held == \A p \in Procs : lock = p <=> pc[p] = "written"

\* What a command that runs was called with; a rotation knows the row it read.
Called ==
    \A p \in Procs :
        /\ pc[p] # "idle" => arg[p] \in Arg
        /\ pc[p] \in {"begun", "written"} =>
               arg[p].new \in Keys /\ arg[p].label \in Labels /\ read[p] \in Row

\* The snapshot of a rotation that has written, or still may, is the table.
SnapshotStands(p) ==
    /\ Replaceable(arg[p].key, arg[p].new)
    /\ decision[arg[p].key] = read[p].decision

SnapshotsStand ==
    \A p \in Procs :
        pc[p] = "written" \/ (pc[p] = "begun" /\ p \notin moved) => SnapshotStands(p)

\* A decision yet to be taken is nobody's.
DecisionsCounted == \A k \in Keys : Trusted(k) => decision[k] <= decisions

TrustInv ==
    /\ TypeOK /\ Held /\ Called /\ SnapshotsStand
    /\ DecisionsCounted /\ OneKeyPerDecision
=============================================================================

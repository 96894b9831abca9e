--------------------------- MODULE FileTransaction ---------------------------
(***************************************************************************)
(* The file transactions of mnemo-store: apply_file, undo_file and the     *)
(* recovery rollback, run by command-line processes that share the target  *)
(* files and the transaction directory and take no lock.  A call is split  *)
(* where other processes, the user, an I/O error or a crash can intervene: *)
(* every durable write is a step.  SHA-256 is taken as injective, so a     *)
(* content stands for its hash.                                            *)
(*                                                                         *)
(* Left out: permissions, symlink checks, temporary files that a crash     *)
(* leaves beside the target, and a torn before.bin, which no journal names.*)
(***************************************************************************)
EXTENDS Naturals, FiniteSets

CONSTANTS
    Procs,      \* command-line processes
    Txs,        \* transaction ids
    Targets,    \* target files
    UserBytes,  \* contents only the user has
    PlanBytes,  \* contents a plan may install
    Damaged,    \* a backup whose bytes no longer hash to the recorded value
    None,       \* an absent file, backup, journal or call
    RacingEdits,    \* may the user edit a target while a call is inside it?
    MaxEdits, MaxFaults, MaxDamage      \* bounds on the environment

Contents == UserBytes \union PlanBytes
FileState == Contents \union {None}

Journal == [status: {"prepared", "committed", "rolled-back"},
            target: Targets, before: FileState, after: PlanBytes]

\* A call in progress holds its journal in memory; pc is the last checkpoint.
ApplyPC == {"read", "backed", "prepared", "persisted"}
RestorePC == {"loaded", "checked", "restored", "unseen"}
ResultPC == {"done", "err"}

Call == [fn: {"apply", "undo", "recover"}, pc: ApplyPC \union RestorePC \union ResultPC,
         tx: Txs \union {None}, target: Targets, before: FileState,
         after: PlanBytes]

ASSUME NoneIsNothing == None \notin Contents /\ None \notin Journal /\ None \notin Call
                        /\ None \notin Txs
ASSUME DamagedIsNoContent == Damaged \notin FileState
ASSUME UserAndPlanDiffer == UserBytes \intersect PlanBytes = {}
ASSUME Bounds == MaxEdits \in Nat /\ MaxFaults \in Nat /\ MaxDamage \in Nat
                 /\ RacingEdits \in BOOLEAN

VARIABLES
    files,      \* content of every target
    journals,   \* durable journal.json of every transaction
    backups,    \* durable before.bin of every transaction
    calls,      \* the store call each process is in
    user,       \* what the user last left in every target (history)
    edits, faults, damage       \* environment steps taken

fileVars == <<files, journals, backups>>
envVars == <<user, edits, faults, damage>>
vars == <<files, journals, backups, calls, user, edits, faults, damage>>

TypeOK ==
    /\ files \in [Targets -> FileState]
    /\ journals \in [Txs -> Journal \union {None}]
    /\ backups \in [Txs -> Contents \union {Damaged, None}]
    /\ calls \in [Procs -> Call \union {None}]
    /\ user \in [Targets -> FileState]
    /\ edits \in Nat /\ faults \in Nat /\ damage \in Nat

Init ==
    /\ files \in [Targets -> UserBytes \union {None}]
    /\ user = files
    /\ journals = [x \in Txs |-> None]
    /\ backups = [x \in Txs |-> None]
    /\ calls = [p \in Procs |-> None]
    /\ edits = 0 /\ faults = 0 /\ damage = 0

-----------------------------------------------------------------------------
Idle(p) == calls[p] = None

At(p, fn, pc) == calls[p] # None /\ calls[p].fn = fn /\ calls[p].pc = pc

\* Process p is inside a store call on target t.
Inside(p, t) ==
    calls[p] # None /\ calls[p].target = t /\ calls[p].pc \notin ResultPC

Goto(p, pc) == calls' = [calls EXCEPT ![p].pc = pc]

\* The journal of p's call, as it is written with the given status.
JournalOf(p, status) ==
    [status |-> status, target |-> calls[p].target,
     before |-> calls[p].before, after |-> calls[p].after]

Fresh(x) ==
    /\ journals[x] = None /\ backups[x] = None
    /\ \A p \in Procs : calls[p] # None => calls[p].tx # x

-----------------------------------------------------------------------------
(* apply_file *)

\* The target holds what the caller planned against; a new transaction starts.
ApplyRead(p, x, t, expected, new) ==
    /\ Idle(p) /\ Fresh(x)
    /\ files[t] = expected
    /\ calls' = [calls EXCEPT ![p] =
            [fn |-> "apply", pc |-> "read", tx |-> x, target |-> t,
             before |-> files[t], after |-> new]]
    /\ UNCHANGED <<fileVars, envVars>>

\* The precondition fails: nothing is written, not even the transaction directory.
ApplyStale(p, t, expected, new) ==
    /\ Idle(p)
    /\ files[t] # expected
    /\ calls' = [calls EXCEPT ![p] =
            [fn |-> "apply", pc |-> "err", tx |-> None, target |-> t,
             before |-> files[t], after |-> new]]
    /\ UNCHANGED <<fileVars, envVars>>

\* Mutant of ApplyBackup: a file that exists is not backed up.
SkipBackup(p) ==
    At(p, "apply", "read") /\ Goto(p, "backed") /\ UNCHANGED <<fileVars, envVars>>

ApplyBackup(p) ==
    /\ At(p, "apply", "read")
    /\ backups' = [backups EXCEPT ![calls[p].tx] = calls[p].before]
    /\ Goto(p, "backed")
    /\ UNCHANGED <<files, journals, envVars>>

ApplyPrepare(p) ==
    /\ At(p, "apply", "backed")
    /\ journals' = [journals EXCEPT ![calls[p].tx] = JournalOf(p, "prepared")]
    /\ Goto(p, "prepared")
    /\ UNCHANGED <<files, backups, envVars>>

\* Mutant of ApplyPersist: the target is replaced before the journal is saved.
PersistFirst(p) ==
    /\ At(p, "apply", "backed")
    /\ files' = [files EXCEPT ![calls[p].target] = calls[p].after]
    /\ Goto(p, "persisted")
    /\ UNCHANGED <<journals, backups, envVars>>

\* The temporary file is renamed over whatever the target holds by now.
ApplyPersist(p) ==
    /\ At(p, "apply", "prepared")
    /\ files' = [files EXCEPT ![calls[p].target] = calls[p].after]
    /\ Goto(p, "persisted")
    /\ UNCHANGED <<journals, backups, envVars>>

ApplyCommit(p) ==
    /\ At(p, "apply", "persisted")
    /\ journals' = [journals EXCEPT ![calls[p].tx] = JournalOf(p, "committed")]
    /\ Goto(p, "done")
    /\ UNCHANGED <<files, backups, envVars>>

-----------------------------------------------------------------------------
(* undo_file and rollback_recoverable_transaction *)

Loaded(fn, pc, x) ==
    [fn |-> fn, pc |-> pc, tx |-> x, target |-> journals[x].target,
     before |-> journals[x].before, after |-> journals[x].after]

\* The caller's copy of the journal may carry an older status than the disk.
UndoCheck(p, x, status) ==
    /\ Idle(p) /\ journals[x] # None
    /\ LET safe == status = "committed"
                   /\ files[journals[x].target] = journals[x].after
       IN  calls' = [calls EXCEPT ![p] =
                Loaded("undo", IF safe THEN "checked" ELSE "err", x)]
    /\ UNCHANGED <<fileVars, envVars>>

\* Mutant of Awaiting: a journal that never committed is not offered.
OrphansOnly(x, recorded) == journals[x].status = "committed" /\ ~recorded

\* Mutant of Awaiting: a commit the ledger never acknowledged is not offered.
PreparedOnly(x, recorded) == journals[x].status = "prepared"

Awaiting(x, recorded) ==
    \/ journals[x].status = "prepared"
    \/ journals[x].status = "committed" /\ ~recorded

\* recorded: does the ledger the caller opened already hold the transaction?
RecoverLoad(p, x, recorded) ==
    /\ Idle(p) /\ journals[x] # None
    /\ calls' = [calls EXCEPT ![p] =
            Loaded("recover", IF Awaiting(x, recorded) THEN "loaded" ELSE "err", x)]
    /\ UNCHANGED <<fileVars, envVars>>

\* Mutant of Disposition: a drifted target is restored over.
RestoreDrifted(p) ==
    IF files[calls[p].target] = calls[p].before THEN "restored" ELSE "checked"

\* Mutant of Disposition: the journal is closed with the new bytes in place.
CloseOnly(p) ==
    IF files[calls[p].target] \in {calls[p].before, calls[p].after}
    THEN "restored" ELSE "err"

\* Only the journal needs closing, the backup goes back, or manual review.
Disposition(p) ==
    LET current == files[calls[p].target]
    IN  IF current = calls[p].before THEN "restored"
        ELSE IF current = calls[p].after THEN "checked" ELSE "err"

RecoverClassify(p) ==
    /\ At(p, "recover", "loaded")
    /\ Goto(p, Disposition(p))
    /\ UNCHANGED <<fileVars, envVars>>

\* Mutant of BackupVerifies: whatever before.bin holds is put back.
BackupTrusted(p) == TRUE

\* The backup is hashed again before it is put back; a new target has none.
BackupVerifies(p) ==
    calls[p].before # None => backups[calls[p].tx] = calls[p].before

\* Mutant of BeforeBytes: a replaced file is left as it is.
RemoveNewOnly(p) ==
    IF calls[p].before = None THEN None ELSE files[calls[p].target]

BeforeBytes(p) == IF calls[p].before = None THEN None ELSE backups[calls[p].tx]

RestoreBefore(p) ==
    /\ calls[p] # None /\ calls[p].pc = "checked"
    /\ IF BackupVerifies(p)
       THEN /\ files' = [files EXCEPT ![calls[p].target] = BeforeBytes(p)]
            /\ Goto(p, "restored")
       ELSE /\ Goto(p, "err")
            /\ UNCHANGED files
    /\ UNCHANGED <<journals, backups, envVars>>

\* A failed read (fs::read(..).ok(), Path::exists) counts as an absent file.  A
\* transaction that created its target then skips the removal, whatever is there.
TargetUnseen(p) ==
    /\ calls[p] # None /\ calls[p].pc \in {"loaded", "checked"}
    /\ calls[p].before = None
    /\ faults < MaxFaults
    /\ faults' = faults + 1
    /\ Goto(p, "unseen")
    /\ UNCHANGED <<fileVars, user, edits, damage>>

SaveRolledBack(p) ==
    /\ calls[p] # None /\ calls[p].pc \in {"restored", "unseen"}
    /\ journals' = [journals EXCEPT ![calls[p].tx] = JournalOf(p, "rolled-back")]
    /\ Goto(p, "done")
    /\ UNCHANGED <<files, backups, envVars>>

-----------------------------------------------------------------------------
(* The caller and the environment *)

\* The caller takes the result of its call.
Return(p) ==
    /\ calls[p] # None /\ calls[p].pc \in ResultPC
    /\ calls' = [calls EXCEPT ![p] = None]
    /\ UNCHANGED <<fileVars, envVars>>

\* An I/O error ends the call after its last checkpoint: what it wrote stays.
IoError(p) ==
    /\ calls[p] # None /\ calls[p].pc # "err"
    /\ faults < MaxFaults
    /\ faults' = faults + 1
    /\ Goto(p, "err")
    /\ UNCHANGED <<fileVars, user, edits, damage>>

Crash(p) ==
    /\ ~Idle(p)
    /\ faults < MaxFaults
    /\ faults' = faults + 1
    /\ calls' = [calls EXCEPT ![p] = None]
    /\ UNCHANGED <<fileVars, user, edits, damage>>

Edit(t, c) ==
    /\ edits < MaxEdits
    /\ c # files[t]
    /\ RacingEdits \/ \A p \in Procs : ~Inside(p, t)
    /\ files' = [files EXCEPT ![t] = c]
    /\ user' = [user EXCEPT ![t] = c]
    /\ edits' = edits + 1
    /\ UNCHANGED <<journals, backups, calls, faults, damage>>

DamageBackup(x) ==
    /\ damage < MaxDamage
    /\ backups[x] \in Contents
    /\ backups' = [backups EXCEPT ![x] = Damaged]
    /\ damage' = damage + 1
    /\ UNCHANGED <<files, journals, calls, user, edits, faults>>

Step(p) ==
    \/ ApplyBackup(p) \/ ApplyPrepare(p) \/ ApplyPersist(p) \/ ApplyCommit(p)
    \/ RecoverClassify(p) \/ RestoreBefore(p) \/ SaveRolledBack(p)

Start(p) ==
    \/ \E x \in Txs, t \in Targets, expected \in FileState, new \in PlanBytes :
            \/ ApplyRead(p, x, t, expected, new)
            \/ ApplyStale(p, t, expected, new)
    \/ \E x \in Txs : journals[x] # None /\ UndoCheck(p, x, journals[x].status)
    \/ \E x \in Txs, recorded \in BOOLEAN : RecoverLoad(p, x, recorded)

Environment ==
    \/ \E p \in Procs : IoError(p) \/ TargetUnseen(p) \/ Crash(p)
    \/ \E t \in Targets, c \in FileState : Edit(t, c)
    \/ \E x \in Txs : DamageBackup(x)

Next ==
    \/ \E p \in Procs : Start(p) \/ Step(p) \/ Return(p)
    \/ Environment

Spec == Init /\ [][Next]_vars

-----------------------------------------------------------------------------
(* Safety *)

(***************************************************************************)
(* A journal is never on disk before the backup it promises: whatever step *)
(* a crash or an error ends, recovery finds the pre-transaction bytes or a *)
(* backup the disk damaged later.                                          *)
(***************************************************************************)
BackedUp(x, before) == before # None => backups[x] \in {before, Damaged}

BackupsComplete ==
    \A x \in Txs : journals[x] # None => BackedUp(x, journals[x].before)

(***************************************************************************)
(* A target only ever holds what the user left there or a state some       *)
(* durable journal names: no process, crash or error leaves bytes of       *)
(* MnemoPort in a target that no journal can explain.                      *)
(***************************************************************************)
Explains(x, t) ==
    /\ journals[x] # None /\ journals[x].target = t
    /\ files[t] \in {journals[x].before, journals[x].after}

TargetsExplained ==
    \A t \in Targets : files[t] = user[t] \/ \E x \in Txs : Explains(x, t)

(***************************************************************************)
(* The bytes only the user has are never lost: they are in the target, or  *)
(* in the backup of a journaled transaction on it.  This is "conflicts are *)
(* never silently overwritten" for any number of processes; it needs the   *)
(* user not to edit a target while a call is between its check and its     *)
(* write (RacingEdits).                                                    *)
(***************************************************************************)
Kept(t) ==
    \E x \in Txs :
        /\ journals[x] # None
        /\ journals[x].target = t /\ journals[x].before = user[t]
        /\ backups[x] \in {user[t], Damaged}

UserBytesKept ==
    \A t \in Targets :
        user[t] \in UserBytes => files[t] = user[t] \/ Kept(t)

-----------------------------------------------------------------------------
(* What makes the safety properties inductive *)

Unjournaled == {"read", "backed"}
Journaling == {"prepared", "persisted", "done"} \union RestorePC

New(p) == calls[p] # None /\ calls[p].pc \in Unjournaled

\* The journal on disk is that of p's call, whatever its status.
Journaled(p) ==
    /\ calls[p].tx \in Txs
    /\ journals[calls[p].tx] # None
    /\ journals[calls[p].tx].target = calls[p].target
    /\ journals[calls[p].tx].before = calls[p].before
    /\ journals[calls[p].tx].after = calls[p].after

CallOK(p) ==
    calls[p] # None =>
        /\ calls[p].pc \in Unjournaled =>
              calls[p].tx \in Txs /\ journals[calls[p].tx] = None
        /\ calls[p].pc = "backed" => BackedUp(calls[p].tx, calls[p].before)
        /\ calls[p].pc \in Journaling => Journaled(p)

FileInv ==
    /\ TypeOK
    /\ \A p \in Procs : CallOK(p)
    /\ \A p, q \in Procs : New(p) /\ New(q) /\ calls[p].tx = calls[q].tx => p = q
    /\ BackupsComplete
    /\ TargetsExplained

\* A call that is about to overwrite its target has, or is about to keep, the
\* user's bytes.
CallKeeps(p) ==
    calls[p] # None /\ user[calls[p].target] \in UserBytes =>
        /\ calls[p].pc \in {"read", "backed", "prepared"} =>
              calls[p].before = user[calls[p].target] \/ Kept(calls[p].target)
        /\ calls[p].pc = "checked" => Kept(calls[p].target)

KeepInv == UserBytesKept /\ \A p \in Procs : CallKeeps(p)

-----------------------------------------------------------------------------
(* Refinement: one process at a time makes every journaled replacement     *)
(* atomic and exactly reversible, as long as its target can be read.       *)

Unseen ==
    {x \in Txs : \E p \in Procs :
        calls[p] # None /\ calls[p].pc = "unseen" /\ calls[p].tx = x}

Reversible == INSTANCE ReversibleFiles
                  WITH content <- files, txns <- journals, unseen <- Unseen

\* Every step of apply, undo and recovery, every error and every crash between
\* two of them, is a legal step of the reversible replacement: a journal is
\* closed with the new bytes in place only if it created the target and the
\* target could not be read.
Implements == Reversible!Spec

-----------------------------------------------------------------------------
\* Recovery leaves the transaction alone: the disposition is manual review, or
\* the backup no longer verifies.
Drifted(x) ==
    \/ files[journals[x].target] \notin {journals[x].before, journals[x].after}
    \/ backups[x] = Damaged
=============================================================================

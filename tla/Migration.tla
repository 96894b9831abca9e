------------------------------ MODULE Migration ------------------------------
(***************************************************************************)
(* The mnemo commands that change targets: apply, undo and recovery        *)
(* rollback.  A command drives the file transactions (FileTransaction) and *)
(* the ledger (Ledger) in turn; the two are durable separately, and the    *)
(* command may stop between any two of their steps.                        *)
(*                                                                         *)
(* A plan is made and applied by one process (apply plans again and        *)
(* compares), so planning and begin_operation are one step.  Transaction   *)
(* ids are numbered in order of creation, the order the ledger returns     *)
(* them in.                                                                *)
(***************************************************************************)
EXTENDS Naturals, FiniteSets

CONSTANTS
    Procs, Ops, Txs, Targets, UserBytes, PlanBytes, Damaged, None,
    RacingEdits, MaxEdits, MaxFaults, MaxDamage,
    MaxStops    \* ledger errors, and crashes between two store calls

ASSUME TxsAreNumbered == Txs \subseteq Nat

VARIABLES
    files, journals, backups, calls, user, edits, faults, damage,
    operations, transactions, changes, managed,
    cli,        \* the command each process runs
    origin,     \* operation that opened each file transaction (history)
    stops

FT == INSTANCE FileTransaction
L == INSTANCE Ledger WITH Hashes <- PlanBytes

storeVars == <<files, journals, backups, calls, user, edits, faults, damage>>
ledgerVars == <<operations, transactions, changes, managed>>
vars == <<storeVars, ledgerVars, cli, origin, stops>>

\* A planned write: apply_file refuses it unless the target holds expected.
Write == [target: Targets, expected: FT!FileState, new: PlanBytes]

Command ==
    {c \in [cmd: {"apply", "undo", "recover", "install", "uninstall"},
            op: Ops \union {None},
            pc: {"next", "call", "rollback", "reverting",
                 "hashed", "checked", "removed"},   \* steps of uninstall
            plan: SUBSET Write,    \* writes not attempted yet
            txs: SUBSET Txs,       \* committed by apply, or still to be reversed
            ok: BOOLEAN,           \* has every reversal succeeded?
            finish: BOOLEAN] :     \* does the rollback record its outcome?
        c.cmd \in {"apply", "undo", "install"} => c.op # None}

ASSUME NoneIsNoRecord ==
    /\ None \notin FT!Contents /\ None \notin FT!Journal /\ None \notin FT!Call
    /\ None \notin L!Owner /\ None \notin L!Change
    /\ None \notin L!TransactionStatus /\ None \notin L!OperationStatus
    /\ None \notin Ops /\ None \notin Txs /\ None \notin Command
    /\ None # Damaged

\* What FileTransaction assumes of the contents and the environment's bounds.
ASSUME StoreAssumptions ==
    /\ Damaged \notin FT!FileState
    /\ UserBytes \intersect PlanBytes = {}
    /\ MaxEdits \in Nat /\ MaxFaults \in Nat /\ MaxDamage \in Nat
    /\ RacingEdits \in BOOLEAN

TypeOK ==
    /\ FT!TypeOK /\ L!TypeOK
    /\ cli \in [Procs -> Command \union {None}]
    /\ origin \in [Txs -> Ops \union {None}]
    /\ stops \in Nat

Init ==
    /\ FT!Init /\ L!Init
    /\ cli = [p \in Procs |-> None]
    /\ origin = [x \in Txs |-> None]
    /\ stops = 0

-----------------------------------------------------------------------------
Free(p) == cli[p] = None

Runs(p, cmd, pc) == cli[p] # None /\ cli[p].cmd = cmd /\ cli[p].pc = pc

Begin(p, cmd, o, plan, txs, pc) ==
    cli' = [cli EXCEPT ![p] = [cmd |-> cmd, op |-> o, pc |-> pc, plan |-> plan,
                               txs |-> txs, ok |-> TRUE, finish |-> TRUE]]

Exit(p) == cli' = [cli EXCEPT ![p] = None]

Proceed(p, pc) == cli' = [cli EXCEPT ![p].pc = pc]

CallIs(p, pc) == ~FT!Idle(p) /\ calls[p].pc = pc

\* An I/O error or a lock time-out of SQLite.
LedgerFails == stops < MaxStops /\ stops' = stops + 1

Latest(x, txs) == x \in txs /\ \A y \in txs : y <= x

NextTx(x) == FT!Fresh(x) /\ \A y \in Txs : y < x => ~FT!Fresh(y)

-----------------------------------------------------------------------------
(* apply *)

\* Only an absent target or an unmodified managed one is written to.
Writable(t, new) ==
    \/ files[t] = None
    \/ /\ files[t] # new
       /\ managed[t] # None /\ managed[t].hash = files[t]

PlanFor(rendered) ==
    {[target |-> t, expected |-> files[t], new |-> rendered[t]] :
        t \in {u \in DOMAIN rendered : Writable(u, rendered[u])}}

ApplyStart(p, o, rendered) ==
    /\ Free(p)
    /\ L!BeginOperation(o)
    /\ Begin(p, "apply", o, PlanFor(rendered), {}, "next")
    /\ UNCHANGED <<storeVars, origin, stops>>

ApplyNext(p, w, x) ==
    /\ Runs(p, "apply", "next")
    /\ w \in cli[p].plan /\ NextTx(x)
    /\ \/ /\ FT!ApplyRead(p, x, w.target, w.expected, w.new)
          /\ origin' = [origin EXCEPT ![x] = cli[p].op]
       \/ /\ FT!ApplyStale(p, w.target, w.expected, w.new)
          /\ UNCHANGED origin
    /\ cli' = [cli EXCEPT ![p].pc = "call", ![p].plan = @ \ {w}]
    /\ UNCHANGED <<ledgerVars, stops>>

RecordCall(p) ==
    L!RecordTransactionWithManagedObject(cli[p].op, calls[p].tx,
                                         calls[p].target, calls[p].after)

Record(p) ==
    /\ Runs(p, "apply", "call") /\ CallIs(p, "done")
    /\ RecordCall(p)
    /\ FT!Return(p)
    /\ cli' = [cli EXCEPT ![p].pc = "next", ![p].txs = @ \union {calls[p].tx}]
    /\ UNCHANGED <<origin, stops>>

\* The error may reach the command before or after SQLite committed.
RecordError(p) ==
    /\ Runs(p, "apply", "call") /\ CallIs(p, "done")
    /\ LedgerFails
    /\ RecordCall(p) \/ UNCHANGED ledgerVars
    /\ FT!Return(p)
    /\ cli' = [cli EXCEPT ![p].pc = "rollback", ![p].txs = @ \union {calls[p].tx}]
    /\ UNCHANGED origin

ApplyError(p) ==
    /\ Runs(p, "apply", "call") /\ CallIs(p, "err")
    /\ FT!Return(p)
    /\ Proceed(p, "rollback")
    /\ UNCHANGED <<ledgerVars, origin, stops>>

ApplyEnd(p) ==
    /\ Runs(p, "apply", "next") /\ cli[p].plan = {}
    /\ L!FinishOperation(cli[p].op, "succeeded")
    /\ Exit(p)
    /\ UNCHANGED <<storeVars, origin, stops>>

\* This rollback leaves the operation running.
ApplyEndError(p) ==
    /\ Runs(p, "apply", "next") /\ cli[p].plan = {}
    /\ LedgerFails
    /\ cli' = [cli EXCEPT ![p].pc = "rollback", ![p].finish = FALSE]
    /\ UNCHANGED <<storeVars, ledgerVars, origin>>

-----------------------------------------------------------------------------
(* rollback_all: the journals in memory are all committed *)

RollbackNext(p) ==
    /\ Runs(p, "apply", "rollback") /\ cli[p].txs # {}
    /\ \E x \in Txs : Latest(x, cli[p].txs) /\ FT!UndoCheck(p, x, "committed")
    /\ Proceed(p, "reverting")
    /\ UNCHANGED <<ledgerVars, origin, stops>>

Reverted(p, ok) ==
    /\ FT!Return(p)
    /\ cli' = [cli EXCEPT ![p].pc = "rollback", ![p].txs = @ \ {calls[p].tx},
                          ![p].ok = @ /\ ok]
    /\ UNCHANGED origin

RollbackDone(p) ==
    /\ Runs(p, "apply", "reverting") /\ CallIs(p, "done")
    /\ LET x == calls[p].tx
       IN  \/ /\ ~L!HasTransaction(x)
              /\ Reverted(p, TRUE) /\ UNCHANGED <<ledgerVars, stops>>
           \/ /\ L!RollbackTransactionAndManagedObject(x)
              /\ Reverted(p, TRUE) /\ UNCHANGED stops
           \/ /\ L!HasTransaction(x) /\ ~L!StillOwns(x)
              /\ Reverted(p, FALSE) /\ UNCHANGED <<ledgerVars, stops>>
           \/ /\ LedgerFails
              /\ L!RollbackTransactionAndManagedObject(x) \/ UNCHANGED ledgerVars
              /\ Reverted(p, FALSE)

\* Mutant of RollbackError: the ledger is rolled back although the file was not.
RollbackAnyway(p) ==
    /\ Runs(p, "apply", "reverting") /\ CallIs(p, "err")
    /\ L!RollbackTransactionAndManagedObject(calls[p].tx)
    /\ Reverted(p, FALSE)
    /\ UNCHANGED stops

RollbackError(p) ==
    /\ Runs(p, "apply", "reverting") /\ CallIs(p, "err")
    /\ Reverted(p, FALSE)
    /\ UNCHANGED <<ledgerVars, stops>>

\* Mutant of Outcome: a file that could not be reversed is not reported.
AlwaysRolledBack(p) == "rolled-back"

Outcome(p) == IF cli[p].ok THEN "rolled-back" ELSE "failed"

RollbackEnd(p) ==
    /\ Runs(p, "apply", "rollback") /\ cli[p].txs = {}
    /\ \/ /\ cli[p].finish
          /\ L!FinishOperation(cli[p].op, Outcome(p)) /\ UNCHANGED stops
       \/ cli[p].finish /\ LedgerFails /\ UNCHANGED ledgerVars
       \/ ~cli[p].finish /\ UNCHANGED <<ledgerVars, stops>>
    /\ Exit(p)
    /\ UNCHANGED <<storeVars, origin>>

-----------------------------------------------------------------------------
(* undo *)

UndoStart(p, o) ==
    /\ Free(p)
    /\ L!TransactionsOf(o) # {}
    /\ Begin(p, "undo", o, {}, L!TransactionsOf(o), "next")
    /\ UNCHANGED <<storeVars, ledgerVars, origin, stops>>

UndoNext(p) ==
    /\ Runs(p, "undo", "next") /\ cli[p].txs # {}
    /\ \E x \in Txs :
            Latest(x, cli[p].txs) /\ FT!UndoCheck(p, x, journals[x].status)
    /\ Proceed(p, "call")
    /\ UNCHANGED <<ledgerVars, origin, stops>>

UndoLedger(p) ==
    /\ Runs(p, "undo", "call") /\ CallIs(p, "done")
    /\ FT!Return(p)
    /\ \/ /\ L!RollbackTransactionAndManagedObject(calls[p].tx)
          /\ cli' = [cli EXCEPT ![p].pc = "next", ![p].txs = @ \ {calls[p].tx}]
          /\ UNCHANGED stops
       \/ /\ ~L!StillOwns(calls[p].tx)
          /\ Exit(p)
          /\ UNCHANGED <<ledgerVars, stops>>
       \/ /\ LedgerFails
          /\ Exit(p)
          /\ UNCHANGED ledgerVars
    /\ UNCHANGED origin

\* Undo stops at the first file it may not or cannot restore.
UndoError(p) ==
    /\ Runs(p, "undo", "call") /\ CallIs(p, "err")
    /\ FT!Return(p)
    /\ Exit(p)
    /\ UNCHANGED <<ledgerVars, origin, stops>>

UndoEnd(p) ==
    /\ Runs(p, "undo", "next") /\ cli[p].txs = {}
    /\ \/ L!FinishOperation(cli[p].op, "rolled-back") /\ UNCHANGED stops
       \/ LedgerFails /\ UNCHANGED ledgerVars
    /\ Exit(p)
    /\ UNCHANGED <<storeVars, origin>>

-----------------------------------------------------------------------------
(* recovery rollback, crashes and the user *)

RecoverStart(p, x) ==
    /\ Free(p)
    /\ FT!RecoverLoad(p, x, L!HasTransaction(x))
    /\ Begin(p, "recover", None, {}, {}, "call")
    /\ UNCHANGED <<ledgerVars, origin, stops>>

RecoverEnd(p) ==
    /\ Runs(p, "recover", "call") /\ FT!Return(p)
    /\ Exit(p)
    /\ UNCHANGED <<ledgerVars, origin, stops>>

Crash(p) ==
    /\ ~Free(p)
    /\ Exit(p)
    /\ \/ FT!Crash(p) /\ UNCHANGED stops
       \/ /\ FT!Idle(p) /\ stops < MaxStops /\ stops' = stops + 1
          /\ UNCHANGED storeVars
    /\ UNCHANGED <<ledgerVars, origin>>

InStore == UNCHANGED <<ledgerVars, cli, origin, stops>>

Apply(p) ==
    \/ \E o \in Ops, S \in SUBSET Targets : \E rendered \in [S -> PlanBytes] :
            S # {} /\ ApplyStart(p, o, rendered)
    \/ \E x \in Txs : ~Free(p) /\ \E w \in cli[p].plan : ApplyNext(p, w, x)
    \/ Record(p) \/ RecordError(p) \/ ApplyError(p)
    \/ ApplyEnd(p) \/ ApplyEndError(p)
    \/ RollbackNext(p) \/ RollbackDone(p) \/ RollbackError(p) \/ RollbackEnd(p)

Undo(p) ==
    \/ \E o \in Ops : UndoStart(p, o)
    \/ UndoNext(p) \/ UndoLedger(p) \/ UndoError(p) \/ UndoEnd(p)

Recover(p) == (\E x \in Txs : RecoverStart(p, x)) \/ RecoverEnd(p)

Next ==
    \/ \E p \in Procs : Apply(p) \/ Undo(p) \/ Recover(p) \/ Crash(p)
    \/ InStore /\ \E p \in Procs : FT!Step(p) \/ FT!IoError(p) \/ FT!TargetUnseen(p)
    \/ InStore /\ \E t \in Targets, c \in FT!FileState : FT!Edit(t, c)
    \/ InStore /\ \E x \in Txs : FT!DamageBackup(x)

Spec == Init /\ [][Next]_vars

-----------------------------------------------------------------------------
(* Safety *)

JournalIs(x, status) == journals[x] # None /\ journals[x].status = status

\* Recovery offers the transaction to the user.
AwaitsRecovery(x) ==
    \/ JournalIs(x, "prepared")
    \/ JournalIs(x, "committed") /\ ~L!HasTransaction(x)

(***************************************************************************)
(* The ledger never runs ahead of the journals: a row names a journal that *)
(* was committed with the same target and content, and a row is rolled     *)
(* back only after its journal.  It holds with any number of processes.    *)
(***************************************************************************)
RowsFollowJournals ==
    \A x \in Txs : L!HasTransaction(x) =>
        /\ journals[x] # None /\ journals[x].status # "prepared"
        /\ journals[x].target = changes[x].target
        /\ journals[x].after = changes[x].after.hash
        /\ transactions[x] = "rolled-back" => JournalIs(x, "rolled-back")

(***************************************************************************)
(* What an operation's status promises about its files when one command    *)
(* runs at a time.  Succeeded: every transaction it opened is in the       *)
(* ledger.  Rolled back: each is closed in both places, or recovery still  *)
(* offers it.                                                              *)
(***************************************************************************)
Opened(o) == {x \in Txs : origin[x] = o /\ journals[x] # None}

Reversed(x) ==
    JournalIs(x, "rolled-back") /\ (L!HasTransaction(x) => ~L!Live(x))

OutcomesAreTrue ==
    \A o \in Ops : \A x \in Opened(o) :
        /\ operations[o] = "succeeded" => L!HasTransaction(x)
        /\ operations[o] = "rolled-back" => Reversed(x) \/ AwaitsRecovery(x)

(***************************************************************************)
(* Between commands, and as long as the user edits nothing, a managed      *)
(* target holds the bytes its ownership record names, or a journal shows   *)
(* why not: recovery still offers it, it was rolled back and the ledger    *)
(* did not follow, or it was closed over a file that could not be read.    *)
(***************************************************************************)
Unsettled(x) ==
    \/ AwaitsRecovery(x)
    \/ JournalIs(x, "rolled-back") /\ transactions[x] # "rolled-back"

Restoring(x) ==
    \* The file was restored but the journal not saved.
    JournalIs(x, "committed") /\ files[journals[x].target] = journals[x].before

Abandoned(x) ==
    \* The journal was closed over the new file, which could not be read.
    /\ JournalIs(x, "rolled-back") /\ journals[x].before = None
    /\ files[journals[x].target] = journals[x].after

OwnersHoldTheirBytes ==
    (edits = 0 /\ \A p \in Procs : Free(p)) =>
        \A t \in Targets : managed[t] # None =>
            \/ files[t] = managed[t].hash
            \/ \E x \in Txs :
                    /\ journals[x] # None /\ journals[x].target = t
                    /\ Unsettled(x) \/ Restoring(x) \/ Abandoned(x)

-----------------------------------------------------------------------------
(***************************************************************************)
(* What makes RowsFollowJournals inductive, with any number of processes:  *)
(* a store call belongs to its command, a transaction has no row while     *)
(* apply_file still writes its journal, and only apply_file of the         *)
(* process that opened a transaction writes any other journal than the     *)
(* rolled-back one.                                                        *)
(***************************************************************************)
CallOf(p) ==
    IF Runs(p, "apply", "call") \/ Runs(p, "install", "call") THEN {"apply"}
    ELSE IF \/ Runs(p, "apply", "reverting") \/ Runs(p, "install", "reverting")
            \/ Runs(p, "undo", "call") THEN {"undo"}
    ELSE IF Runs(p, "recover", "call") THEN {"recover"} ELSE {}

Applying(p) == calls[p] # None /\ calls[p].fn = "apply" /\ calls[p].pc # "err"

Opening(p, x) == Applying(p) /\ calls[p].tx = x

\* The journal of transaction x exists, and nobody is still writing it first.
Settled(x) == journals[x] # None /\ \A q \in Procs : ~Opening(q, x)

ApplyingAlone(p) ==
    Applying(p) =>
        /\ calls[p].pc \notin FT!RestorePC
        /\ calls[p].tx \in Txs /\ ~L!HasTransaction(calls[p].tx)
        /\ \A q \in Procs : Opening(q, calls[p].tx) => q = p
        /\ calls[p].pc \in FT!Unjournaled => journals[calls[p].tx] = None
        /\ calls[p].pc \notin FT!Unjournaled => FT!Journaled(p)
        /\ calls[p].pc = "done" => journals[calls[p].tx].status # "prepared"

Reversing(p) ==
    calls[p] # None /\ calls[p].fn # "apply" /\ calls[p].pc # "err" =>
        /\ FT!Journaled(p)
        /\ calls[p].fn = "undo" => Settled(calls[p].tx)
        /\ calls[p].fn = "undo" /\ calls[p].pc = "done" =>
                JournalIs(calls[p].tx, "rolled-back")

CommandInv(p) ==
    /\ calls[p] # None => calls[p].fn \in CallOf(p)
    /\ ApplyingAlone(p) /\ Reversing(p)
    /\ cli[p] # None => \A x \in cli[p].txs : Settled(x)

RowInv(x) ==
    /\ changes[x] # None <=> L!HasTransaction(x)
    /\ L!HasTransaction(x) =>
        /\ Settled(x) /\ journals[x].status # "prepared"
        /\ journals[x].target = changes[x].target
        /\ journals[x].after = changes[x].after.hash
        /\ transactions[x] = "rolled-back" => JournalIs(x, "rolled-back")

MigrationInv ==
    /\ TypeOK
    /\ \A p \in Procs : CommandInv(p)
    /\ \A x \in Txs : RowInv(x)

-----------------------------------------------------------------------------
(* Liveness: a command runs on unless it crashes, and the operator keeps   *)
(* running recovery on what it lists.                                      *)

Advance(p) ==
    \/ \E x \in Txs : ~Free(p) /\ \E w \in cli[p].plan : ApplyNext(p, w, x)
    \/ Record(p) \/ ApplyError(p) \/ ApplyEnd(p)
    \/ RollbackNext(p) \/ RollbackDone(p) \/ RollbackError(p) \/ RollbackEnd(p)
    \/ UndoNext(p) \/ UndoLedger(p) \/ UndoError(p) \/ UndoEnd(p)
    \/ RecoverEnd(p)
    \/ InStore /\ FT!Step(p)

Fairness ==
    /\ \A p \in Procs : WF_vars(Advance(p))
    /\ \A x \in Txs : SF_vars(\E p \in Procs : RecoverStart(p, x))

FairSpec == Spec /\ Fairness

(***************************************************************************)
(* Nothing awaits recovery for ever: a prepared journal, or a committed    *)
(* one the ledger never acknowledged, is finished or reversed by its       *)
(* command or closed by recovery, wherever commands and recoveries stop,   *)
(* unless its target drifted.                                              *)
(***************************************************************************)
RecoveryCloses ==
    \A x \in Txs : AwaitsRecovery(x) ~> (~AwaitsRecovery(x) \/ FT!Drifted(x))

-----------------------------------------------------------------------------
(***************************************************************************)
(* Refinement: under every command, error and crash of one process, each   *)
(* step on the files is a legal step of the reversible replacement; only a *)
(* target that cannot be read lets a journal be closed over the new bytes. *)
(***************************************************************************)
FilesAreReversible == FT!Implements

-----------------------------------------------------------------------------
(* What the documentation says and the code does not do *)

(***************************************************************************)
(* docs/architecture.md:28, "Undo reverses the managed-object ownership    *)
(* change together with the transaction": between commands a recorded      *)
(* transaction is rolled back in the ledger when its journal is.           *)
(***************************************************************************)
UndoneTogether ==
    \A x \in Txs :
        (L!HasTransaction(x) /\ \A p \in Procs : Free(p)) =>
            (JournalIs(x, "rolled-back") <=> ~L!Live(x))

(***************************************************************************)
(* "A committed journal already present in the ledger is never treated as  *)
(* an orphan and must go through normal migration undo."                   *)
(***************************************************************************)
OrphansAreUnrecorded ==
    [][\A p \in Procs :
        (/\ FT!At(p, "recover", "restored")
         /\ JournalIs(calls[p].tx, "committed")
         /\ L!HasTransaction(calls[p].tx))
        => UNCHANGED journals[calls[p].tx]]_vars
=============================================================================

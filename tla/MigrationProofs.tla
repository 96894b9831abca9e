--------------------------- MODULE MigrationProofs ---------------------------
(***************************************************************************)
(* Migration and Integration for any number of processes, operations,      *)
(* transactions and targets: their types, and that the ledger never runs   *)
(* ahead of the journals.  First what each step does to the store and to   *)
(* the ledger, then what the commands do to both.  Then, for one command   *)
(* at a time, that the statuses of the operations are true and that owned  *)
(* targets hold their owners' bytes.  Then that every command uses the     *)
(* store as FileTransaction allows, which carries over its theorems.       *)
(* Last the install and uninstall commands: that they keep the user's      *)
(* Skills, and for one command at a time that owned Skills are installed.  *)
(***************************************************************************)
EXTENDS Integration, TLAPS

(* Types of the store *)

\* Moving the program counter of a call changes nothing else of it.
LEMMA GotoCall ==
    ASSUME FT!TypeOK, NEW p \in Procs, calls[p] # None,
           NEW pc \in FT!ApplyPC \union FT!RestorePC \union FT!ResultPC, FT!Goto(p, pc)
    PROVE  /\ calls' \in [Procs -> FT!Call \union {None}]
           /\ calls'[p] # None /\ calls'[p].pc = pc
           /\ calls'[p].fn = calls[p].fn /\ calls'[p].tx = calls[p].tx
           /\ calls'[p].target = calls[p].target
           /\ calls'[p].before = calls[p].before
           /\ calls'[p].after = calls[p].after
           /\ \A q \in Procs \ {p} : calls'[q] = calls[q]
<1>1. calls[p] \in FT!Call
  BY DEF FT!TypeOK
<1>2. calls'[p] = [calls[p] EXCEPT !.pc = pc]
  BY DEF FT!TypeOK, FT!Goto
<1>3. calls'[p] \in FT!Call
  BY <1>1, <1>2 DEF FT!Call
<1>4. /\ calls' \in [Procs -> FT!Call \union {None}]
      /\ \A q \in Procs \ {p} : calls'[q] = calls[q]
  BY <1>3, <1>2 DEF FT!TypeOK, FT!Goto
<1> QED
  BY <1>1, <1>2, <1>3, <1>4, NoneIsNoRecord DEF FT!Call

LEMMA StepTypes ==
    ASSUME FT!TypeOK, NEW p \in Procs, FT!Step(p) \/ FT!IoError(p) \/ FT!TargetUnseen(p)
    PROVE  FT!TypeOK'
<1> USE DEF FT!ApplyPC, FT!RestorePC, FT!ResultPC, FT!fileVars, FT!envVars
<1>1. calls[p] # None => calls[p] \in FT!Call
  BY DEF FT!TypeOK
<1>2. CASE FT!ApplyBackup(p)
  <2>1. calls[p].before \in FT!FileState
    BY <1>1, <1>2 DEF FT!ApplyBackup, FT!At, FT!Call
  <2> QED
    BY <1>2, <2>1, GotoCall DEF FT!ApplyBackup, FT!At, FT!TypeOK, FT!FileState
<1>3. CASE FT!ApplyPrepare(p) \/ FT!ApplyCommit(p) \/ FT!SaveRolledBack(p)
  <2>1. \A s \in {"prepared", "committed", "rolled-back"} : 
            calls[p] # None => FT!JournalOf(p, s) \in FT!Journal
    BY <1>1 DEF FT!JournalOf, FT!Journal, FT!Call
  <2>2. calls' \in [Procs -> FT!Call \union {None}]
    BY <1>3, GotoCall DEF FT!ApplyPrepare, FT!ApplyCommit, FT!SaveRolledBack, FT!At
  <2> QED
    BY <1>3, <2>1, <2>2
       DEF FT!ApplyPrepare, FT!ApplyCommit, FT!SaveRolledBack, FT!At, FT!TypeOK
<1>4. CASE FT!ApplyPersist(p)
  <2>1. calls[p].after \in FT!FileState
    BY <1>1, <1>4 DEF FT!ApplyPersist, FT!At, FT!Call, FT!FileState, FT!Contents
  <2> QED
    BY <1>4, <2>1, GotoCall DEF FT!ApplyPersist, FT!At, FT!TypeOK
<1>5. CASE FT!RecoverClassify(p)
  <2>1. FT!Disposition(p) \in FT!RestorePC \union FT!ResultPC
    BY DEF FT!Disposition
  <2> QED
    BY <1>5, <2>1, GotoCall DEF FT!RecoverClassify, FT!At, FT!TypeOK
<1>6. CASE FT!RestoreBefore(p)
  <2>1. FT!BackupVerifies(p) => FT!BeforeBytes(p) \in FT!FileState
    BY <1>1, <1>6 DEF FT!RestoreBefore, FT!BackupVerifies, FT!BeforeBytes, FT!Call, FT!FileState
  <2>2. calls' \in [Procs -> FT!Call \union {None}]
    BY <1>6, GotoCall DEF FT!RestoreBefore
  <2> QED
    BY <1>6, <2>1, <2>2 DEF FT!RestoreBefore, FT!TypeOK
<1>7. CASE FT!IoError(p) \/ FT!TargetUnseen(p)
  BY <1>7, GotoCall DEF FT!IoError, FT!TargetUnseen, FT!TypeOK
<1> QED
  BY <1>2, <1>3, <1>4, <1>5, <1>6, <1>7 DEF FT!Step

LEMMA EnvironmentTypes ==
    ASSUME FT!TypeOK, NEW t \in Targets, NEW c \in FT!FileState, NEW x \in Txs,
           NEW p \in Procs,
           FT!Edit(t, c) \/ FT!DamageBackup(x) \/ FT!Crash(p) \/ FT!Return(p)
    PROVE  FT!TypeOK'
BY DEF FT!TypeOK, FT!Edit, FT!DamageBackup, FT!Crash, FT!Return, FT!fileVars, FT!envVars

\* A call starts; its record is well-typed.
LEMMA StartTypes ==
    ASSUME FT!TypeOK, NEW p \in Procs, NEW c \in FT!Call,
           calls' = [calls EXCEPT ![p] = c], UNCHANGED <<FT!fileVars, FT!envVars>>
    PROVE  FT!TypeOK'
BY DEF FT!TypeOK, FT!fileVars, FT!envVars

LEMMA ReadStarts ==
    ASSUME FT!TypeOK, NEW p \in Procs, NEW x \in Txs, NEW w \in Write,
           \/ FT!ApplyRead(p, x, w.target, w.expected, w.new)
           \/ FT!ApplyStale(p, w.target, w.expected, w.new)
    PROVE  /\ FT!TypeOK' /\ UNCHANGED journals
           /\ \A q \in Procs \ {p} : calls'[q] = calls[q]
           /\ calls[p] = None /\ calls'[p] # None /\ calls'[p].fn = "apply"
           /\ \/ calls'[p].pc = "err"
              \/ calls'[p].pc = "read" /\ calls'[p].tx = x /\ FT!Fresh(x)
<1> USE DEF FT!ApplyPC, FT!RestorePC, FT!ResultPC
<1>1. w.target \in Targets /\ w.new \in PlanBytes
  BY DEF Write
<1>2. PICK pc \in {"read", "err"}, y \in {x, None} :
        /\ calls' = [calls EXCEPT ![p] =
                [fn |-> "apply", pc |-> pc, tx |-> y, target |-> w.target,
                 before |-> files[w.target], after |-> w.new]]
        /\ UNCHANGED <<FT!fileVars, FT!envVars>>
        /\ calls[p] = None
        /\ pc = "err" \/ (y = x /\ FT!Fresh(x))
  <2>1. CASE FT!ApplyRead(p, x, w.target, w.expected, w.new)
    BY <2>1 DEF FT!ApplyRead, FT!Idle
  <2>2. CASE FT!ApplyStale(p, w.target, w.expected, w.new)
    BY <2>2 DEF FT!ApplyStale, FT!Idle
  <2> QED
    BY <2>1, <2>2
<1> DEFINE c == [fn |-> "apply", pc |-> pc, tx |-> y, target |-> w.target,
                 before |-> files[w.target], after |-> w.new]
<1>3. c \in FT!Call /\ c.fn = "apply" /\ c.pc = pc /\ c.tx = y
  BY <1>1 DEF FT!Call, FT!TypeOK
<1> HIDE DEF c
<1>4. calls'[p] = c /\ \A q \in Procs \ {p} : calls'[q] = calls[q]
  BY <1>2 DEF FT!TypeOK, c
<1>5. FT!TypeOK' /\ UNCHANGED journals
  BY <1>2, <1>3, StartTypes DEF FT!fileVars, c
<1> QED
  BY <1>2, <1>3, <1>4, <1>5, NoneIsNoRecord

\* An undo or a recovery loads the journal of x.
LEMMA LoadStarts ==
    ASSUME FT!TypeOK, NEW p \in Procs, NEW x \in Txs, NEW status, NEW recorded,
           FT!UndoCheck(p, x, status) \/ FT!RecoverLoad(p, x, recorded)
    PROVE  /\ FT!TypeOK' /\ UNCHANGED journals
           /\ \A q \in Procs \ {p} : calls'[q] = calls[q]
           /\ calls[p] = None /\ calls'[p] # None
           /\ FT!UndoCheck(p, x, status) => calls'[p].fn = "undo"
           /\ ~FT!UndoCheck(p, x, status) => calls'[p].fn = "recover"
           /\ calls'[p].pc \in {"checked", "loaded", "err"} /\ calls'[p].tx = x
           /\ journals[x] # None /\ FT!Journaled(p)'
<1> USE DEF FT!ApplyPC, FT!RestorePC, FT!ResultPC
<1>1. journals[x] \in FT!Journal /\ journals[x] # None /\ calls[p] = None
  BY DEF FT!TypeOK, FT!UndoCheck, FT!RecoverLoad, FT!Idle
<1>2. PICK fn \in {"undo", "recover"}, pc \in {"checked", "loaded", "err"} :
        /\ calls' = [calls EXCEPT ![p] = FT!Loaded(fn, pc, x)]
        /\ UNCHANGED <<FT!fileVars, FT!envVars>>
        /\ fn = "undo" <=> FT!UndoCheck(p, x, status)
  <2>1. CASE FT!UndoCheck(p, x, status)
    BY <2>1 DEF FT!UndoCheck
  <2>2. CASE ~FT!UndoCheck(p, x, status)
    BY <2>2 DEF FT!RecoverLoad
  <2> QED
    BY <2>1, <2>2
<1> DEFINE c == FT!Loaded(fn, pc, x)
<1>3. /\ c \in FT!Call /\ c.fn = fn /\ c.pc = pc /\ c.tx = x
      /\ c.target = journals[x].target /\ c.before = journals[x].before
      /\ c.after = journals[x].after
  BY <1>1 DEF FT!Loaded, FT!Call, FT!Journal
<1> HIDE DEF c
<1>4. calls'[p] = c /\ \A q \in Procs \ {p} : calls'[q] = calls[q]
  BY <1>2 DEF FT!TypeOK, c
<1>5. FT!TypeOK' /\ UNCHANGED journals
  BY <1>2, <1>3, StartTypes DEF FT!fileVars, c
<1> QED
  BY <1>1, <1>2, <1>3, <1>4, <1>5, NoneIsNoRecord DEF FT!Journaled

-----------------------------------------------------------------------------
(* Types of the ledger and of the commands *)

LEMMA LedgerTypes ==
    ASSUME L!TypeOK, \A y \in Txs : L!HasTransaction(y) => changes[y] # None,
           NEW o \in Ops, NEW x \in Txs, NEW t \in Targets,
           NEW h \in PlanBytes, NEW status \in L!OperationStatus,
           \/ L!BeginOperation(o) \/ L!FinishOperation(o, status)
           \/ L!RecordTransactionWithManagedObject(o, x, t, h)
           \/ L!RollbackTransactionAndManagedObject(x)
    PROVE  L!TypeOK'
<1>1. CASE L!BeginOperation(o) \/ L!FinishOperation(o, status)
  BY <1>1 DEF L!TypeOK, L!BeginOperation, L!FinishOperation, L!OperationStatus
<1>2. CASE L!RecordTransactionWithManagedObject(o, x, t, h)
  <2>1. [owner |-> o, hash |-> h] \in L!Owner
    BY DEF L!Owner
  <2>2. [op |-> o, target |-> t, before |-> managed[t], after |-> [owner |-> o, hash |-> h]]
            \in L!Change
    BY <2>1 DEF L!TypeOK, L!Change
  <2> QED
    BY <1>2, <2>1, <2>2 DEF L!TypeOK, L!RecordTransactionWithManagedObject,
       L!Upsert, L!SetStatus, L!TransactionStatus
<1>3. CASE L!RollbackTransactionAndManagedObject(x)
  <2>1. L!StillOwns(x) /\ L!RestoreOwner(x)
    BY <1>3 DEF L!RollbackTransactionAndManagedObject
  <2>2. managed' \in [Targets -> L!Owner \union {None}]
    <3>1. changes[x] \in L!Change
      BY <1>3 DEF L!RollbackTransactionAndManagedObject, L!TypeOK
    <3> QED
      BY <2>1, <3>1 DEF L!RestoreOwner, L!TypeOK, L!Change
  <2> QED
    BY <1>3, <2>2 DEF L!TypeOK, L!RollbackTransactionAndManagedObject, L!SetStatus,
       L!TransactionStatus
<1> QED
  BY <1>1, <1>2, <1>3

LEMMA CliTypes ==
    ASSUME TypeOK, NEW p \in Procs, NEW c \in Command \union {None},
           cli' = [cli EXCEPT ![p] = c]
    PROVE  /\ cli' \in [Procs -> Command \union {None}]
           /\ cli'[p] = c /\ \A q \in Procs \ {p} : cli'[q] = cli[q]
BY DEF TypeOK

-----------------------------------------------------------------------------
(* What keeps the invariant *)

\* Only process p moves, and it opens at most a fresh transaction.
LEMMA Local ==
    ASSUME MigrationInv, TypeOK', NEW p \in Procs,
           UNCHANGED <<journals, transactions, changes>>,
           \A q \in Procs \ {p} : calls'[q] = calls[q] /\ cli'[q] = cli[q],
           \A x \in Txs : Opening(p, x)' => Opening(p, x) \/ FT!Fresh(x),
           CommandInv(p)'
    PROVE  MigrationInv'
<1> USE DEF MigrationInv
<1>1. \A x \in Txs, q \in Procs \ {p} : Opening(q, x)' <=> Opening(q, x)
  BY DEF Opening, Applying
<1>2. \A x \in Txs : Settled(x) => Settled(x)'
  BY <1>1 DEF Settled, FT!Fresh
<1>3. ASSUME NEW q \in Procs \ {p} PROVE CommandInv(q)'
  <2>1. CommandInv(q)
    OBVIOUS
  <2>2. calls'[q] # None => calls'[q].fn \in CallOf(q)'
    BY <2>1 DEF CommandInv, CallOf, Runs
  <2>3. ApplyingAlone(q)'
    <3> SUFFICES ASSUME Applying(q)' PROVE ApplyingAlone(q)'
      BY DEF ApplyingAlone
    <3>1. Applying(q) /\ calls'[q] = calls[q]
      BY DEF Applying
    <3>2. \A r \in Procs : Opening(r, calls[q].tx)' => r = q
      BY <1>1, <2>1, <3>1 DEF CommandInv, ApplyingAlone, Opening, Applying, FT!Fresh
    <3> QED
      BY <2>1, <3>1, <3>2 DEF CommandInv, ApplyingAlone, FT!Journaled, L!HasTransaction
  <2>4. Reversing(q)'
    BY <1>2, <2>1 DEF CommandInv, Reversing, FT!Journaled, JournalIs
  <2>5. cli'[q] # None => \A x \in cli'[q].txs : Settled(x)'
    BY <1>2, <2>1 DEF CommandInv, TypeOK, Command
  <2> QED
    BY <2>2, <2>3, <2>4, <2>5 DEF CommandInv
<1>4. \A x \in Txs : RowInv(x)'
  BY <1>2 DEF RowInv, L!HasTransaction, JournalIs
<1> QED
  BY <1>3, <1>4

\* Process p writes the journal of its call.
LEMMA Writes ==
    ASSUME MigrationInv, TypeOK', NEW p \in Procs, calls[p] # None,
           NEW x \in Txs, x = calls[p].tx,
           NEW status \in {"prepared", "committed", "rolled-back"},
           journals' = [journals EXCEPT ![x] = FT!JournalOf(p, status)],
           UNCHANGED <<transactions, changes, cli>>,
           \A q \in Procs \ {p} : calls'[q] = calls[q],
           \A y \in Txs : Opening(p, y)' <=> Opening(p, y),
           status # "rolled-back" => Opening(p, x),
           status = "prepared" => journals[x] = None,
           ~Opening(p, x) => journals[x] # None,
           journals[x] # None => FT!Journaled(p),
           CommandInv(p)'
    PROVE  MigrationInv'
<1> USE DEF MigrationInv
<1>1. \A y \in Txs, q \in Procs : Opening(q, y)' <=> Opening(q, y)
  BY DEF Opening, Applying
<1>2. /\ journals'[x] # None /\ journals'[x].status = status
      /\ journals'[x].target = calls[p].target
      /\ journals'[x].before = calls[p].before
      /\ journals'[x].after = calls[p].after
      /\ \A y \in Txs \ {x} : journals'[y] = journals[y]
  <2>1. FT!JournalOf(p, status) \in FT!Journal
    BY DEF TypeOK, FT!TypeOK, FT!JournalOf, FT!Journal, FT!Call
  <2> QED
    BY <2>1, NoneIsNoRecord DEF TypeOK, FT!TypeOK, FT!JournalOf
<1>3. \A y \in Txs : Settled(y) => Settled(y)'
  BY <1>1, <1>2 DEF Settled
<1>4. ASSUME NEW q \in Procs \ {p} PROVE CommandInv(q)'
  <2>1. CommandInv(q)
    OBVIOUS
  <2>2. calls'[q] # None => calls'[q].fn \in CallOf(q)'
    BY <2>1 DEF CommandInv, CallOf, Runs
  <2>3. FT!Journaled(q) => FT!Journaled(q)'
    BY <1>2 DEF FT!Journaled
  <2>4. ApplyingAlone(q)'
    <3> SUFFICES ASSUME Applying(q)' PROVE ApplyingAlone(q)'
      BY DEF ApplyingAlone
    <3>1. Applying(q) /\ calls'[q] = calls[q] /\ calls[q].tx \in Txs
      BY <2>1 DEF Applying, CommandInv, ApplyingAlone
    <3>2. calls[q].tx = x => journals[x] # None /\ status = "rolled-back"
      BY <2>1, <3>1 DEF CommandInv, ApplyingAlone, Opening
    <3> QED
      BY <1>1, <1>2, <2>1, <2>3, <3>1, <3>2
         DEF CommandInv, ApplyingAlone, L!HasTransaction
  <2>5. Reversing(q)'
    <3> SUFFICES ASSUME calls[q] # None, calls[q].fn # "apply", calls[q].pc # "err"
                 PROVE  Reversing(q)'
      BY DEF Reversing
    <3>1. FT!Journaled(q)' /\ calls[q].tx \in Txs
      BY <2>1, <2>3 DEF CommandInv, Reversing, FT!Journaled
    <3>2. calls[q].fn = "undo" => Settled(calls[q].tx)'
      BY <1>3, <2>1, <3>1 DEF CommandInv, Reversing
    <3>3. calls[q].fn = "undo" /\ calls[q].tx = x => status = "rolled-back"
      BY <2>1 DEF CommandInv, Reversing, Settled
    <3> QED
      BY <1>2, <2>1, <3>1, <3>2, <3>3 DEF CommandInv, Reversing, JournalIs
  <2>6. cli'[q] # None => \A y \in cli'[q].txs : Settled(y)'
    BY <1>3, <2>1 DEF CommandInv, TypeOK, Command
  <2> QED
    BY <2>2, <2>4, <2>5, <2>6 DEF CommandInv
<1>5. ASSUME NEW y \in Txs PROVE RowInv(y)'
  <2>1. CASE y # x
    BY <1>2, <1>3, <2>1 DEF RowInv, L!HasTransaction, JournalIs
  <2>2. CASE y = x
    <3>1. L!HasTransaction(x) => status = "rolled-back" /\ FT!Journaled(p)
      BY DEF RowInv, Settled
    <3> QED
      BY <1>2, <1>3, <2>2, <3>1 DEF RowInv, L!HasTransaction, JournalIs, FT!Journaled
  <2> QED
    BY <2>1, <2>2
<1> QED
  BY <1>4, <1>5

\* A process outside the store calls.
LEMMA IdleCommand ==
    ASSUME NEW p \in Procs, calls'[p] = None,
           cli'[p] # None => \A x \in cli'[p].txs : Settled(x)'
    PROVE  CommandInv(p)' /\ \A x \in Txs : ~Opening(p, x)'
BY DEF CommandInv, ApplyingAlone, Reversing, Applying, Opening

LEMMA SettledStays ==
    ASSUME NEW p \in Procs, NEW x \in Txs, Settled(x), UNCHANGED journals,
           \A q \in Procs \ {p} : calls'[q] = calls[q], ~Opening(p, x)'
    PROVE  Settled(x)'
BY DEF Settled, Opening, Applying

\* Process p returns from a call, and the ledger writes the row of x.
LEMMA Rows ==
    ASSUME MigrationInv, TypeOK', NEW p \in Procs, NEW x \in Txs,
           calls'[p] = None, UNCHANGED journals,
           \A q \in Procs \ {p} : calls'[q] = calls[q] /\ cli'[q] = cli[q],
           \A q \in Procs \ {p} : ~Opening(q, x),
           \A y \in Txs \ {x} :
                transactions'[y] = transactions[y] /\ changes'[y] = changes[y],
           transactions'[x] # None, changes'[x] # None,
           journals[x] # None, journals[x].status # "prepared",
           journals[x].target = changes'[x].target,
           journals[x].after = changes'[x].after.hash,
           transactions'[x] = "rolled-back" => JournalIs(x, "rolled-back"),
           cli'[p] # None => \A y \in cli'[p].txs : Settled(y)'
    PROVE  MigrationInv'
<1> USE DEF MigrationInv
<1>1. CommandInv(p)' /\ \A y \in Txs : ~Opening(p, y)'
  BY IdleCommand
<1>2. \A y \in Txs : Settled(y) => Settled(y)'
  BY <1>1, SettledStays
<1>3. Settled(x)'
  BY <1>1 DEF Settled, Opening, Applying
<1>4. ASSUME NEW q \in Procs \ {p} PROVE CommandInv(q)'
  <2>1. CommandInv(q)
    OBVIOUS
  <2>2. calls'[q] # None => calls'[q].fn \in CallOf(q)'
    BY <2>1 DEF CommandInv, CallOf, Runs
  <2>3. ApplyingAlone(q)'
    <3> SUFFICES ASSUME Applying(q)' PROVE ApplyingAlone(q)'
      BY DEF ApplyingAlone
    <3>1. Applying(q) /\ calls'[q] = calls[q] /\ calls[q].tx \in Txs \ {x}
      BY <2>1 DEF Applying, CommandInv, ApplyingAlone, Opening
    <3>2. \A r \in Procs : Opening(r, calls[q].tx)' => r = q
      BY <1>1, <2>1, <3>1 DEF CommandInv, ApplyingAlone, Opening, Applying
    <3> QED
      BY <2>1, <3>1, <3>2 DEF CommandInv, ApplyingAlone, FT!Journaled, L!HasTransaction
  <2>4. Reversing(q)'
    BY <1>2, <2>1 DEF CommandInv, Reversing, FT!Journaled, JournalIs
  <2>5. cli'[q] # None => \A y \in cli'[q].txs : Settled(y)'
    BY <1>2, <2>1 DEF CommandInv, TypeOK, Command
  <2> QED
    BY <2>2, <2>3, <2>4, <2>5 DEF CommandInv
<1>5. ASSUME NEW y \in Txs PROVE RowInv(y)'
  <2>1. CASE y # x
    BY <1>2, <2>1 DEF RowInv, L!HasTransaction, JournalIs
  <2>2. CASE y = x
    BY <1>3, <2>2 DEF RowInv, L!HasTransaction, JournalIs
  <2> QED
    BY <2>1, <2>2
<1> QED
  BY <1>1, <1>4, <1>5

-----------------------------------------------------------------------------
(* Commands that start, move on or end without a store call *)

\* Only the command of p and what it does to operations change.
LEMMA Plain ==
    ASSUME MigrationInv, TypeOK', NEW p \in Procs, calls[p] = None,
           UNCHANGED <<calls, journals, transactions, changes>>,
           \A q \in Procs \ {p} : cli'[q] = cli[q],
           cli'[p] # None => \A x \in cli'[p].txs : Settled(x)
    PROVE  MigrationInv'
<1>1. cli'[p] # None => \A x \in cli'[p].txs : Settled(x)'
  BY DEF Settled, Opening, Applying
<1>2. CommandInv(p)' /\ \A x \in Txs : ~Opening(p, x)'
  BY <1>1, IdleCommand
<1> QED
  BY <1>2, Local

LEMMA FreeIsIdle ==
    ASSUME MigrationInv, NEW p \in Procs, CallOf(p) = {}
    PROVE  calls[p] = None
BY DEF MigrationInv, CommandInv

LEMMA ApplyStartInv ==
    ASSUME MigrationInv, NEW p \in Procs, NEW o \in Ops, NEW S \in SUBSET Targets,
           NEW rendered \in [S -> PlanBytes], ApplyStart(p, o, rendered)
    PROVE  MigrationInv'
<1> USE DEF ApplyStart
<1>1. TypeOK /\ calls[p] = None
  BY FreeIsIdle DEF MigrationInv, CallOf, Runs, Free
<1> DEFINE plan == PlanFor(rendered)
           c == [cmd |-> "apply", op |-> o, pc |-> "next", plan |-> plan, txs |-> {},
                 ok |-> TRUE, finish |-> TRUE]
<1>2. plan \subseteq Write
  BY <1>1 DEF PlanFor, Write, TypeOK, FT!TypeOK
<1>3. c \in Command /\ c.txs = {}
  BY <1>2, NoneIsNoRecord DEF Command
<1>4. cli' = [cli EXCEPT ![p] = c]
  BY DEF Begin
<1> HIDE DEF c
<1>5. /\ cli' \in [Procs -> Command \union {None}]
      /\ cli'[p] = c /\ \A q \in Procs \ {p} : cli'[q] = cli[q]
  BY <1>1, <1>3, <1>4, CliTypes
<1>6. L!TypeOK'
  BY <1>1 DEF TypeOK, L!TypeOK, L!BeginOperation, L!OperationStatus
<1>7. TypeOK'
  BY <1>1, <1>5, <1>6 DEF TypeOK, FT!TypeOK, storeVars
<1> QED
  BY <1>1, <1>3, <1>5, <1>7, Plain DEF L!BeginOperation, storeVars

\* The command takes the result of its store call and writes no row.
LEMMA Returned ==
    ASSUME MigrationInv, NEW p \in Procs, FT!Return(p), cli[p] # None,
           UNCHANGED <<transactions, changes, origin>>, L!TypeOK', stops' \in Nat,
           NEW c \in Command \union {None}, cli' = [cli EXCEPT ![p] = c],
           c # None => \A x \in c.txs : Settled(x)'
    PROVE  MigrationInv'
<1>1. TypeOK /\ FT!TypeOK'
  BY EnvironmentTypes DEF MigrationInv, TypeOK, FT!Return, FT!TypeOK, FT!fileVars, FT!envVars
<1>2. /\ cli' \in [Procs -> Command \union {None}]
      /\ cli'[p] = c /\ \A q \in Procs \ {p} : cli'[q] = cli[q]
  BY <1>1, CliTypes
<1>3. TypeOK'
  BY <1>1, <1>2 DEF TypeOK
<1>4. /\ calls'[p] = None /\ \A q \in Procs \ {p} : calls'[q] = calls[q]
      /\ UNCHANGED journals
  BY <1>1 DEF FT!Return, FT!fileVars, TypeOK, FT!TypeOK
<1>5. CommandInv(p)' /\ \A x \in Txs : ~Opening(p, x)'
  BY <1>2, <1>4, IdleCommand
<1> QED
  BY <1>2, <1>3, <1>4, <1>5, Local

\* What a command has committed stays settled when it returns.
LEMMA TxsStay ==
    ASSUME MigrationInv, NEW p \in Procs, FT!Return(p), cli[p] # None
    PROVE  \A x \in cli[p].txs : x \in Txs /\ Settled(x)'
<1> SUFFICES ASSUME NEW x \in cli[p].txs PROVE x \in Txs /\ Settled(x)'
  OBVIOUS
<1>1. x \in Txs /\ Settled(x) /\ FT!TypeOK
  BY DEF MigrationInv, CommandInv, TypeOK, Command
<1>2. /\ calls'[p] = None /\ \A q \in Procs \ {p} : calls'[q] = calls[q]
      /\ UNCHANGED journals
  BY <1>1 DEF FT!Return, FT!fileVars, FT!TypeOK
<1>3. ~Opening(p, x)'
  BY <1>2 DEF Opening, Applying
<1> QED
  BY <1>1, <1>2, <1>3, SettledStays

\* The transaction apply_file just returned is settled from then on.
LEMMA TxSettles ==
    ASSUME MigrationInv, NEW p \in Procs, FT!Return(p), CallIs(p, "done"),
           Runs(p, "apply", "call") \/ Runs(p, "install", "call")
    PROVE  /\ calls[p].tx \in Txs /\ ~L!HasTransaction(calls[p].tx)
           /\ \A x \in Txs : x = calls[p].tx => Settled(x)'
           /\ FT!Journaled(p) /\ journals[calls[p].tx].status # "prepared"
           /\ \A q \in Procs \ {p} : ~Opening(q, calls[p].tx)
<1>1. CommandInv(p) /\ FT!TypeOK /\ Applying(p)
  BY DEF MigrationInv, TypeOK, CommandInv, CallOf, CallIs, FT!Idle, Applying
<1>2. /\ calls'[p] = None /\ \A q \in Procs \ {p} : calls'[q] = calls[q]
      /\ UNCHANGED journals
  BY <1>1 DEF FT!Return, FT!fileVars, FT!TypeOK
<1>3. /\ calls[p].tx \in Txs /\ ~L!HasTransaction(calls[p].tx)
      /\ FT!Journaled(p) /\ journals[calls[p].tx].status # "prepared"
      /\ \A q \in Procs \ {p} : ~Opening(q, calls[p].tx)
  BY <1>1 DEF CommandInv, ApplyingAlone, CallIs, FT!Unjournaled
<1> QED
  BY <1>2, <1>3 DEF Settled, Opening, Applying, FT!Journaled

\* An operation's status is not a row of a transaction.
LEMMA OperationsOnly ==
    ASSUME MigrationInv, NEW o \in Ops, NEW status \in L!OperationStatus,
           L!FinishOperation(o, status) \/ UNCHANGED ledgerVars
    PROVE  L!TypeOK' /\ UNCHANGED <<transactions, changes>>
BY DEF MigrationInv, TypeOK, L!TypeOK, L!FinishOperation, ledgerVars

LEMMA ApplyErrorInv ==
    ASSUME MigrationInv, NEW p \in Procs, ApplyError(p)
    PROVE  MigrationInv'
<1>1. cli[p] \in Command /\ cli[p] # None
  BY DEF ApplyError, Runs, MigrationInv, TypeOK
<1> DEFINE c == [cli[p] EXCEPT !.pc = "rollback"]
<1>2. c \in Command /\ c.txs = cli[p].txs
  BY <1>1 DEF Command
<1>3. cli' = [cli EXCEPT ![p] = c]
  BY DEF ApplyError, Proceed
<1> QED
  BY <1>1, <1>2, <1>3, Returned, TxsStay
     DEF ApplyError, ledgerVars, MigrationInv, TypeOK, L!TypeOK

LEMMA RollbackErrorInv ==
    ASSUME MigrationInv, NEW p \in Procs, RollbackError(p)
    PROVE  MigrationInv'
<1>1. cli[p] \in Command /\ cli[p] # None
  BY DEF RollbackError, Runs, MigrationInv, TypeOK
<1> DEFINE c == [cli[p] EXCEPT !.pc = "rollback", !.txs = @ \ {calls[p].tx},
                               !.ok = @ /\ FALSE]
<1>2. c \in Command /\ c.txs \subseteq cli[p].txs
  BY <1>1 DEF Command
<1>3. cli' = [cli EXCEPT ![p] = c]
  BY DEF RollbackError, Reverted
<1> QED
  BY <1>1, <1>2, <1>3, Returned, TxsStay
     DEF RollbackError, Reverted, ledgerVars, MigrationInv, TypeOK, L!TypeOK

LEMMA ExitInv ==
    ASSUME MigrationInv, NEW p \in Procs, UndoError(p) \/ RecoverEnd(p) \/ InstallError(p)
    PROVE  MigrationInv'
<1>1. cli[p] # None
  BY DEF UndoError, RecoverEnd, InstallError, Runs
<1> QED
  BY <1>1, Returned DEF UndoError, RecoverEnd, InstallError, Exit, ledgerVars,
     MigrationInv, TypeOK, L!TypeOK

LEMMA ApplyNextInv ==
    ASSUME MigrationInv, NEW p \in Procs, NEW w \in Write, NEW x \in Txs,
           ApplyNext(p, w, x) \/ InstallWrite(p, w, x)
    PROVE  MigrationInv'
<1>1. TypeOK /\ cli[p] \in Command /\ cli[p] # None /\ cli[p].cmd \in {"apply", "install"}
  BY DEF ApplyNext, InstallWrite, Runs, MigrationInv, TypeOK
<1> DEFINE c == [cli[p] EXCEPT !.pc = "call", !.plan = @ \ {w}]
<1>2. c \in Command /\ c.cmd \in {"apply", "install"} /\ c.pc = "call"
      /\ c.txs = cli[p].txs
  BY <1>1 DEF Command
<1>3. cli' = [cli EXCEPT ![p] = c]
  BY DEF ApplyNext, InstallWrite
<1> HIDE DEF c
<1>4. /\ cli' \in [Procs -> Command \union {None}]
      /\ cli'[p] = c /\ \A q \in Procs \ {p} : cli'[q] = cli[q]
  BY <1>1, <1>2, <1>3, CliTypes
<1>5. /\ FT!TypeOK' /\ UNCHANGED journals
      /\ \A q \in Procs \ {p} : calls'[q] = calls[q]
      /\ calls[p] = None /\ calls'[p] # None /\ calls'[p].fn = "apply"
      /\ \/ calls'[p].pc = "err"
         \/ calls'[p].pc = "read" /\ calls'[p].tx = x /\ FT!Fresh(x)
  BY <1>1, ReadStarts DEF ApplyNext, InstallWrite, TypeOK
<1>6. /\ UNCHANGED <<ledgerVars, stops>> /\ cli[p].op \in Ops \union {None}
      /\ origin' = [origin EXCEPT ![x] = cli[p].op] \/ UNCHANGED origin
  BY <1>1 DEF ApplyNext, InstallWrite, Command
<1>7. TypeOK'
  BY <1>1, <1>4, <1>5, <1>6 DEF TypeOK, L!TypeOK, ledgerVars
<1>8. \A y \in Txs : Opening(p, y)' => y = x /\ FT!Fresh(x)
  BY <1>5 DEF Opening, Applying
<1>9. \A y \in cli'[p].txs : y \in Txs /\ Settled(y)'
  <2> SUFFICES ASSUME NEW y \in cli[p].txs PROVE y \in Txs /\ Settled(y)'
    BY <1>2, <1>4
  <2>1. y \in Txs /\ Settled(y)
    BY <1>1 DEF MigrationInv, CommandInv, Command
  <2>2. ~Opening(p, y)'
    BY <1>8, <2>1 DEF Settled, FT!Fresh
  <2> QED
    BY <1>5, <2>1, <2>2, SettledStays
<1>10. ApplyingAlone(p)'
  <2> SUFFICES ASSUME Applying(p)' PROVE ApplyingAlone(p)'
    BY DEF ApplyingAlone
  <2>1. calls'[p].pc = "read" /\ calls'[p].tx = x /\ FT!Fresh(x)
    BY <1>5 DEF Applying
  <2>2. journals[x] = None /\ ~L!HasTransaction(x)
    BY <2>1 DEF FT!Fresh, MigrationInv, RowInv, Settled
  <2>3. \A q \in Procs : Opening(q, x)' => q = p
    BY <1>5, <2>1 DEF FT!Fresh, Opening, Applying
  <2> QED
    BY <1>5, <1>6, <2>1, <2>2, <2>3
       DEF ApplyingAlone, FT!Unjournaled, FT!RestorePC, ledgerVars, L!HasTransaction
<1>11. CommandInv(p)'
  BY <1>2, <1>4, <1>5, <1>9, <1>10, NoneIsNoRecord
     DEF CommandInv, Reversing, CallOf, Runs
<1> QED
  BY <1>4, <1>5, <1>6, <1>7, <1>8, <1>11, Local DEF ledgerVars

\* The three ways to load a journal: rollback, undo and recovery.
LEMMA Loads ==
    ASSUME MigrationInv, NEW p \in Procs, NEW x \in Txs, NEW status, NEW recorded,
           FT!UndoCheck(p, x, status) \/ FT!RecoverLoad(p, x, recorded),
           UNCHANGED <<ledgerVars, origin, stops>>,
           NEW c \in Command, cli' = [cli EXCEPT ![p] = c],
           \A y \in c.txs : Settled(y),
           FT!UndoCheck(p, x, status) => Settled(x),
           IF FT!UndoCheck(p, x, status)
           THEN <<c.cmd, c.pc>> \in {<<"apply", "reverting">>, <<"install", "reverting">>,
                                     <<"undo", "call">>}
           ELSE <<c.cmd, c.pc>> = <<"recover", "call">>
    PROVE  MigrationInv'
<1>1. TypeOK
  BY DEF MigrationInv
<1>2. /\ cli' \in [Procs -> Command \union {None}]
      /\ cli'[p] = c /\ \A q \in Procs \ {p} : cli'[q] = cli[q]
  BY <1>1, CliTypes
<1>3. /\ FT!TypeOK' /\ UNCHANGED journals
      /\ \A q \in Procs \ {p} : calls'[q] = calls[q]
      /\ calls[p] = None /\ calls'[p] # None
      /\ FT!UndoCheck(p, x, status) => calls'[p].fn = "undo"
      /\ ~FT!UndoCheck(p, x, status) => calls'[p].fn = "recover"
      /\ calls'[p].pc \in {"checked", "loaded", "err"} /\ calls'[p].tx = x
      /\ journals[x] # None /\ FT!Journaled(p)'
  BY <1>1, LoadStarts DEF TypeOK
<1>4. TypeOK'
  BY <1>1, <1>2, <1>3 DEF TypeOK, L!TypeOK, ledgerVars
<1>5. \A y \in Txs : ~Opening(p, y)'
  BY <1>3 DEF Opening, Applying
<1>6. \A y \in Txs : Settled(y) => Settled(y)'
  BY <1>3, <1>5, SettledStays
<1>7. calls'[p].fn \in CallOf(p)'
  BY <1>2, <1>3, NoneIsNoRecord DEF CallOf, Runs
<1>8. Reversing(p)'
  BY <1>3, <1>6 DEF Reversing
<1>9. CommandInv(p)'
  BY <1>2, <1>3, <1>6, <1>7, <1>8 DEF CommandInv, ApplyingAlone, Applying, Command
<1> QED
  BY <1>2, <1>3, <1>4, <1>5, <1>9, Local DEF ledgerVars

LEMMA RollbackNextInv ==
    ASSUME MigrationInv, NEW p \in Procs, RollbackNext(p)
    PROVE  MigrationInv'
<1>1. cli[p] \in Command /\ cli[p] # None /\ cli[p].cmd = "apply"
  BY DEF RollbackNext, Runs, MigrationInv, TypeOK
<1>2. PICK x \in Txs : Latest(x, cli[p].txs) /\ FT!UndoCheck(p, x, "committed")
  BY DEF RollbackNext
<1> DEFINE c == [cli[p] EXCEPT !.pc = "reverting"]
<1>3. c \in Command /\ c.cmd = "apply" /\ c.pc = "reverting" /\ c.txs = cli[p].txs
  BY <1>1 DEF Command
<1>4. cli' = [cli EXCEPT ![p] = c]
  BY DEF RollbackNext, Proceed
<1> HIDE DEF c
<1>5. \A y \in c.txs : Settled(y)
  BY <1>1, <1>3 DEF MigrationInv, CommandInv
<1> QED
  BY <1>2, <1>3, <1>4, <1>5, Loads DEF RollbackNext, Latest

LEMMA UndoNextInv ==
    ASSUME MigrationInv, NEW p \in Procs, UndoNext(p)
    PROVE  MigrationInv'
<1>1. cli[p] \in Command /\ cli[p] # None /\ cli[p].cmd = "undo"
  BY DEF UndoNext, Runs, MigrationInv, TypeOK
<1>2. PICK x \in Txs :
        Latest(x, cli[p].txs) /\ FT!UndoCheck(p, x, journals[x].status)
  BY DEF UndoNext
<1> DEFINE c == [cli[p] EXCEPT !.pc = "call"]
<1>3. c \in Command /\ c.cmd = "undo" /\ c.pc = "call" /\ c.txs = cli[p].txs
  BY <1>1 DEF Command
<1>4. cli' = [cli EXCEPT ![p] = c]
  BY DEF UndoNext, Proceed
<1> HIDE DEF c
<1>5. \A y \in c.txs : Settled(y)
  BY <1>1, <1>3 DEF MigrationInv, CommandInv
<1> QED
  BY <1>2, <1>3, <1>4, <1>5, Loads DEF UndoNext, Latest

LEMMA RecoverStartInv ==
    ASSUME MigrationInv, NEW p \in Procs, NEW x \in Txs, RecoverStart(p, x)
    PROVE  MigrationInv'
<1> DEFINE c == [cmd |-> "recover", op |-> None, pc |-> "call", plan |-> {}, txs |-> {},
                 ok |-> TRUE, finish |-> TRUE]
<1>1. c \in Command /\ c.cmd = "recover" /\ c.pc = "call" /\ c.txs = {}
  BY DEF Command
<1>2. cli' = [cli EXCEPT ![p] = c]
  BY DEF RecoverStart, Begin
<1> HIDE DEF c
<1>3. FT!RecoverLoad(p, x, L!HasTransaction(x))
      /\ ~FT!UndoCheck(p, x, "prepared")
  <2>1. FT!RecoverLoad(p, x, L!HasTransaction(x))
    BY DEF RecoverStart
  <2>2. FT!TypeOK
    BY DEF MigrationInv, TypeOK
  <2>3. calls'[p].fn = "recover"
    BY <2>1, <2>2 DEF FT!RecoverLoad, FT!Loaded, FT!TypeOK
  <2>4. FT!UndoCheck(p, x, "prepared") => calls'[p].fn = "undo"
    BY <2>2 DEF FT!UndoCheck, FT!Loaded, FT!TypeOK
  <2> QED
    BY <2>1, <2>3, <2>4
<1> QED
  BY <1>1, <1>2, <1>3, Loads DEF RecoverStart

-----------------------------------------------------------------------------
(* Rows of the ledger *)

LEMMA RecordRow ==
    ASSUME MigrationInv, NEW p \in Procs, FT!Return(p), CallIs(p, "done"),
           Runs(p, "apply", "call") \/ Runs(p, "install", "call"),
           RecordCall(p), UNCHANGED origin, stops' \in Nat,
           NEW c \in Command, cli' = [cli EXCEPT ![p] = c],
           c.txs \subseteq cli[p].txs \union {calls[p].tx}
    PROVE  MigrationInv'
<1> DEFINE x == calls[p].tx
           o == cli[p].op
<1>1. TypeOK /\ FT!TypeOK' /\ calls[p] # None /\ cli[p] \in Command /\ cli[p] # None
  BY EnvironmentTypes
     DEF MigrationInv, TypeOK, FT!Return, FT!TypeOK, FT!fileVars, FT!envVars, Runs
<1>2. /\ cli' \in [Procs -> Command \union {None}]
      /\ cli'[p] = c /\ \A q \in Procs \ {p} : cli'[q] = cli[q]
  BY <1>1, CliTypes
<1>3. /\ calls'[p] = None /\ \A q \in Procs \ {p} : calls'[q] = calls[q]
      /\ UNCHANGED journals
  BY <1>1 DEF FT!Return, FT!fileVars, FT!TypeOK
<1>4. /\ x \in Txs /\ ~L!HasTransaction(x)
      /\ \A y \in Txs : y = x => Settled(y)'
      /\ FT!Journaled(p) /\ journals[x].status # "prepared"
      /\ \A q \in Procs \ {p} : ~Opening(q, x)
  BY TxSettles
<1>5. o \in Ops /\ calls[p].target \in Targets /\ calls[p].after \in PlanBytes
  BY <1>1 DEF TypeOK, FT!TypeOK, FT!Call, Command, Runs
<1>6. /\ transactions' = [transactions EXCEPT ![x] = "committed"]
      /\ changes' = [changes EXCEPT ![x] =
                [op |-> o, target |-> calls[p].target, before |-> managed[calls[p].target],
                 after |-> [owner |-> o, hash |-> calls[p].after]]]
  BY DEF RecordCall, L!RecordTransactionWithManagedObject, L!SetStatus
<1>7. L!TypeOK'
  <2>1. \A y \in Txs : L!HasTransaction(y) => changes[y] # None
    BY DEF MigrationInv, RowInv
  <2>2. "failed" \in L!OperationStatus
    BY DEF L!OperationStatus
  <2> QED
    BY <1>1, <1>4, <1>5, <2>1, <2>2, LedgerTypes DEF RecordCall, TypeOK
<1>8. TypeOK'
  BY <1>1, <1>2, <1>7 DEF TypeOK
<1>9. /\ transactions'[x] = "committed" /\ changes'[x].target = calls[p].target
      /\ changes'[x].after.hash = calls[p].after /\ changes'[x] # None
      /\ \A y \in Txs \ {x} : transactions'[y] = transactions[y] /\ changes'[y] = changes[y]
  <2>1. [op |-> o, target |-> calls[p].target, before |-> managed[calls[p].target],
         after |-> [owner |-> o, hash |-> calls[p].after]] \in L!Change
    BY <1>1, <1>5 DEF L!Change, L!Owner, TypeOK, L!TypeOK
  <2> QED
    BY <1>1, <1>4, <1>6, <2>1, NoneIsNoRecord DEF TypeOK, L!TypeOK
<1>10. transactions'[x] # None
  BY <1>9, NoneIsNoRecord DEF L!TransactionStatus
<1>11. cli'[p] # None => \A y \in cli'[p].txs : Settled(y)'
  BY <1>1, <1>2, <1>4, TxsStay
<1>12. /\ journals[x] # None /\ journals[x].target = changes'[x].target
       /\ journals[x].after = changes'[x].after.hash
  BY <1>4, <1>9 DEF FT!Journaled
<1> HIDE DEF x, o
<1> QED
  BY <1>2, <1>3, <1>4, <1>8, <1>9, <1>10, <1>11, <1>12, Rows

LEMMA RecordInv ==
    ASSUME MigrationInv, NEW p \in Procs, Record(p) \/ RecordError(p)
    PROVE  MigrationInv'
<1>1. TypeOK /\ cli[p] \in Command /\ cli[p] # None /\ cli[p].cmd = "apply"
      /\ FT!Return(p) /\ Runs(p, "apply", "call") /\ CallIs(p, "done")
      /\ UNCHANGED origin /\ stops' \in Nat
  BY DEF Record, RecordError, Runs, MigrationInv, TypeOK, LedgerFails
<1>2. calls[p].tx \in Txs /\ \A x \in Txs : x = calls[p].tx => Settled(x)'
  BY <1>1, TxSettles
<1>3. PICK pc \in {"next", "rollback"} :
        /\ cli' = [cli EXCEPT ![p].pc = pc, ![p].txs = @ \union {calls[p].tx}]
        /\ RecordCall(p) \/ UNCHANGED ledgerVars
  BY DEF Record, RecordError
<1> DEFINE c == [cli[p] EXCEPT !.pc = pc, !.txs = @ \union {calls[p].tx}]
<1>4. c \in Command /\ c.txs = cli[p].txs \union {calls[p].tx}
  BY <1>1, <1>2 DEF Command
<1>5. cli' = [cli EXCEPT ![p] = c]
  BY <1>3
<1> HIDE DEF c
<1>6. CASE RecordCall(p)
  BY <1>1, <1>4, <1>5, <1>6, RecordRow
<1>7. CASE UNCHANGED ledgerVars
  <2>1. \A x \in c.txs : Settled(x)'
    BY <1>1, <1>2, <1>4, TxsStay
  <2>2. L!TypeOK' /\ UNCHANGED <<transactions, changes>>
    BY <1>1, <1>7 DEF ledgerVars, TypeOK, L!TypeOK
  <2> QED
    BY <1>1, <1>4, <1>5, <2>1, <2>2, Returned
<1> QED
  BY <1>3, <1>6, <1>7

\* The row of a reversed transaction is rolled back.
LEMMA RollbackRow ==
    ASSUME MigrationInv, NEW p \in Procs, FT!Return(p), CallIs(p, "done"),
           Runs(p, "apply", "reverting") \/ Runs(p, "undo", "call"),
           L!RollbackTransactionAndManagedObject(calls[p].tx),
           UNCHANGED origin, stops' \in Nat,
           NEW c \in Command \union {None}, cli' = [cli EXCEPT ![p] = c],
           c # None => c.txs \subseteq cli[p].txs
    PROVE  MigrationInv'
<1> DEFINE x == calls[p].tx
<1>1. TypeOK /\ FT!TypeOK' /\ calls[p] # None /\ cli[p] \in Command /\ cli[p] # None
  BY EnvironmentTypes
     DEF MigrationInv, TypeOK, FT!Return, FT!TypeOK, FT!fileVars, FT!envVars, Runs
<1>2. /\ cli' \in [Procs -> Command \union {None}]
      /\ cli'[p] = c /\ \A q \in Procs \ {p} : cli'[q] = cli[q]
  BY <1>1, CliTypes
<1>3. /\ calls'[p] = None /\ \A q \in Procs \ {p} : calls'[q] = calls[q]
      /\ UNCHANGED journals
  BY <1>1 DEF FT!Return, FT!fileVars, FT!TypeOK
<1>4. calls[p].fn = "undo" /\ calls[p].pc = "done"
  BY <1>1 DEF MigrationInv, CommandInv, CallOf, Runs, CallIs
<1>5. x \in Txs /\ Settled(x) /\ JournalIs(x, "rolled-back")
  BY <1>1, <1>4 DEF MigrationInv, CommandInv, Reversing, FT!Journaled
<1>6. L!HasTransaction(x) /\ RowInv(x) /\ UNCHANGED changes
      /\ transactions' = [transactions EXCEPT ![x] = "rolled-back"]
  BY <1>5 DEF MigrationInv, L!RollbackTransactionAndManagedObject, L!SetStatus
<1>7. L!TypeOK'
  <2>1. \A y \in Txs : L!HasTransaction(y) => changes[y] # None
    BY DEF MigrationInv, RowInv
  <2>2. changes[x] \in L!Change /\ changes[x] # None
    BY <1>1, <1>5, <1>6, <2>1 DEF TypeOK, L!TypeOK
  <2>3. changes[x].target \in Targets /\ changes[x].op \in Ops
        /\ changes[x].after.hash \in PlanBytes
    BY <2>2 DEF L!Change, L!Owner
  <2>4. "failed" \in L!OperationStatus
    BY DEF L!OperationStatus
  <2> QED
    BY <1>1, <1>5, <2>1, <2>3, <2>4, LedgerTypes DEF TypeOK
<1>8. TypeOK'
  BY <1>1, <1>2, <1>7 DEF TypeOK
<1>9. /\ transactions'[x] = "rolled-back" /\ transactions'[x] # None
      /\ \A y \in Txs \ {x} : transactions'[y] = transactions[y] /\ changes'[y] = changes[y]
  BY <1>1, <1>5, <1>6, NoneIsNoRecord DEF TypeOK, L!TypeOK, L!TransactionStatus
<1>10. cli'[p] # None => \A y \in cli'[p].txs : Settled(y)'
  BY <1>1, <1>2, TxsStay
<1>11. /\ journals[x] # None /\ journals[x].status # "prepared"
       /\ journals[x].target = changes'[x].target
       /\ journals[x].after = changes'[x].after.hash
       /\ changes'[x] # None /\ \A q \in Procs \ {p} : ~Opening(q, x)
  BY <1>5, <1>6 DEF RowInv, Settled
<1> HIDE DEF x
<1> QED
  BY <1>2, <1>3, <1>5, <1>8, <1>9, <1>10, <1>11, Rows

LEMMA RollbackDoneInv ==
    ASSUME MigrationInv, NEW p \in Procs, RollbackDone(p)
    PROVE  MigrationInv'
<1>1. TypeOK /\ cli[p] \in Command /\ cli[p] # None
      /\ FT!Return(p) /\ Runs(p, "apply", "reverting") /\ CallIs(p, "done")
      /\ UNCHANGED origin /\ stops' \in Nat
  BY DEF RollbackDone, Reverted, Runs, MigrationInv, TypeOK, LedgerFails
<1>2. PICK ok \in BOOLEAN :
        /\ Reverted(p, ok)
        /\ L!RollbackTransactionAndManagedObject(calls[p].tx) \/ UNCHANGED ledgerVars
  BY DEF RollbackDone
<1> DEFINE c == [cli[p] EXCEPT !.pc = "rollback", !.txs = @ \ {calls[p].tx},
                               !.ok = @ /\ ok]
<1>3. c \in Command /\ c.txs \subseteq cli[p].txs
  BY <1>1 DEF Command
<1>4. cli' = [cli EXCEPT ![p] = c]
  BY <1>2 DEF Reverted
<1> HIDE DEF c
<1>5. CASE L!RollbackTransactionAndManagedObject(calls[p].tx)
  BY <1>1, <1>3, <1>4, <1>5, RollbackRow
<1>6. CASE UNCHANGED ledgerVars
  <2>1. L!TypeOK' /\ UNCHANGED <<transactions, changes>>
    BY <1>1, <1>6 DEF ledgerVars, TypeOK, L!TypeOK
  <2> QED
    BY <1>1, <1>3, <1>4, <2>1, Returned, TxsStay
<1> QED
  BY <1>2, <1>5, <1>6

LEMMA UndoLedgerInv ==
    ASSUME MigrationInv, NEW p \in Procs, UndoLedger(p)
    PROVE  MigrationInv'
<1>1. TypeOK /\ cli[p] \in Command /\ cli[p] # None
      /\ FT!Return(p) /\ Runs(p, "undo", "call") /\ CallIs(p, "done")
      /\ UNCHANGED origin /\ stops' \in Nat
  BY DEF UndoLedger, Runs, MigrationInv, TypeOK, LedgerFails
<1> DEFINE c == [cli[p] EXCEPT !.pc = "next", !.txs = @ \ {calls[p].tx}]
<1>2. c \in Command /\ c.txs \subseteq cli[p].txs
  BY <1>1 DEF Command
<1>3. \/ /\ L!RollbackTransactionAndManagedObject(calls[p].tx)
         /\ cli' = [cli EXCEPT ![p] = c]
      \/ UNCHANGED ledgerVars /\ cli' = [cli EXCEPT ![p] = None]
  BY DEF UndoLedger, Exit
<1> HIDE DEF c
<1>4. CASE /\ L!RollbackTransactionAndManagedObject(calls[p].tx)
           /\ cli' = [cli EXCEPT ![p] = c]
  BY <1>1, <1>2, <1>4, RollbackRow
<1>5. CASE UNCHANGED ledgerVars /\ cli' = [cli EXCEPT ![p] = None]
  <2>1. L!TypeOK' /\ UNCHANGED <<transactions, changes>>
    BY <1>1, <1>5 DEF ledgerVars, TypeOK, L!TypeOK
  <2> QED
    BY <1>1, <1>5, <2>1, Returned
<1> QED
  BY <1>3, <1>4, <1>5

-----------------------------------------------------------------------------
(* The remaining steps of the commands *)

LEMMA EndInv ==
    ASSUME MigrationInv, NEW p \in Procs,
           ApplyEnd(p) \/ RollbackEnd(p) \/ UndoEnd(p) \/ InstallEnd(p)
    PROVE  MigrationInv'
<1>1. TypeOK /\ cli[p] \in Command /\ cli[p] # None /\ cli[p].op \in Ops
  BY DEF ApplyEnd, RollbackEnd, UndoEnd, InstallEnd, Runs, MigrationInv, TypeOK, Command
<1>2. calls[p] = None
  BY FreeIsIdle DEF ApplyEnd, RollbackEnd, UndoEnd, InstallEnd, CallOf, Runs
<1>3. PICK status \in L!OperationStatus :
        L!FinishOperation(cli[p].op, status) \/ UNCHANGED ledgerVars
  BY DEF ApplyEnd, RollbackEnd, UndoEnd, InstallEnd, Outcome, L!OperationStatus
<1>4. L!TypeOK' /\ UNCHANGED <<transactions, changes>>
  BY <1>1, <1>3, OperationsOnly
<1>5. /\ cli' = [cli EXCEPT ![p] = None]
      /\ UNCHANGED <<storeVars, origin>> /\ stops' \in Nat
  BY <1>1 DEF ApplyEnd, RollbackEnd, UndoEnd, InstallEnd, Exit, LedgerFails, TypeOK
<1>6. TypeOK' /\ cli'[p] = None /\ \A q \in Procs \ {p} : cli'[q] = cli[q]
  BY <1>1, <1>4, <1>5 DEF TypeOK, FT!TypeOK, storeVars
<1> QED
  BY <1>2, <1>4, <1>5, <1>6, Plain DEF storeVars

LEMMA ApplyEndErrorInv ==
    ASSUME MigrationInv, NEW p \in Procs, ApplyEndError(p)
    PROVE  MigrationInv'
<1>1. TypeOK /\ cli[p] \in Command /\ cli[p] # None
  BY DEF ApplyEndError, Runs, MigrationInv, TypeOK
<1>2. calls[p] = None
  BY FreeIsIdle DEF ApplyEndError, CallOf, Runs
<1> DEFINE c == [cli[p] EXCEPT !.pc = "rollback", !.finish = FALSE]
<1>3. c \in Command /\ c.txs = cli[p].txs
  BY <1>1 DEF Command
<1>4. cli' = [cli EXCEPT ![p] = c]
  BY DEF ApplyEndError
<1> HIDE DEF c
<1>5. /\ cli' \in [Procs -> Command \union {None}]
      /\ cli'[p] = c /\ \A q \in Procs \ {p} : cli'[q] = cli[q]
  BY <1>1, <1>3, <1>4, CliTypes
<1>6. UNCHANGED <<storeVars, ledgerVars, origin>> /\ stops' \in Nat
  BY <1>1 DEF ApplyEndError, LedgerFails, TypeOK
<1>7. TypeOK'
  BY <1>1, <1>5, <1>6 DEF TypeOK, FT!TypeOK, L!TypeOK, storeVars, ledgerVars
<1>8. \A x \in cli[p].txs : Settled(x)
  BY <1>1 DEF MigrationInv, CommandInv
<1> QED
  BY <1>2, <1>3, <1>5, <1>6, <1>7, <1>8, Plain DEF storeVars, ledgerVars

LEMMA UndoStartInv ==
    ASSUME MigrationInv, NEW p \in Procs, NEW o \in Ops, UndoStart(p, o)
    PROVE  MigrationInv'
<1>1. TypeOK /\ calls[p] = None
  BY FreeIsIdle DEF MigrationInv, UndoStart, CallOf, Runs, Free
<1> DEFINE c == [cmd |-> "undo", op |-> o, pc |-> "next", plan |-> {},
                 txs |-> L!TransactionsOf(o), ok |-> TRUE, finish |-> TRUE]
<1>2. c \in Command /\ c.txs = L!TransactionsOf(o)
  BY NoneIsNoRecord DEF Command, L!TransactionsOf
<1>3. cli' = [cli EXCEPT ![p] = c]
  BY DEF UndoStart, Begin
<1> HIDE DEF c
<1>4. /\ cli' \in [Procs -> Command \union {None}]
      /\ cli'[p] = c /\ \A q \in Procs \ {p} : cli'[q] = cli[q]
  BY <1>1, <1>2, <1>3, CliTypes
<1>5. UNCHANGED <<storeVars, ledgerVars, origin, stops>>
  BY DEF UndoStart
<1>6. TypeOK'
  BY <1>1, <1>4, <1>5 DEF TypeOK, FT!TypeOK, L!TypeOK, storeVars, ledgerVars
<1>7. \A x \in L!TransactionsOf(o) : Settled(x)
  BY DEF MigrationInv, RowInv, L!TransactionsOf
<1> QED
  BY <1>1, <1>2, <1>4, <1>5, <1>6, <1>7, Plain DEF storeVars, ledgerVars

LEMMA CrashInv ==
    ASSUME MigrationInv, NEW p \in Procs, Crash(p)
    PROVE  MigrationInv'
<1>1. TypeOK /\ cli' = [cli EXCEPT ![p] = None] /\ UNCHANGED <<ledgerVars, origin>>
      /\ stops' \in Nat
  BY DEF Crash, Exit, MigrationInv, TypeOK
<1>2. cli' \in [Procs -> Command \union {None}] /\ cli'[p] = None
      /\ \A q \in Procs \ {p} : cli'[q] = cli[q]
  BY <1>1 DEF TypeOK
<1>3. FT!TypeOK' /\ calls'[p] = None /\ UNCHANGED journals
      /\ \A q \in Procs \ {p} : calls'[q] = calls[q]
  BY <1>1 DEF Crash, FT!Crash, FT!Idle, FT!fileVars, storeVars, TypeOK, FT!TypeOK
<1>4. TypeOK'
  BY <1>1, <1>2, <1>3 DEF TypeOK, L!TypeOK, ledgerVars
<1>5. CommandInv(p)' /\ \A x \in Txs : ~Opening(p, x)'
  BY <1>2, <1>3, IdleCommand
<1> QED
  BY <1>1, <1>2, <1>3, <1>4, <1>5, Local DEF ledgerVars

-----------------------------------------------------------------------------
(* Steps inside a store call *)

\* A step that writes no journal.
LEMMA Moves ==
    ASSUME MigrationInv, NEW p \in Procs, calls[p] # None, InStore, UNCHANGED journals,
           FT!TypeOK',
           NEW pc \in FT!ApplyPC \union FT!RestorePC \union FT!ResultPC, FT!Goto(p, pc),
           \/ pc = "err"
           \/ calls[p].fn = "apply" /\ calls[p].pc = "read" /\ pc = "backed"
           \/ calls[p].fn = "apply" /\ calls[p].pc = "prepared" /\ pc = "persisted"
           \/ calls[p].fn # "apply" /\ calls[p].pc # "err" /\ pc # "done"
    PROVE  MigrationInv'
<1>1. TypeOK /\ CommandInv(p) /\ TypeOK'
  BY DEF MigrationInv, TypeOK, L!TypeOK, InStore, ledgerVars
<1>2. /\ calls'[p] # None /\ calls'[p].pc = pc
      /\ calls'[p].fn = calls[p].fn /\ calls'[p].tx = calls[p].tx
      /\ calls'[p].target = calls[p].target
      /\ calls'[p].before = calls[p].before
      /\ calls'[p].after = calls[p].after
      /\ \A q \in Procs \ {p} : calls'[q] = calls[q]
  BY <1>1, GotoCall DEF TypeOK
<1>3. Applying(p)' => Applying(p)
  BY <1>2 DEF Applying
<1>4. \A x \in Txs : Opening(p, x)' => Opening(p, x)
  BY <1>2, <1>3 DEF Opening
<1>5. \A x \in Txs : Settled(x) => Settled(x)'
  BY <1>2, <1>4 DEF Settled, Opening, Applying
<1>6. FT!Journaled(p) => FT!Journaled(p)'
  BY <1>2 DEF FT!Journaled
<1>7. ApplyingAlone(p)'
  <2> SUFFICES ASSUME Applying(p)' PROVE ApplyingAlone(p)'
    BY DEF ApplyingAlone
  <2>1. calls[p].tx \in Txs /\ \A q \in Procs : Opening(q, calls[p].tx)' => q = p
    BY <1>1, <1>2, <1>3 DEF CommandInv, ApplyingAlone, Opening, Applying
  <2>2. CASE pc = "backed"
    BY <1>1, <1>2, <1>3, <2>1, <2>2 DEF CommandInv, ApplyingAlone, Applying, InStore,
       ledgerVars, L!HasTransaction, FT!Unjournaled, FT!RestorePC
  <2>3. CASE pc = "persisted"
    BY <1>1, <1>2, <1>3, <1>6, <2>1, <2>3 DEF CommandInv, ApplyingAlone, Applying, InStore,
       ledgerVars, L!HasTransaction, FT!Unjournaled, FT!RestorePC
  <2> QED
    BY <1>2, <2>2, <2>3 DEF Applying
<1>8. Reversing(p)'
  BY <1>1, <1>2, <1>5, <1>6 DEF CommandInv, Reversing, FT!Journaled
<1>9. CommandInv(p)'
  BY <1>1, <1>2, <1>5, <1>7, <1>8
     DEF CommandInv, CallOf, Runs, InStore, TypeOK, Command
<1> QED
  BY <1>1, <1>2, <1>4, <1>9, Local DEF InStore, ledgerVars

LEMMA MoveSteps ==
    ASSUME MigrationInv, NEW p \in Procs, InStore,
           \/ FT!ApplyBackup(p) \/ FT!ApplyPersist(p) \/ FT!RecoverClassify(p)
           \/ FT!RestoreBefore(p) \/ FT!IoError(p) \/ FT!TargetUnseen(p)
    PROVE  MigrationInv'
<1> USE DEF FT!ApplyPC, FT!RestorePC, FT!ResultPC, FT!fileVars, FT!envVars, FT!At
<1>1. FT!TypeOK' /\ CommandInv(p)
  BY StepTypes DEF FT!Step, MigrationInv, TypeOK
<1>2. CASE FT!ApplyBackup(p)
  BY <1>1, <1>2, Moves DEF FT!ApplyBackup
<1>3. CASE FT!ApplyPersist(p)
  BY <1>1, <1>3, Moves DEF FT!ApplyPersist
<1>4. CASE FT!RecoverClassify(p)
  <2>1. FT!Disposition(p) \in {"restored", "checked", "err"}
    BY DEF FT!Disposition
  <2> QED
    BY <1>1, <1>4, <2>1, Moves DEF FT!RecoverClassify
<1>5. CASE FT!RestoreBefore(p)
  <2>1. calls[p].fn # "apply"
    BY <1>1, <1>5 DEF FT!RestoreBefore, CommandInv, ApplyingAlone, Applying
  <2>2. PICK pc \in {"restored", "err"} : FT!Goto(p, pc)
    BY <1>5 DEF FT!RestoreBefore
  <2> QED
    BY <1>1, <1>5, <2>1, <2>2, Moves DEF FT!RestoreBefore
<1>6. CASE FT!IoError(p)
  BY <1>1, <1>6, Moves DEF FT!IoError
<1>7. CASE FT!TargetUnseen(p)
  <2>1. calls[p].fn # "apply"
    BY <1>1, <1>7 DEF FT!TargetUnseen, CommandInv, ApplyingAlone, Applying
  <2> QED
    BY <1>1, <1>7, <2>1, Moves DEF FT!TargetUnseen
<1> QED
  BY <1>2, <1>3, <1>4, <1>5, <1>6, <1>7

LEMMA WriteSteps ==
    ASSUME MigrationInv, NEW p \in Procs, InStore,
           FT!ApplyPrepare(p) \/ FT!ApplyCommit(p) \/ FT!SaveRolledBack(p)
    PROVE  MigrationInv'
<1> USE DEF FT!ApplyPC, FT!RestorePC, FT!ResultPC
<1>1. TypeOK /\ CommandInv(p) /\ TypeOK' /\ calls[p] # None
  BY StepTypes DEF FT!Step, MigrationInv, TypeOK, L!TypeOK, InStore, ledgerVars,
     FT!ApplyPrepare, FT!ApplyCommit, FT!SaveRolledBack, FT!At
<1>2. PICK status \in {"prepared", "committed", "rolled-back"}, pc \in {"prepared", "done"} :
        /\ journals' = [journals EXCEPT ![calls[p].tx] = FT!JournalOf(p, status)]
        /\ FT!Goto(p, pc) /\ (pc = "prepared" <=> status = "prepared")
        /\ status = "prepared" => calls[p].fn = "apply" /\ calls[p].pc = "backed"
        /\ status = "committed" => calls[p].fn = "apply" /\ calls[p].pc = "persisted"
        /\ status = "rolled-back" => calls[p].pc \in {"restored", "unseen"}
  <2>1. CASE FT!ApplyPrepare(p)
    BY <2>1 DEF FT!ApplyPrepare, FT!At
  <2>2. CASE FT!ApplyCommit(p)
    BY <2>2 DEF FT!ApplyCommit, FT!At
  <2>3. CASE FT!SaveRolledBack(p)
    BY <2>3 DEF FT!SaveRolledBack
  <2> QED
    BY <2>1, <2>2, <2>3
<1>3. /\ calls'[p] # None /\ calls'[p].pc = pc
      /\ calls'[p].fn = calls[p].fn /\ calls'[p].tx = calls[p].tx
      /\ calls'[p].target = calls[p].target
      /\ calls'[p].before = calls[p].before
      /\ calls'[p].after = calls[p].after
      /\ \A q \in Procs \ {p} : calls'[q] = calls[q]
  BY <1>1, <1>2, GotoCall DEF TypeOK
<1> DEFINE x == calls[p].tx
<1>4. /\ x \in Txs
      /\ status # "rolled-back" => Applying(p)
      /\ status = "rolled-back" => ~Applying(p) /\ calls[p].fn # "apply" /\ FT!Journaled(p)
      /\ status = "prepared" => journals[x] = None
      /\ journals[x] # None => FT!Journaled(p)
  <2>1. CASE status = "rolled-back"
    BY <1>1, <1>2, <2>1 DEF CommandInv, ApplyingAlone, Applying, Reversing, FT!Journaled
  <2>2. CASE status # "rolled-back"
    BY <1>1, <1>2, <2>2 DEF CommandInv, ApplyingAlone, Applying, FT!Unjournaled
  <2> QED
    BY <2>1, <2>2
<1>5. /\ journals'[x] # None /\ journals'[x].status = status
      /\ journals'[x].target = calls[p].target
      /\ journals'[x].before = calls[p].before
      /\ journals'[x].after = calls[p].after
      /\ \A y \in Txs \ {x} : journals'[y] = journals[y]
  <2>1. FT!JournalOf(p, status) \in FT!Journal
    BY <1>1 DEF TypeOK, FT!TypeOK, FT!JournalOf, FT!Journal, FT!Call
  <2> QED
    BY <1>1, <1>2, <1>4, <2>1, NoneIsNoRecord DEF TypeOK, FT!TypeOK, FT!JournalOf
<1>6. Applying(p)' <=> Applying(p)
  BY <1>1, <1>2, <1>3, <1>4 DEF Applying
<1>7. \A y \in Txs, q \in Procs : Opening(q, y)' <=> Opening(q, y)
  BY <1>3, <1>6 DEF Opening, Applying
<1>8. \A y \in Txs : Settled(y) => Settled(y)'
  BY <1>5, <1>7 DEF Settled
<1>9. FT!Journaled(p)'
  BY <1>3, <1>4, <1>5 DEF FT!Journaled
<1>10. ApplyingAlone(p)'
  <2> SUFFICES ASSUME Applying(p) PROVE ApplyingAlone(p)'
    BY <1>6 DEF ApplyingAlone
  <2>1. /\ ~L!HasTransaction(x)' /\ status # "rolled-back"
        /\ \A q \in Procs : Opening(q, x) => q = p
    BY <1>1, <1>3, <1>4 DEF CommandInv, ApplyingAlone, InStore, ledgerVars, L!HasTransaction
  <2> QED
    BY <1>2, <1>3, <1>4, <1>5, <1>7, <1>9, <2>1
       DEF ApplyingAlone, FT!Unjournaled, L!HasTransaction
<1>11. Reversing(p)'
  <2> SUFFICES ASSUME calls[p].fn # "apply" PROVE Reversing(p)'
    BY <1>3 DEF Reversing
  <2>1. status = "rolled-back" /\ calls[p].pc \in {"restored", "unseen"}
    BY <1>2
  <2>2. calls[p].fn = "undo" => Settled(x)
    BY <1>1, <2>1 DEF CommandInv, Reversing
  <2>3. calls[p].fn = "undo" => Settled(calls[p].tx)'
    BY <1>3, <1>4, <1>8, <2>2
  <2> QED
    BY <1>3, <1>5, <1>9, <2>1, <2>3 DEF Reversing, JournalIs
<1>12. CommandInv(p)'
  BY <1>1, <1>3, <1>8, <1>10, <1>11
     DEF CommandInv, CallOf, Runs, InStore, TypeOK, Command
<1>13. UNCHANGED <<transactions, changes, cli>>
  BY DEF InStore, ledgerVars
<1>14. status # "rolled-back" => Opening(p, x)
  BY <1>4 DEF Opening
<1>15. ~Opening(p, x) => journals[x] # None
  BY <1>4 DEF Opening, FT!Journaled
<1> QED
  BY <1>1, <1>2, <1>3, <1>4, <1>7, <1>12, <1>13, <1>14, <1>15, Writes

-----------------------------------------------------------------------------
(* The specification *)

\* Edits and damaged backups touch nothing the invariant speaks of.
LEMMA EnvironmentInv ==
    ASSUME MigrationInv, InStore, UNCHANGED <<calls, journals>>, FT!TypeOK'
    PROVE  MigrationInv'
BY DEF MigrationInv, InStore, ledgerVars, TypeOK, L!TypeOK, CommandInv, CallOf, Runs,
   ApplyingAlone, Applying, Opening, Reversing, Settled, JournalIs, RowInv,
   L!HasTransaction, FT!Journaled

LEMMA StutterInv ==
    ASSUME MigrationInv, UNCHANGED vars
    PROVE  MigrationInv'
BY DEF MigrationInv, vars, storeVars, ledgerVars, TypeOK, FT!TypeOK, L!TypeOK, CommandInv,
   CallOf, Runs, ApplyingAlone, Applying, Opening, Reversing, Settled, JournalIs, RowInv,
   L!HasTransaction, FT!Journaled

LEMMA MigrationInvInit == Init => MigrationInv
<1> SUFFICES ASSUME Init PROVE MigrationInv
  OBVIOUS
<1>1. TypeOK
  BY DEF Init, FT!Init, L!Init, TypeOK, FT!TypeOK, L!TypeOK, FT!FileState, FT!Contents
<1>2. \A p \in Procs : CommandInv(p)
  BY DEF Init, FT!Init, CommandInv, ApplyingAlone, Applying, Reversing
<1>3. \A x \in Txs : RowInv(x)
  BY DEF Init, L!Init, RowInv, L!HasTransaction
<1> QED
  BY <1>1, <1>2, <1>3 DEF MigrationInv

LEMMA MigrationInvNext == MigrationInv /\ [Next]_vars => MigrationInv'
<1> SUFFICES ASSUME MigrationInv, [Next]_vars PROVE MigrationInv'
  OBVIOUS
<1>1. ASSUME NEW p \in Procs, Apply(p) PROVE MigrationInv'
  <2>1. CASE \E o \in Ops, S \in SUBSET Targets : \E rendered \in [S -> PlanBytes] :
                S # {} /\ ApplyStart(p, o, rendered)
    BY <2>1, ApplyStartInv
  <2>2. CASE \E x \in Txs : ~Free(p) /\ \E w \in cli[p].plan : ApplyNext(p, w, x)
    <3>1. PICK x \in Txs : ~Free(p) /\ \E w \in cli[p].plan : ApplyNext(p, w, x)
      BY <2>2
    <3>2. cli[p].plan \subseteq Write
      BY <3>1 DEF Free, MigrationInv, TypeOK, Command
    <3> QED
      BY <3>1, <3>2, ApplyNextInv
  <2> QED
    BY <1>1, <2>1, <2>2, RecordInv, ApplyErrorInv, EndInv, ApplyEndErrorInv,
       RollbackNextInv, RollbackDoneInv, RollbackErrorInv DEF Apply
<1>2. ASSUME NEW p \in Procs, Undo(p) PROVE MigrationInv'
  BY <1>2, UndoStartInv, UndoNextInv, UndoLedgerInv, ExitInv, EndInv DEF Undo
<1>3. ASSUME NEW p \in Procs, Recover(p) \/ Crash(p) PROVE MigrationInv'
  BY <1>3, RecoverStartInv, ExitInv, CrashInv DEF Recover
<1>4. ASSUME InStore, NEW p \in Procs,
             FT!Step(p) \/ FT!IoError(p) \/ FT!TargetUnseen(p)
      PROVE  MigrationInv'
  BY <1>4, MoveSteps, WriteSteps DEF FT!Step
<1>5. ASSUME InStore, NEW t \in Targets, NEW c \in FT!FileState, FT!Edit(t, c)
      PROVE  MigrationInv'
  BY <1>5, EnvironmentInv DEF FT!Edit, FT!TypeOK, MigrationInv, TypeOK
<1>6. ASSUME InStore, NEW x \in Txs, FT!DamageBackup(x) PROVE MigrationInv'
  BY <1>6, EnvironmentInv DEF FT!DamageBackup, FT!TypeOK, MigrationInv, TypeOK
<1> QED
  BY <1>1, <1>2, <1>3, <1>4, <1>5, <1>6, StutterInv DEF Next

\* Every command of any number of processes keeps its records well-typed.
THEOREM MigrationTypes == Spec => []TypeOK
<1>1. MigrationInv => TypeOK
  BY DEF MigrationInv
<1> QED
  BY <1>1, MigrationInvInit, MigrationInvNext, PTL DEF Spec

\* The strengthened invariant.
THEOREM MigrationSafety == Spec => []MigrationInv
  BY MigrationInvInit, MigrationInvNext, PTL DEF Spec

\* The ledger never runs ahead of the journals, with any number of processes
\* and without a lock.
THEOREM LedgerFollowsJournals == Spec => []RowsFollowJournals
<1>1. MigrationInv => RowsFollowJournals
  BY DEF MigrationInv, RowInv, RowsFollowJournals, Settled
<1> QED
  BY <1>1, MigrationInvInit, MigrationInvNext, PTL DEF Spec
-----------------------------------------------------------------------------
(* One command at a time: what the statuses promise *)

OneAtATime == \A p, q \in Procs : p = q

\* A row belongs to the operation that opened the transaction.
RowsOfTheirOperation ==
    \A x \in Txs : L!HasTransaction(x) => origin[x] = changes[x].op

\* Whoever opened a transaction had begun.
OriginsBegan == \A x \in Txs : origin[x] # None => operations[origin[x]] # None

\* A transaction that stands is in the ledger and not rolled back there, so
\* those of a rolled-back operation are just not live.
StatusesAreTrue ==
    \A o \in Ops : \A x \in Opened(o) :
        /\ operations[o] = "succeeded" => L!HasTransaction(x)
        /\ operations[o] = "rolled-back" => ~L!Live(x)

\* What apply has opened and not recorded is the transaction of its call.
Recorded(p) ==
    /\ Runs(p, "apply", "next") => \A x \in Opened(cli[p].op) : L!HasTransaction(x)
    /\ Runs(p, "apply", "call") =>
        /\ calls[p] # None
        /\ calls[p].tx \in Txs => origin[calls[p].tx] = cli[p].op
        /\ \A x \in Opened(cli[p].op) : L!HasTransaction(x) \/ x = calls[p].tx

\* What still stands of an operation is what the command has yet to reverse,
\* unless it knows of a reversal that failed.
StillToReverse(p) ==
    cli[p] # None /\ cli[p].cmd \in {"apply", "undo"} /\ cli[p].ok =>
        \A x \in Opened(cli[p].op) : L!Live(x) => x \in cli[p].txs

CommandTells(p) ==
    /\ cli[p] # None => cli[p].cmd \in {"apply", "undo", "recover"}
    /\ cli[p] # None /\ cli[p].cmd = "apply" => operations[cli[p].op] = "running"
    /\ cli[p] # None /\ cli[p].cmd = "undo" => cli[p].ok
    /\ Recorded(p) /\ StillToReverse(p)

OutcomeInv ==
    /\ RowsOfTheirOperation /\ OriginsBegan /\ StatusesAreTrue
    /\ \A p \in Procs : CommandTells(p)

LEMMA OnlyCommand ==
    ASSUME OneAtATime, NEW p \in Procs,
           RowsOfTheirOperation', OriginsBegan', StatusesAreTrue', CommandTells(p)'
    PROVE  OutcomeInv'
BY DEF OneAtATime, OutcomeInv

LEMMA NoCommand ==
    ASSUME NEW p \in Procs, cli'[p] = None
    PROVE  CommandTells(p)'
BY DEF CommandTells, Recorded, StillToReverse, Runs

\* Neither the rows nor what was opened change.
LEMMA FactsStay ==
    ASSUME OutcomeInv, UNCHANGED <<ledgerVars, origin>>,
           \A x \in Txs : journals'[x] = None <=> journals[x] = None
    PROVE  /\ RowsOfTheirOperation' /\ OriginsBegan' /\ StatusesAreTrue'
           /\ \A o : Opened(o)' = Opened(o)
           /\ \A x : L!HasTransaction(x)' = L!HasTransaction(x) /\ L!Live(x)' = L!Live(x)
<1>1. \A o : Opened(o)' = Opened(o)
  BY DEF Opened
<1>2. \A x : L!HasTransaction(x)' = L!HasTransaction(x) /\ L!Live(x)' = L!Live(x)
  BY DEF ledgerVars, L!HasTransaction, L!Live
<1> QED
  BY <1>1, <1>2 DEF OutcomeInv, RowsOfTheirOperation, OriginsBegan, StatusesAreTrue, ledgerVars

LEMMA LeavesQuietly ==
    ASSUME OutcomeInv, OneAtATime, NEW p \in Procs, cli'[p] = None,
           UNCHANGED <<ledgerVars, origin>>,
           \A x \in Txs : journals'[x] = None <=> journals[x] = None
    PROVE  OutcomeInv'
BY FactsStay, NoCommand, OnlyCommand

\* The command goes on, and only forgets what does not stand.
LEMMA GoesOnQuietly ==
    ASSUME OutcomeInv, OneAtATime, NEW p \in Procs, cli[p] # None, cli'[p] # None,
           UNCHANGED <<ledgerVars, origin>>,
           \A x \in Txs : journals'[x] = None <=> journals[x] = None,
           cli'[p].cmd = cli[p].cmd, cli'[p].op = cli[p].op,
           cli[p].cmd = "undo" /\ cli[p].ok => cli'[p].ok,
           cli'[p].ok =>
                cli[p].ok /\ \A x \in cli[p].txs : L!Live(x) => x \in cli'[p].txs,
           Recorded(p)'
    PROVE  OutcomeInv'
<1>1. /\ RowsOfTheirOperation' /\ OriginsBegan' /\ StatusesAreTrue'
      /\ \A o : Opened(o)' = Opened(o)
      /\ \A x : L!HasTransaction(x)' = L!HasTransaction(x) /\ L!Live(x)' = L!Live(x)
  BY FactsStay
<1>2. CommandTells(p) /\ UNCHANGED operations
  BY DEF OutcomeInv, ledgerVars
<1>3. StillToReverse(p)'
  BY <1>1, <1>2 DEF StillToReverse, CommandTells
<1>4. CommandTells(p)'
  BY <1>2, <1>3 DEF CommandTells
<1> QED
  BY <1>1, <1>4, OnlyCommand

\* The record of a command after it went on.
LEMMA CommandAfter ==
    ASSUME MigrationInv, NEW p \in Procs, cli[p] # None
    PROVE  /\ cli[p] \in Command
           /\ \A c : cli' = [cli EXCEPT ![p] = c] => cli'[p] = c
BY DEF MigrationInv, TypeOK

\* While a command reverses, its operation has nothing to record.
LEMMA NothingToRecord ==
    ASSUME NEW p \in Procs, ~Runs(p, "apply", "next")', ~Runs(p, "apply", "call")'
    PROVE  Recorded(p)'
BY DEF Recorded

\* A call that returns leaves the journals.
LEMMA ReturnedJournals ==
    ASSUME NEW p \in Procs, FT!Return(p)
    PROVE  UNCHANGED journals
BY DEF FT!Return, FT!fileVars

LEMMA ApplyErrorTells ==
    ASSUME MigrationInv, OutcomeInv, OneAtATime, NEW p \in Procs, ApplyError(p)
    PROVE  OutcomeInv'
<1>1. /\ cli[p] # None /\ cli' = [cli EXCEPT ![p].pc = "rollback"]
      /\ UNCHANGED <<ledgerVars, origin, journals>>
  BY ReturnedJournals DEF ApplyError, Runs, Proceed
<1>2. cli[p] \in Command /\ cli'[p] = [cli[p] EXCEPT !.pc = "rollback"]
  BY <1>1, CommandAfter
<1>3. /\ cli'[p].cmd = cli[p].cmd /\ cli'[p].op = cli[p].op /\ cli'[p].ok = cli[p].ok
      /\ cli'[p].txs = cli[p].txs /\ cli'[p].pc = "rollback"
      /\ cli'[p] \in Command
  BY <1>2 DEF Command
<1>4. cli'[p] # None /\ Recorded(p)'
  BY <1>3, NoneIsNoRecord, NothingToRecord DEF Runs
<1> QED
  BY <1>1, <1>3, <1>4, GoesOnQuietly

LEMMA ApplyEndErrorTells ==
    ASSUME MigrationInv, OutcomeInv, OneAtATime, NEW p \in Procs, ApplyEndError(p)
    PROVE  OutcomeInv'
<1>1. /\ cli[p] # None /\ cli' = [cli EXCEPT ![p].pc = "rollback", ![p].finish = FALSE]
      /\ UNCHANGED <<ledgerVars, origin, journals>>
  BY DEF ApplyEndError, Runs, storeVars
<1> DEFINE c == [cli[p] EXCEPT !.pc = "rollback", !.finish = FALSE]
<1>2. cli[p] \in Command /\ cli'[p] = c
  BY <1>1 DEF MigrationInv, TypeOK
<1>3. /\ cli'[p].cmd = cli[p].cmd /\ cli'[p].op = cli[p].op /\ cli'[p].ok = cli[p].ok
      /\ cli'[p].txs = cli[p].txs /\ cli'[p].pc = "rollback"
      /\ cli'[p] \in Command
  BY <1>2 DEF Command
<1>4. cli'[p] # None /\ Recorded(p)'
  BY <1>3, NoneIsNoRecord, NothingToRecord DEF Runs
<1> QED
  BY <1>1, <1>3, <1>4, GoesOnQuietly

\* An undo or a rollback loads its next journal.
LEMMA ReverseNextTells ==
    ASSUME MigrationInv, OutcomeInv, OneAtATime, NEW p \in Procs,
           RollbackNext(p) \/ UndoNext(p)
    PROVE  OutcomeInv'
<1>1. PICK pc \in {"reverting", "call"} :
        /\ cli[p] # None /\ cli' = [cli EXCEPT ![p].pc = pc]
        /\ UNCHANGED <<ledgerVars, origin, journals>>
        /\ cli[p].cmd = "apply" => pc = "reverting"
  <2>1. CASE RollbackNext(p)
    BY <2>1 DEF RollbackNext, Runs, Proceed, FT!UndoCheck, FT!fileVars
  <2>2. CASE UndoNext(p)
    BY <2>2 DEF UndoNext, Runs, Proceed, FT!UndoCheck, FT!fileVars
  <2> QED
    BY <2>1, <2>2
<1>2. cli[p] \in Command /\ cli'[p] = [cli[p] EXCEPT !.pc = pc]
  BY <1>1, CommandAfter
<1>3. /\ cli'[p].cmd = cli[p].cmd /\ cli'[p].op = cli[p].op /\ cli'[p].ok = cli[p].ok
      /\ cli'[p].txs = cli[p].txs /\ cli'[p].pc = pc
      /\ cli'[p] \in Command
  BY <1>2 DEF Command
<1>4. cli'[p] # None /\ Recorded(p)'
  BY <1>1, <1>3, NoneIsNoRecord, NothingToRecord DEF Runs
<1> QED
  BY <1>1, <1>3, <1>4, GoesOnQuietly

LEMMA RollbackErrorTells ==
    ASSUME MigrationInv, OutcomeInv, OneAtATime, NEW p \in Procs, RollbackError(p)
    PROVE  OutcomeInv'
<1>1. /\ cli[p] # None /\ cli[p].cmd = "apply"
      /\ cli' = [cli EXCEPT ![p].pc = "rollback", ![p].txs = @ \ {calls[p].tx},
                            ![p].ok = @ /\ FALSE]
      /\ UNCHANGED <<ledgerVars, origin, journals>>
  BY ReturnedJournals DEF RollbackError, Reverted, Runs
<1> DEFINE c == [cli[p] EXCEPT !.pc = "rollback", !.txs = @ \ {calls[p].tx},
                               !.ok = @ /\ FALSE]
<1>2. cli[p] \in Command /\ cli'[p] = c
  BY <1>1 DEF MigrationInv, TypeOK
<1>3. /\ cli'[p].cmd = cli[p].cmd /\ cli'[p].op = cli[p].op /\ ~cli'[p].ok
      /\ cli'[p].pc = "rollback" /\ cli'[p] \in Command
  <2>1. /\ c.cmd = cli[p].cmd /\ c.op = cli[p].op /\ ~c.ok
        /\ c.pc = "rollback" /\ c \in Command
    BY <1>2 DEF Command
  <2> HIDE DEF c
  <2> QED
    BY <1>2, <2>1, NoneIsNoRecord
<1>4. cli'[p] # None /\ Recorded(p)'
  BY <1>3, NoneIsNoRecord, NothingToRecord DEF Runs
<1> QED
  BY <1>1, <1>3, <1>4, GoesOnQuietly

\* Commands that end or stop without a word to the ledger.
LEMMA LeavingTells ==
    ASSUME MigrationInv, OutcomeInv, OneAtATime, NEW p \in Procs,
           UndoError(p) \/ RecoverEnd(p) \/ Crash(p)
    PROVE  OutcomeInv'
<1>1. cli[p] # None /\ cli' = [cli EXCEPT ![p] = None] /\ UNCHANGED <<ledgerVars, origin>>
  BY DEF UndoError, RecoverEnd, Crash, Free, Runs, Exit
<1>2. UNCHANGED journals
  BY ReturnedJournals
     DEF UndoError, RecoverEnd, Crash, FT!Crash, FT!fileVars, storeVars
<1>3. cli'[p] = None
  BY <1>1, CommandAfter
<1> QED
  BY <1>1, <1>2, <1>3, LeavesQuietly

\* A new operation has opened nothing.
LEMMA ApplyStartTells ==
    ASSUME MigrationInv, OutcomeInv, OneAtATime, NEW p \in Procs, NEW o \in Ops,
           NEW S \in SUBSET Targets, NEW rendered \in [S -> PlanBytes],
           ApplyStart(p, o, rendered)
    PROVE  OutcomeInv'
<1> DEFINE c == [cmd |-> "apply", op |-> o, pc |-> "next", plan |-> PlanFor(rendered),
                 txs |-> {}, ok |-> TRUE, finish |-> TRUE]
<1>1. /\ operations[o] = None /\ operations' = [operations EXCEPT ![o] = "running"]
      /\ UNCHANGED <<transactions, changes, journals, origin>>
      /\ cli' = [cli EXCEPT ![p] = c]
  BY DEF ApplyStart, L!BeginOperation, Begin, storeVars
<1>2. cli'[p] = c /\ operations' \in [Ops -> L!OperationStatus \union {None}]
      /\ operations'[o] = "running" /\ \A r \in Ops \ {o} : operations'[r] = operations[r]
      /\ origin \in [Txs -> Ops \union {None}]
  BY <1>1 DEF MigrationInv, TypeOK, L!TypeOK, L!OperationStatus
<1>3. Opened(o) = {} /\ \A x \in Txs : origin[x] # o
  BY <1>1, <1>2, NoneIsNoRecord DEF OutcomeInv, OriginsBegan, Opened
<1>4. \A r : Opened(r)' = Opened(r)
  BY <1>1 DEF Opened
<1>5. \A x : L!HasTransaction(x)' = L!HasTransaction(x) /\ L!Live(x)' = L!Live(x)
  BY <1>1 DEF L!HasTransaction, L!Live
<1>6. RowsOfTheirOperation'
  BY <1>1, <1>5 DEF OutcomeInv, RowsOfTheirOperation
<1>7. OriginsBegan'
  BY <1>1, <1>2, <1>3 DEF OutcomeInv, OriginsBegan
<1>8. StatusesAreTrue'
  <2> SUFFICES ASSUME NEW r \in Ops, NEW x \in Opened(r)
               PROVE  /\ operations'[r] = "succeeded" => L!HasTransaction(x)
                      /\ operations'[r] = "rolled-back" => ~L!Live(x)
    BY <1>4, <1>5 DEF StatusesAreTrue
  <2>1. r # o
    BY <1>3
  <2> QED
    BY <1>2, <2>1 DEF OutcomeInv, StatusesAreTrue
<1>9. CommandTells(p)'
  <2>1. /\ c.cmd = "apply" /\ c.op = o /\ c.pc = "next" /\ c.ok
    OBVIOUS
  <2> QED
    BY <1>2, <1>3, <1>4, <2>1 DEF CommandTells, Recorded, StillToReverse, Runs
<1> QED
  BY <1>6, <1>7, <1>8, <1>9, OnlyCommand

LEMMA ApplyNextTells ==
    ASSUME MigrationInv, OutcomeInv, OneAtATime, NEW p \in Procs, NEW w \in Write,
           NEW x \in Txs, ApplyNext(p, w, x)
    PROVE  OutcomeInv'
<1>1. /\ cli[p] # None /\ cli[p].cmd = "apply" /\ cli[p].pc = "next"
      /\ cli' = [cli EXCEPT ![p].pc = "call", ![p].plan = @ \ {w}]
      /\ UNCHANGED <<ledgerVars, journals>> /\ FT!Fresh(x)
  BY DEF ApplyNext, Runs, NextTx, FT!ApplyRead, FT!ApplyStale, FT!fileVars
<1> DEFINE c == [cli[p] EXCEPT !.pc = "call", !.plan = @ \ {w}]
<1>2. cli[p] \in Command /\ cli'[p] = c
  BY <1>1 DEF MigrationInv, TypeOK
<1>3. /\ cli'[p].cmd = "apply" /\ cli'[p].op = cli[p].op /\ cli'[p].ok = cli[p].ok
      /\ cli'[p].txs = cli[p].txs /\ cli'[p].pc = "call" /\ cli[p].op \in Ops
      /\ cli'[p] \in Command
  <2>1. /\ c.cmd = "apply" /\ c.op = cli[p].op /\ c.ok = cli[p].ok
        /\ c.txs = cli[p].txs /\ c.pc = "call" /\ cli[p].op \in Ops
        /\ c \in Command
    BY <1>1, <1>2 DEF Command
  <2> HIDE DEF c
  <2> QED
    BY <1>2, <2>1, NoneIsNoRecord
<1>4. origin \in [Txs -> Ops \union {None}] /\ calls \in [Procs -> FT!Call \union {None}]
  BY DEF MigrationInv, TypeOK, FT!TypeOK
<1>5. /\ \A y \in Txs \ {x} : origin'[y] = origin[y]
      /\ calls'[p] # None
      /\ \/ calls'[p].tx = x /\ origin'[x] = cli[p].op
         \/ calls'[p].tx = None /\ origin' = origin
  <2>1. CASE FT!ApplyRead(p, x, w.target, w.expected, w.new)
             /\ origin' = [origin EXCEPT ![x] = cli[p].op]
    BY <1>4, <2>1, ReadStarts DEF FT!ApplyRead, MigrationInv, TypeOK
  <2>2. CASE FT!ApplyStale(p, w.target, w.expected, w.new) /\ origin' = origin
    BY <1>4, <2>2, ReadStarts DEF FT!ApplyStale, MigrationInv, TypeOK
  <2> QED
    BY <2>1, <2>2 DEF ApplyNext
<1>6. journals[x] = None /\ ~L!HasTransaction(x)
  BY <1>1 DEF FT!Fresh, MigrationInv, RowInv, Settled
<1>7. \A r : Opened(r)' = Opened(r)
  BY <1>1, <1>5, <1>6 DEF Opened
<1>8. /\ \A y : L!HasTransaction(y)' = L!HasTransaction(y) /\ L!Live(y)' = L!Live(y)
      /\ UNCHANGED <<operations, changes>>
  BY <1>1 DEF ledgerVars, L!HasTransaction, L!Live
<1>9. RowsOfTheirOperation'
  BY <1>5, <1>6, <1>8 DEF OutcomeInv, RowsOfTheirOperation
<1>10. CommandTells(p)
  BY DEF OutcomeInv
<1>11. OriginsBegan'
  <2>1. operations[cli[p].op] # None
    BY <1>1, <1>3, <1>10, NoneIsNoRecord DEF CommandTells, L!OperationStatus
  <2> QED
    BY <1>5, <1>8, <2>1 DEF OutcomeInv, OriginsBegan
<1>12. StatusesAreTrue'
  BY <1>7, <1>8 DEF OutcomeInv, StatusesAreTrue
<1>13. Recorded(p)'
  <2>1. \A y \in Opened(cli[p].op) : L!HasTransaction(y)
    BY <1>1, <1>10 DEF CommandTells, Recorded, Runs
  <2>2. calls'[p].tx \in Txs => origin'[calls'[p].tx] = cli[p].op
    BY <1>5, NoneIsNoRecord
  <2> QED
    BY <1>3, <1>5, <1>7, <1>8, <2>1, <2>2 DEF Recorded, Runs
<1>14. StillToReverse(p)'
  BY <1>1, <1>3, <1>7, <1>8, <1>10 DEF CommandTells, StillToReverse
<1>15. CommandTells(p)'
  BY <1>1, <1>3, <1>8, <1>10, <1>13, <1>14 DEF CommandTells
<1> QED
  BY <1>9, <1>11, <1>12, <1>15, OnlyCommand


\* The row of a transaction is of the operation that opened it.
LEMMA RecordTells ==
    ASSUME MigrationInv, OutcomeInv, OneAtATime, NEW p \in Procs,
           Record(p) \/ RecordError(p)
    PROVE  OutcomeInv'
<1> SUFFICES ASSUME NEW x, x = calls[p].tx, NEW o, o = cli[p].op PROVE OutcomeInv'
  OBVIOUS
<1>1. /\ TypeOK /\ cli[p] \in Command /\ cli[p] # None /\ cli[p].cmd = "apply"
      /\ FT!Return(p) /\ Runs(p, "apply", "call") /\ CallIs(p, "done")
      /\ UNCHANGED <<origin, journals>>
  BY ReturnedJournals DEF Record, RecordError, Runs, MigrationInv, TypeOK
<1>2. x \in Txs /\ ~L!HasTransaction(x) /\ o \in Ops
  BY <1>1, TxSettles DEF Command
<1>3. /\ CommandTells(p) /\ operations[o] = "running" /\ origin[x] = o
      /\ \A y \in Opened(o) : L!HasTransaction(y) \/ y = x
  BY <1>1, <1>2 DEF OutcomeInv, CommandTells, Recorded
<1>4. PICK pc \in {"next", "rollback"} :
        /\ cli' = [cli EXCEPT ![p].pc = pc, ![p].txs = @ \union {calls[p].tx}]
        /\ RecordCall(p) \/ (pc = "rollback" /\ UNCHANGED ledgerVars)
  BY DEF Record, RecordError
<1> DEFINE c == [cli[p] EXCEPT !.pc = pc, !.txs = @ \union {calls[p].tx}]
<1>5. cli'[p] = c
  BY <1>1, <1>4 DEF TypeOK
<1>6. /\ cli'[p].cmd = "apply" /\ cli'[p].op = o /\ cli'[p].ok = cli[p].ok
      /\ cli'[p].txs = cli[p].txs \union {x} /\ cli'[p].pc = pc
      /\ cli'[p] \in Command /\ cli'[p] # None
  <2>1. /\ c.cmd = "apply" /\ c.op = o /\ c.ok = cli[p].ok
        /\ c.txs = cli[p].txs \union {x} /\ c.pc = pc
        /\ c \in Command
    BY <1>1, <1>2, <1>5 DEF Command
  <2> HIDE DEF c
  <2> QED
    BY <1>5, <2>1, NoneIsNoRecord
<1> HIDE DEF c
<1>7. CASE RecordCall(p)
  <2>1. /\ \A y \in Txs \ {x} : transactions'[y] = transactions[y] /\ changes'[y] = changes[y]
        /\ transactions'[x] = "committed" /\ changes'[x].op = o
        /\ UNCHANGED operations
    BY <1>1, <1>2, <1>7
       DEF RecordCall, L!RecordTransactionWithManagedObject, L!SetStatus, TypeOK, L!TypeOK
  <2>2. L!HasTransaction(x)' /\ L!Live(x)'
    BY <2>1, NoneIsNoRecord DEF L!HasTransaction, L!Live, L!TransactionStatus
  <2>3. \A y \in Txs \ {x} :
            L!HasTransaction(y)' = L!HasTransaction(y) /\ L!Live(y)' = L!Live(y)
    BY <2>1 DEF L!HasTransaction, L!Live
  <2>4. \A r : Opened(r)' = Opened(r)
    BY <1>1 DEF Opened
  <2>5. RowsOfTheirOperation'
    BY <1>1, <1>3, <2>1, <2>3 DEF OutcomeInv, RowsOfTheirOperation
  <2>6. OriginsBegan'
    BY <1>1, <2>1 DEF OutcomeInv, OriginsBegan
  <2>7. StatusesAreTrue'
    <3> SUFFICES ASSUME NEW r \in Ops, NEW y \in Opened(r)
                 PROVE  /\ operations[r] = "succeeded" => L!HasTransaction(y)'
                        /\ operations[r] = "rolled-back" => ~L!Live(y)'
      BY <2>1, <2>4 DEF StatusesAreTrue
    <3>1. y \in Txs /\ origin[y] = r
      BY DEF Opened
    <3>2. y = x => operations[r] = "running"
      BY <1>3, <3>1
    <3> QED
      BY <2>3, <3>1, <3>2 DEF OutcomeInv, StatusesAreTrue
  <2>8. Recorded(p)'
    <3>1. \A y \in Opened(o) : L!HasTransaction(y)'
      BY <1>3, <2>2, <2>3 DEF Opened
    <3> QED
      BY <1>6, <2>4, <3>1 DEF Recorded, Runs
  <2>9. StillToReverse(p)'
    <3> SUFFICES ASSUME cli[p].ok, NEW y \in Opened(o), L!Live(y)'
                 PROVE  y \in cli[p].txs \union {x}
      BY <1>6, <2>4 DEF StillToReverse
    <3>1. y # x => L!Live(y)
      BY <2>3 DEF Opened
    <3> QED
      BY <1>1, <1>3, <3>1 DEF CommandTells, StillToReverse
  <2>10. CommandTells(p)'
    BY <1>3, <1>6, <2>1, <2>8, <2>9 DEF CommandTells
  <2> QED
    BY <2>5, <2>6, <2>7, <2>10, OnlyCommand
<1>8. CASE pc = "rollback" /\ UNCHANGED ledgerVars
  <2>1. Recorded(p)'
    BY <1>6, <1>8, NothingToRecord DEF Runs
  <2> QED
    BY <1>1, <1>6, <1>8, <2>1, GoesOnQuietly
<1> QED
  BY <1>4, <1>7, <1>8

\* A row that is rolled back is one less to reverse.
LEMMA RowReversed ==
    ASSUME MigrationInv, OutcomeInv, OneAtATime, NEW p \in Procs, NEW x \in Txs,
           L!RollbackTransactionAndManagedObject(x), UNCHANGED <<origin, journals>>,
           cli[p] # None, cli'[p] # None,
           cli'[p].cmd = cli[p].cmd, cli'[p].op = cli[p].op,
           cli[p].cmd = "undo" /\ cli[p].ok => cli'[p].ok, cli'[p].ok => cli[p].ok,
           cli'[p].txs = cli[p].txs \ {x}, Recorded(p)'
    PROVE  OutcomeInv'
<1>1. /\ \A y \in Txs \ {x} : transactions'[y] = transactions[y]
      /\ transactions'[x] = "rolled-back" /\ transactions[x] # None
      /\ UNCHANGED <<operations, changes>>
  BY DEF L!RollbackTransactionAndManagedObject, L!SetStatus, L!HasTransaction,
     MigrationInv, TypeOK, L!TypeOK
<1>2. /\ \A y \in Txs : L!HasTransaction(y)' <=> L!HasTransaction(y)
      /\ \A y \in Txs : L!Live(y)' => L!Live(y) /\ y # x
  BY <1>1, NoneIsNoRecord DEF L!HasTransaction, L!Live, L!TransactionStatus
<1>3. \A r : Opened(r)' = Opened(r)
  BY DEF Opened
<1>4. CommandTells(p)
  BY DEF OutcomeInv
<1>5. RowsOfTheirOperation' /\ OriginsBegan'
  BY <1>1, <1>2 DEF OutcomeInv, RowsOfTheirOperation, OriginsBegan
<1>6. StatusesAreTrue'
  <2>1. \A r : \A y \in Opened(r) : y \in Txs
    BY DEF Opened
  <2> QED
    BY <1>1, <1>2, <1>3, <2>1 DEF OutcomeInv, StatusesAreTrue
<1>7. StillToReverse(p)'
  <2>1. \A r : \A y \in Opened(r) : y \in Txs
    BY DEF Opened
  <2> QED
    BY <1>2, <1>3, <1>4, <2>1 DEF CommandTells, StillToReverse
<1>8. CommandTells(p)'
  BY <1>1, <1>4, <1>7 DEF CommandTells
<1> QED
  BY <1>5, <1>6, <1>8, OnlyCommand

\* The transaction of a reversal is known.
LEMMA ReversedTx ==
    ASSUME MigrationInv, NEW p \in Procs, CallIs(p, "done"),
           Runs(p, "apply", "reverting") \/ Runs(p, "undo", "call")
    PROVE  calls[p].tx \in Txs
<1>1. calls[p] # None /\ calls[p].fn = "undo" /\ calls[p].pc = "done"
  BY DEF MigrationInv, CommandInv, CallOf, Runs, CallIs, FT!Idle
<1> QED
  BY <1>1 DEF MigrationInv, CommandInv, Reversing, FT!Journaled

LEMMA RollbackDoneTells ==
    ASSUME MigrationInv, OutcomeInv, OneAtATime, NEW p \in Procs, RollbackDone(p)
    PROVE  OutcomeInv'
<1> SUFFICES ASSUME NEW x, x = calls[p].tx PROVE OutcomeInv'
  OBVIOUS
<1>1. /\ cli[p] \in Command /\ cli[p] # None /\ cli[p].cmd = "apply" /\ x \in Txs
      /\ UNCHANGED <<origin, journals>>
  BY ReturnedJournals, ReversedTx
     DEF RollbackDone, Reverted, Runs, MigrationInv, TypeOK
<1>2. PICK ok \in BOOLEAN :
        /\ Reverted(p, ok)
        /\ \/ L!RollbackTransactionAndManagedObject(x)
           \/ UNCHANGED ledgerVars /\ (~ok \/ ~L!HasTransaction(x))
  BY DEF RollbackDone
<1> DEFINE c == [cli[p] EXCEPT !.pc = "rollback", !.txs = @ \ {calls[p].tx},
                               !.ok = @ /\ ok]
<1>3. cli'[p] = c
  BY <1>1, <1>2 DEF Reverted, MigrationInv, TypeOK
<1>4. /\ cli'[p].cmd = "apply" /\ cli'[p].op = cli[p].op
      /\ cli'[p].ok = (cli[p].ok /\ ok) /\ cli'[p].pc = "rollback"
      /\ cli'[p].txs = cli[p].txs \ {x} /\ cli'[p] \in Command /\ cli'[p] # None
  <2>1. /\ c.cmd = "apply" /\ c.op = cli[p].op
        /\ c.ok = (cli[p].ok /\ ok) /\ c.pc = "rollback"
        /\ c.txs = cli[p].txs \ {x} /\ c \in Command
    BY <1>1, <1>3 DEF Command
  <2> HIDE DEF c
  <2> QED
    BY <1>3, <2>1, NoneIsNoRecord
<1> HIDE DEF c
<1>5. Recorded(p)'
  BY <1>4, NothingToRecord DEF Runs
<1>6. CASE L!RollbackTransactionAndManagedObject(x)
  BY <1>1, <1>4, <1>5, <1>6, RowReversed
<1>7. CASE UNCHANGED ledgerVars /\ (~ok \/ ~L!HasTransaction(x))
  <2>1. ~L!HasTransaction(x) => ~L!Live(x)
    BY NoneIsNoRecord DEF L!HasTransaction, L!Live, L!TransactionStatus
  <2>2. cli'[p].ok =>
            cli[p].ok /\ \A y \in cli[p].txs : L!Live(y) => y \in cli'[p].txs
    BY <1>4, <1>7, <2>1
  <2> QED
    BY <1>1, <1>4, <1>5, <1>7, <2>2, GoesOnQuietly
<1> QED
  BY <1>2, <1>6, <1>7

LEMMA UndoLedgerTells ==
    ASSUME MigrationInv, OutcomeInv, OneAtATime, NEW p \in Procs, UndoLedger(p)
    PROVE  OutcomeInv'
<1> SUFFICES ASSUME NEW x, x = calls[p].tx PROVE OutcomeInv'
  OBVIOUS
<1>1. /\ cli[p] \in Command /\ cli[p] # None /\ cli[p].cmd = "undo" /\ x \in Txs
      /\ UNCHANGED <<origin, journals>>
  BY ReturnedJournals, ReversedTx DEF UndoLedger, Runs, MigrationInv, TypeOK
<1>2. CASE /\ L!RollbackTransactionAndManagedObject(x)
           /\ cli' = [cli EXCEPT ![p].pc = "next", ![p].txs = @ \ {calls[p].tx}]
  <2> DEFINE c == [cli[p] EXCEPT !.pc = "next", !.txs = @ \ {calls[p].tx}]
  <2>1. cli'[p] = c
    BY <1>1, <1>2 DEF MigrationInv, TypeOK
  <2>2. /\ cli'[p].cmd = "undo" /\ cli'[p].op = cli[p].op /\ cli'[p].ok = cli[p].ok
        /\ cli'[p].txs = cli[p].txs \ {x} /\ cli'[p] \in Command /\ cli'[p] # None
    <3>1. /\ c.cmd = "undo" /\ c.op = cli[p].op /\ c.ok = cli[p].ok
          /\ c.txs = cli[p].txs \ {x} /\ c \in Command
      BY <1>1, <2>1 DEF Command
    <3> HIDE DEF c
    <3> QED
      BY <2>1, <3>1, NoneIsNoRecord
  <2> HIDE DEF c
  <2>3. Recorded(p)'
    BY <2>2, NothingToRecord DEF Runs
  <2> QED
    BY <1>1, <1>2, <2>2, <2>3, RowReversed
<1>3. CASE UNCHANGED ledgerVars /\ Exit(p)
  BY <1>1, <1>3, CommandAfter, LeavesQuietly DEF Exit
<1> QED
  BY <1>2, <1>3 DEF UndoLedger

\* A command that records its outcome leaves.
LEMMA Finishes ==
    ASSUME MigrationInv, OutcomeInv, OneAtATime, NEW p \in Procs, NEW o \in Ops,
           NEW status \in {"succeeded", "failed", "rolled-back"},
           L!FinishOperation(o, status), UNCHANGED <<origin, journals>>, cli'[p] = None,
           status = "succeeded" => \A x \in Opened(o) : L!HasTransaction(x),
           status = "rolled-back" => \A x \in Opened(o) : ~L!Live(x)
    PROVE  OutcomeInv'
<1>1. /\ operations'[o] = status /\ \A r \in Ops \ {o} : operations'[r] = operations[r]
      /\ status # None /\ UNCHANGED <<transactions, changes>>
  BY NoneIsNoRecord DEF L!FinishOperation, L!OperationStatus, MigrationInv, TypeOK, L!TypeOK
<1>2. /\ \A x : L!HasTransaction(x)' = L!HasTransaction(x) /\ L!Live(x)' = L!Live(x)
      /\ \A r : Opened(r)' = Opened(r)
  BY <1>1 DEF L!HasTransaction, L!Live, Opened
<1>3. RowsOfTheirOperation'
  BY <1>1, <1>2 DEF OutcomeInv, RowsOfTheirOperation
<1>4. OriginsBegan'
  BY <1>1 DEF OutcomeInv, OriginsBegan, MigrationInv, TypeOK
<1>5. StatusesAreTrue'
  BY <1>1, <1>2 DEF OutcomeInv, StatusesAreTrue
<1> QED
  BY <1>3, <1>4, <1>5, NoCommand, OnlyCommand

LEMMA EndTells ==
    ASSUME MigrationInv, OutcomeInv, OneAtATime, NEW p \in Procs,
           ApplyEnd(p) \/ RollbackEnd(p) \/ UndoEnd(p)
    PROVE  OutcomeInv'
<1> SUFFICES ASSUME NEW o, o = cli[p].op PROVE OutcomeInv'
  OBVIOUS
<1>1. /\ cli[p] \in Command /\ cli[p] # None /\ cli[p].cmd \in {"apply", "undo"}
      /\ Exit(p) /\ UNCHANGED <<origin, journals>>
  BY DEF ApplyEnd, RollbackEnd, UndoEnd, Runs, MigrationInv, TypeOK, storeVars
<1>2. cli'[p] = None /\ o \in Ops /\ CommandTells(p)
  BY <1>1, CommandAfter DEF Exit, Command, OutcomeInv
<1>3. CASE ApplyEnd(p)
  <2>1. \A x \in Opened(o) : L!HasTransaction(x)
    BY <1>2, <1>3 DEF ApplyEnd, CommandTells, Recorded
  <2> QED
    BY <1>1, <1>2, <1>3, <2>1, Finishes DEF ApplyEnd
<1>4. CASE RollbackEnd(p) \/ UndoEnd(p)
  <2>1. cli[p].txs = {}
    BY <1>4 DEF RollbackEnd, UndoEnd
  <2>2. cli[p].ok => \A x \in Opened(o) : ~L!Live(x)
    BY <1>1, <1>2, <2>1 DEF CommandTells, StillToReverse
  <2>3. \/ L!FinishOperation(o, Outcome(p)) \/ UNCHANGED ledgerVars
        \/ cli[p].ok /\ L!FinishOperation(o, "rolled-back")
    BY <1>2, <1>4 DEF RollbackEnd, UndoEnd, CommandTells, Runs
  <2>4. CASE UNCHANGED ledgerVars
    BY <1>1, <1>2, <2>4, LeavesQuietly
  <2>5. CASE cli[p].ok /\ L!FinishOperation(o, "rolled-back")
    BY <1>1, <1>2, <2>2, <2>5, Finishes
  <2>6. CASE ~cli[p].ok /\ L!FinishOperation(o, "failed")
    BY <1>1, <1>2, <2>6, Finishes
  <2> QED
    BY <2>3, <2>4, <2>5, <2>6 DEF Outcome
<1> QED
  BY <1>3, <1>4

\* What an undo has to reverse is every row of its operation.
LEMMA UndoStartTells ==
    ASSUME MigrationInv, OutcomeInv, OneAtATime, NEW p \in Procs, NEW o \in Ops,
           UndoStart(p, o)
    PROVE  OutcomeInv'
<1> DEFINE c == [cmd |-> "undo", op |-> o, pc |-> "next", plan |-> {},
                 txs |-> L!TransactionsOf(o), ok |-> TRUE, finish |-> TRUE]
<1>1. /\ cli' = [cli EXCEPT ![p] = c] /\ UNCHANGED <<ledgerVars, origin, journals>>
  BY DEF UndoStart, Begin, storeVars
<1>2. cli'[p] = c
  BY <1>1 DEF MigrationInv, TypeOK
<1>3. /\ RowsOfTheirOperation' /\ OriginsBegan' /\ StatusesAreTrue'
      /\ \A r : Opened(r)' = Opened(r)
      /\ \A x : L!HasTransaction(x)' = L!HasTransaction(x) /\ L!Live(x)' = L!Live(x)
  BY <1>1, FactsStay
<1>4. \A x \in Opened(o) : L!Live(x) => x \in L!TransactionsOf(o)
  <2> SUFFICES ASSUME NEW x \in Opened(o), L!Live(x) PROVE x \in L!TransactionsOf(o)
    OBVIOUS
  <2>1. x \in Txs /\ origin[x] = o /\ L!HasTransaction(x)
    BY NoneIsNoRecord DEF Opened, L!Live, L!HasTransaction, L!TransactionStatus
  <2>2. changes[x] # None /\ changes[x].op = o
    BY <2>1 DEF OutcomeInv, RowsOfTheirOperation, MigrationInv, RowInv
  <2> QED
    BY <2>1, <2>2 DEF L!TransactionsOf
<1>5. /\ cli'[p].cmd = "undo" /\ cli'[p].op = o /\ cli'[p].ok
      /\ cli'[p].txs = L!TransactionsOf(o)
  BY <1>2
<1> HIDE DEF c
<1>6. Recorded(p)'
  BY <1>5, NothingToRecord DEF Runs
<1>7. StillToReverse(p)'
  BY <1>3, <1>4, <1>5 DEF StillToReverse
<1>8. CommandTells(p)'
  BY <1>5, <1>6, <1>7 DEF CommandTells
<1> QED
  BY <1>3, <1>8, OnlyCommand

LEMMA RecoverStartTells ==
    ASSUME MigrationInv, OutcomeInv, OneAtATime, NEW p \in Procs, NEW x \in Txs,
           RecoverStart(p, x)
    PROVE  OutcomeInv'
<1> DEFINE c == [cmd |-> "recover", op |-> None, pc |-> "call", plan |-> {}, txs |-> {},
                 ok |-> TRUE, finish |-> TRUE]
<1>1. /\ cli' = [cli EXCEPT ![p] = c] /\ UNCHANGED <<ledgerVars, origin, journals>>
  BY DEF RecoverStart, Begin, FT!RecoverLoad, FT!fileVars
<1>2. cli'[p] = c
  BY <1>1 DEF MigrationInv, TypeOK
<1>3. cli'[p].cmd = "recover"
  BY <1>2
<1> HIDE DEF c
<1>4. CommandTells(p)'
  BY <1>3 DEF CommandTells, Recorded, StillToReverse, Runs
<1> QED
  BY <1>1, <1>4, FactsStay, OnlyCommand

\* Steps of the store and of the user: the commands and the ledger stay.
LEMMA StoreQuiet ==
    ASSUME OutcomeInv, UNCHANGED <<ledgerVars, cli, origin>>,
           \A x \in Txs : journals'[x] = None <=> journals[x] = None,
           \A q \in Procs : calls[q] # None =>
                calls'[q] # None /\ calls'[q].tx = calls[q].tx
    PROVE  OutcomeInv'
<1>1. /\ RowsOfTheirOperation' /\ OriginsBegan' /\ StatusesAreTrue'
      /\ \A o : Opened(o)' = Opened(o)
      /\ \A x : L!HasTransaction(x)' = L!HasTransaction(x) /\ L!Live(x)' = L!Live(x)
  BY FactsStay
<1>2. ASSUME NEW q \in Procs PROVE CommandTells(q)'
  <2>1. CommandTells(q) /\ UNCHANGED operations
    BY DEF OutcomeInv, ledgerVars
  <2>2. Recorded(q)'
    BY <1>1, <2>1 DEF CommandTells, Recorded, Runs
  <2>3. StillToReverse(q)'
    BY <1>1, <2>1 DEF CommandTells, StillToReverse
  <2> QED
    BY <2>1, <2>2, <2>3 DEF CommandTells
<1> QED
  BY <1>1, <1>2 DEF OutcomeInv

\* The first journal of a transaction: its operation is running.
LEMMA PrepareTells ==
    ASSUME MigrationInv, OutcomeInv, OneAtATime, NEW p \in Procs, InStore,
           FT!ApplyPrepare(p)
    PROVE  OutcomeInv'
<1> SUFFICES ASSUME NEW x, x = calls[p].tx, NEW o, o = cli[p].op PROVE OutcomeInv'
  OBVIOUS
<1> USE DEF FT!ApplyPC, FT!RestorePC, FT!ResultPC
<1>1. /\ FT!TypeOK /\ calls[p] # None /\ calls[p].fn = "apply" /\ calls[p].pc = "backed"
      /\ journals' = [journals EXCEPT ![x] = FT!JournalOf(p, "prepared")]
      /\ FT!Goto(p, "prepared") /\ UNCHANGED <<ledgerVars, cli, origin>>
  BY DEF FT!ApplyPrepare, FT!At, InStore, MigrationInv, TypeOK
<1>2. calls'[p] # None /\ calls'[p].tx = x
  BY <1>1, GotoCall
<1>3. x \in Txs /\ ~L!HasTransaction(x)
  BY <1>1 DEF MigrationInv, CommandInv, ApplyingAlone, Applying
<1>4. cli[p] # None /\ cli[p].cmd = "apply" /\ cli[p].pc = "call" /\ CommandTells(p)
  BY <1>1 DEF MigrationInv, CommandInv, CallOf, Runs, OutcomeInv, CommandTells
<1>5. /\ operations[o] = "running" /\ origin[x] = o
      /\ \A y \in Opened(o) : L!HasTransaction(y) \/ y = x
  BY <1>3, <1>4 DEF CommandTells, Recorded, Runs
<1>6. \A y \in Txs \ {x} : journals'[y] = journals[y]
  BY <1>1 DEF FT!TypeOK
<1>7. /\ \A y : L!HasTransaction(y)' = L!HasTransaction(y) /\ L!Live(y)' = L!Live(y)
      /\ UNCHANGED <<operations, changes>>
  BY <1>1 DEF ledgerVars, L!HasTransaction, L!Live
<1>8. /\ \A r : r # o => Opened(r)' \subseteq Opened(r)
      /\ Opened(o)' \subseteq Opened(o) \union {x}
  BY <1>1, <1>5, <1>6 DEF Opened
<1>9. RowsOfTheirOperation' /\ OriginsBegan'
  BY <1>1, <1>7 DEF OutcomeInv, RowsOfTheirOperation, OriginsBegan
<1>10. StatusesAreTrue'
  <2> SUFFICES ASSUME NEW r \in Ops, NEW y \in Opened(r)'
               PROVE  /\ operations[r] = "succeeded" => L!HasTransaction(y)
                      /\ operations[r] = "rolled-back" => ~L!Live(y)
    BY <1>7 DEF StatusesAreTrue
  <2>1. CASE r = o
    BY <1>5, <2>1
  <2>2. CASE r # o
    BY <1>8, <2>2 DEF OutcomeInv, StatusesAreTrue
  <2> QED
    BY <2>1, <2>2
<1>11. Recorded(p)'
  BY <1>1, <1>2, <1>4, <1>5, <1>7, <1>8 DEF Recorded, Runs
<1>12. StillToReverse(p)'
  <2> SUFFICES ASSUME cli[p].ok, NEW y \in Opened(o)', L!Live(y) PROVE y \in cli[p].txs
    BY <1>1, <1>7 DEF StillToReverse
  <2>1. L!HasTransaction(y)
    BY NoneIsNoRecord DEF L!Live, L!HasTransaction, L!TransactionStatus
  <2>2. y \in Opened(o)
    BY <1>3, <1>8, <2>1
  <2> QED
    BY <1>4, <2>2 DEF CommandTells, StillToReverse
<1>13. CommandTells(p)'
  BY <1>1, <1>4, <1>7, <1>11, <1>12 DEF CommandTells
<1> QED
  BY <1>9, <1>10, <1>13, OnlyCommand

\* A journal that exists is only written over.
LEMMA StoreTells ==
    ASSUME MigrationInv, OutcomeInv, OneAtATime, NEW p \in Procs, InStore,
           FT!Step(p) \/ FT!IoError(p) \/ FT!TargetUnseen(p), ~FT!ApplyPrepare(p)
    PROVE  OutcomeInv'
<1> USE DEF FT!ApplyPC, FT!RestorePC, FT!ResultPC
<1>1. FT!TypeOK /\ CommandInv(p) /\ UNCHANGED <<ledgerVars, cli, origin>>
  BY DEF MigrationInv, TypeOK, InStore
<1>2. PICK pc \in FT!ApplyPC \union FT!RestorePC \union FT!ResultPC :
        calls[p] # None /\ FT!Goto(p, pc)
  <2>1. CASE FT!RecoverClassify(p)
    BY <2>1 DEF FT!RecoverClassify, FT!Disposition, FT!At
  <2>2. CASE FT!RestoreBefore(p)
    BY <2>2 DEF FT!RestoreBefore
  <2> QED
    BY <2>1, <2>2 DEF FT!Step, FT!IoError, FT!TargetUnseen, FT!ApplyBackup,
         FT!ApplyPersist, FT!ApplyCommit,
       FT!SaveRolledBack, FT!At
<1>3. /\ calls'[p] # None /\ calls'[p].tx = calls[p].tx
      /\ \A q \in Procs \ {p} : calls'[q] = calls[q]
  BY <1>1, <1>2, GotoCall
<1>4. \A x \in Txs : journals'[x] = None <=> journals[x] = None
  <2>1. CASE FT!ApplyCommit(p) \/ FT!SaveRolledBack(p)
    <3>1. PICK status \in {"committed", "rolled-back"} :
            journals' = [journals EXCEPT ![calls[p].tx] = FT!JournalOf(p, status)]
      BY <2>1 DEF FT!ApplyCommit, FT!SaveRolledBack
    <3>2. FT!JournalOf(p, status) \in FT!Journal
      BY <1>1, <1>2 DEF FT!TypeOK, FT!JournalOf, FT!Journal, FT!Call
    <3>3. FT!Journaled(p)
      <4>1. CASE FT!ApplyCommit(p)
        BY <1>1, <1>2, <4>1 DEF FT!ApplyCommit, FT!At, CommandInv, ApplyingAlone, Applying,
           FT!Unjournaled
      <4>2. CASE FT!SaveRolledBack(p)
        BY <1>1, <1>2, <4>2
           DEF FT!SaveRolledBack, CommandInv, ApplyingAlone, Applying, Reversing
      <4> QED
        BY <2>1, <4>1, <4>2
    <3> QED
      BY <1>1, <3>1, <3>2, <3>3, NoneIsNoRecord DEF FT!TypeOK, FT!Journaled
  <2>2. CASE UNCHANGED journals
    BY <2>2
  <2> QED
    BY <2>1, <2>2 DEF FT!Step, FT!IoError, FT!TargetUnseen, FT!ApplyBackup, FT!ApplyPersist,
       FT!RecoverClassify, FT!RestoreBefore, FT!fileVars
<1> QED
  BY <1>1, <1>3, <1>4, StoreQuiet

LEMMA OutcomeInvInit == Init => OutcomeInv
BY DEF Init, FT!Init, L!Init, OutcomeInv, RowsOfTheirOperation, OriginsBegan,
   StatusesAreTrue, CommandTells, Recorded, StillToReverse, Runs, Opened, L!HasTransaction

LEMMA OutcomeInvNext ==
    ASSUME OneAtATime, MigrationInv, OutcomeInv, [Next]_vars
    PROVE  OutcomeInv'
<1>1. ASSUME NEW p \in Procs, Apply(p) PROVE OutcomeInv'
  <2>1. CASE \E o \in Ops, S \in SUBSET Targets : \E rendered \in [S -> PlanBytes] :
                S # {} /\ ApplyStart(p, o, rendered)
    BY <2>1, ApplyStartTells
  <2>2. CASE \E x \in Txs : ~Free(p) /\ \E w \in cli[p].plan : ApplyNext(p, w, x)
    <3>1. PICK x \in Txs : ~Free(p) /\ \E w \in cli[p].plan : ApplyNext(p, w, x)
      BY <2>2
    <3>2. cli[p].plan \subseteq Write
      BY <3>1 DEF Free, MigrationInv, TypeOK, Command
    <3> QED
      BY <3>1, <3>2, ApplyNextTells
  <2> QED
    BY <1>1, <2>1, <2>2, RecordTells, ApplyErrorTells, EndTells, ApplyEndErrorTells,
       ReverseNextTells, RollbackDoneTells, RollbackErrorTells DEF Apply
<1>2. ASSUME NEW p \in Procs, Undo(p) PROVE OutcomeInv'
  BY <1>2, UndoStartTells, ReverseNextTells, UndoLedgerTells, LeavingTells, EndTells DEF Undo
<1>3. ASSUME NEW p \in Procs, Recover(p) \/ Crash(p) PROVE OutcomeInv'
  BY <1>3, RecoverStartTells, LeavingTells DEF Recover
<1>4. ASSUME InStore, NEW p \in Procs,
             FT!Step(p) \/ FT!IoError(p) \/ FT!TargetUnseen(p)
      PROVE  OutcomeInv'
  BY <1>4, PrepareTells, StoreTells
<1>5. ASSUME InStore, NEW t \in Targets, NEW c \in FT!FileState, FT!Edit(t, c)
      PROVE  OutcomeInv'
  BY <1>5, StoreQuiet DEF FT!Edit, InStore
<1>6. ASSUME InStore, NEW x \in Txs, FT!DamageBackup(x) PROVE OutcomeInv'
  BY <1>6, StoreQuiet DEF FT!DamageBackup, InStore
<1>7. ASSUME UNCHANGED vars PROVE OutcomeInv'
  BY <1>7, StoreQuiet DEF vars, storeVars
<1> QED
  BY <1>1, <1>2, <1>3, <1>4, <1>5, <1>6, <1>7 DEF Next

\* A transaction with a journal is reversed in both places, stands in the
\* ledger, or awaits recovery.
LEMMA ClosedOrOffered ==
    ASSUME MigrationInv, NEW x \in Txs, journals[x] # None, ~L!Live(x)
    PROVE  Reversed(x) \/ AwaitsRecovery(x)
<1>1. journals[x].status \in {"prepared", "committed", "rolled-back"}
  BY DEF MigrationInv, TypeOK, FT!TypeOK, FT!Journal
<1>2. transactions[x] \in L!TransactionStatus \union {None}
  BY DEF MigrationInv, TypeOK, L!TypeOK
<1>3. L!HasTransaction(x) => JournalIs(x, "rolled-back")
  BY <1>2 DEF MigrationInv, RowInv, L!Live, L!HasTransaction, L!TransactionStatus
<1> QED
  BY <1>1, <1>3 DEF Reversed, AwaitsRecovery, JournalIs

\* With one command at a time, wherever commands stop and whatever fails: an
\* operation that succeeded has every transaction it opened in the ledger, and
\* one that was rolled back left none open that recovery does not offer.
THEOREM OutcomesHold ==
    ASSUME OneAtATime PROVE Spec => []OutcomesAreTrue
<1>1. Init => OutcomeInv
  BY OutcomeInvInit
<1>2. MigrationInv /\ OutcomeInv /\ [Next]_vars => OutcomeInv'
  BY OutcomeInvNext
<1>3. MigrationInv /\ OutcomeInv => OutcomesAreTrue
  <2> SUFFICES ASSUME MigrationInv, OutcomeInv, NEW o \in Ops, NEW x \in Opened(o)
               PROVE  /\ operations[o] = "succeeded" => L!HasTransaction(x)
                      /\ operations[o] = "rolled-back" => Reversed(x) \/ AwaitsRecovery(x)
    BY DEF OutcomesAreTrue
  <2>1. x \in Txs /\ journals[x] # None
    BY DEF Opened
  <2> QED
    BY <2>1, ClosedOrOffered DEF OutcomeInv, StatusesAreTrue
<1> QED
  BY <1>1, <1>2, <1>3, MigrationSafety, PTL DEF Spec

-----------------------------------------------------------------------------
(* One command at a time: owners and the bytes of their targets *)

Begun(x) == journals[x] # None \/ backups[x] # None

\* Transactions are opened in order, so the journals a new one finds are older.
Numbered ==
    /\ \A x, y \in Txs : x < y /\ journals[y] # None => Begun(x)
    /\ \A p \in Procs, x \in Txs : Opening(p, x) =>
        /\ \A y \in Txs : y < x => Begun(y)
        /\ \A y \in Txs : journals[y] # None => y <= x

\* An operation writes a target once and owns what it writes.
RowsAreUnique ==
    \A x \in Txs : L!HasTransaction(x) =>
        /\ changes[x].after.owner = changes[x].op
        /\ \A y \in Txs :
            (/\ L!HasTransaction(y)
             /\ changes[y].op = changes[x].op /\ changes[y].target = changes[x].target)
            => y = x

LiveOn(t) == {x \in Txs : L!Live(x) /\ changes[x].target = t}

\* The newest of the rows installed the owner.
TopIs(rows, owner) ==
    IF owner = None THEN rows = {}
    ELSE \E x \in rows : changes[x].after = owner /\ \A y \in rows : y <= x

\* The owners of a target are a stack in the order of the transactions.
Stack ==
    \A t \in Targets :
        /\ TopIs(LiveOn(t), managed[t])
        /\ \A x \in LiveOn(t) : TopIs({y \in LiveOn(t) : y < x}, changes[x].before)

\* What a call in progress knows of its transaction.
CallKnows(p) ==
    calls[p] # None =>
        /\ calls[p].fn = "apply" /\ calls[p].pc \in {"prepared", "persisted"} =>
                JournalIs(calls[p].tx, "prepared")
        /\ calls[p].fn = "apply" /\ calls[p].pc = "done" => JournalIs(calls[p].tx, "committed")
        /\ calls[p].fn = "undo" /\ calls[p].pc \in {"checked", "restored", "unseen"} =>
                JournalIs(calls[p].tx, "committed")
        /\ calls[p].fn = "undo" => calls[p].pc # "loaded"
        /\ calls[p].fn = "undo" /\ calls[p].pc # "err" /\ L!HasTransaction(calls[p].tx) =>
                L!Live(calls[p].tx)
        /\ calls[p].fn = "recover" /\ calls[p].pc # "err" =>
                ~L!HasTransaction(calls[p].tx)

\* The journals rollback_all has in memory are committed on disk, too, but for
\* the one it is reversing.
TxsCommitted(p) ==
    cli[p] # None /\ cli[p].cmd = "apply" =>
        \A x \in cli[p].txs :
            \/ JournalIs(x, "committed")
            \/ cli[p].pc = "reverting" /\ calls[p] # None /\ calls[p].tx = x

\* The journal of x is reversed and its row is next.
RowIsNext(x) ==
    /\ L!HasTransaction(x)
    /\ \E p \in Procs : FT!At(p, "undo", "done") /\ calls[p].tx = x

\* A journal shows for good why an owner may not have its bytes.
Excused(t) ==
    \E x \in Txs :
        /\ journals[x] # None /\ journals[x].target = t
        /\ Unsettled(x) /\ ~RowIsNext(x) /\ \A p \in Procs : ~Opening(p, x)

\* What the target holds while a call is inside it.
CallHolds(p) ==
    calls[p] # None =>
        /\ calls[p].fn = "apply" /\ calls[p].pc \in {"read", "backed", "prepared"} =>
                files[calls[p].target] = calls[p].before
        /\ calls[p].fn = "apply" /\ calls[p].pc \in {"persisted", "done"} =>
                files[calls[p].target] = calls[p].after
        /\ calls[p].fn = "undo" /\ calls[p].pc \in {"checked", "unseen"} =>
                files[calls[p].target] = calls[p].after
        /\ calls[p].pc = "unseen" => calls[p].before = None
        /\ calls[p].fn = "undo" /\ calls[p].pc = "restored" =>
                files[calls[p].target] = calls[p].before
        /\ calls[p].fn = "undo" /\ calls[p].pc = "done" =>
                \/ files[calls[p].target] = calls[p].before
                \/ calls[p].before = None /\ files[calls[p].target] = calls[p].after

\* The transactions that may be restored.
Standing(t) ==
    {x \in Txs : /\ L!HasTransaction(x) /\ changes[x].target = t
                 /\ JournalIs(x, "committed") \/ RowIsNext(x)}

\* The owner's bytes, or those one of the transactions found and restored, or left.
\* x was rolled back, but over the content it had installed, which nobody could
\* read then.
LeftOver(x, t, content) ==
    /\ JournalIs(x, "rolled-back") /\ journals[x].target = t
    /\ journals[x].before = None /\ journals[x].after = content

Explained(t, content, owner, rows) ==
    \/ owner = None \/ content = owner.hash
    \/ \E x \in rows : journals[x].before = content
    \/ \E x \in Txs : LeftOver(x, t, content)

TargetExplained(t) ==
    /\ \/ \E p \in Procs : Applying(p) /\ calls[p].target = t
       \/ Explained(t, files[t], managed[t], Standing(t))
    /\ \A p \in Procs : Applying(p) /\ calls[p].target = t =>
            Explained(t, calls[p].before, managed[t], Standing(t))
    /\ \A x \in LiveOn(t) :
            Explained(t, journals[x].before, changes[x].before, {y \in Standing(t) : y < x})

OwnInv ==
    /\ Numbered /\ RowsAreUnique /\ Stack
    /\ \A p \in Procs : CallKnows(p) /\ TxsCommitted(p)
    /\ edits = 0 => /\ \A p \in Procs : CallHolds(p)
                    /\ \A t \in Targets : Excused(t) \/ TargetExplained(t)

LEMMA OnlyProcess ==
    ASSUME OneAtATime, NEW p \in Procs
    PROVE  /\ \A x : RowIsNext(x) <=>
                (L!HasTransaction(x) /\ FT!At(p, "undo", "done") /\ calls[p].tx = x)
           /\ \A x : RowIsNext(x)' <=>
                (L!HasTransaction(x) /\ FT!At(p, "undo", "done") /\ calls[p].tx = x)'
           /\ \A q \in Procs : q = p
BY DEF OneAtATime, RowIsNext

LEMMA OwnParts ==
    ASSUME OneAtATime, NEW p \in Procs, Numbered', RowsAreUnique', Stack',
           CallKnows(p)', TxsCommitted(p)',
           edits' = 0 => CallHolds(p)' /\ \A t \in Targets : Excused(t)' \/ TargetExplained(t)'
    PROVE  OwnInv'
BY OnlyProcess DEF OwnInv

\* Rows and owners.
LEMMA LedgerStays ==
    ASSUME OwnInv, UNCHANGED <<transactions, changes, managed>>
    PROVE  /\ RowsAreUnique' /\ Stack'
           /\ \A x : L!HasTransaction(x)' <=> L!HasTransaction(x)
           /\ \A x : L!Live(x)' <=> L!Live(x)
           /\ \A t : LiveOn(t)' = LiveOn(t)
BY DEF OwnInv, RowsAreUnique, Stack, TopIs, LiveOn, L!HasTransaction, L!Live

\* A journal without a row shows why its target is not as its owner says.
LEMMA NoRowIsUnsettled ==
    ASSUME MigrationInv, NEW x \in Txs, journals[x] # None, ~L!HasTransaction(x)
    PROVE  Unsettled(x)
<1>1. journals[x].status \in {"prepared", "committed", "rolled-back"}
  BY DEF MigrationInv, TypeOK, FT!TypeOK, FT!Journal
<1>2. transactions[x] # "rolled-back"
  BY NoneIsNoRecord DEF L!HasTransaction, L!TransactionStatus
<1> QED
  BY <1>1, <1>2 DEF Unsettled, AwaitsRecovery, JournalIs

\* What stands has a journal on its target.
LEMMA RowHasJournal ==
    ASSUME MigrationInv, NEW x \in Txs, L!HasTransaction(x)
    PROVE  /\ journals[x] # None /\ journals[x].target = changes[x].target
           /\ journals[x].after = changes[x].after.hash
           /\ journals[x].status # "prepared"
           /\ changes[x] \in L!Change /\ changes[x] # None
           /\ \A q \in Procs : ~Opening(q, x)
BY DEF MigrationInv, RowInv, Settled, TypeOK, L!TypeOK

LEMMA LiveHasRow ==
    ASSUME NEW x, L!Live(x)
    PROVE  L!HasTransaction(x)
BY NoneIsNoRecord DEF L!Live, L!HasTransaction, L!TransactionStatus

\* Reasons to excuse a target stay.
LEMMA ExcusedStays ==
    ASSUME NEW t, Excused(t), UNCHANGED transactions,
           \A x \in Txs :
                (/\ journals[x] # None /\ journals[x].target = t
                 /\ Unsettled(x) /\ ~RowIsNext(x) /\ \A q \in Procs : ~Opening(q, x))
                => /\ journals'[x] = journals[x]
                   /\ ~RowIsNext(x)' /\ \A q \in Procs : ~Opening(q, x)'
    PROVE  Excused(t)'
<1>1. PICK x \in Txs :
        /\ journals[x] # None /\ journals[x].target = t
        /\ Unsettled(x) /\ ~RowIsNext(x) /\ \A q \in Procs : ~Opening(q, x)
  BY DEF Excused
<1>2. Unsettled(x)'
  BY <1>1 DEF Unsettled, AwaitsRecovery, JournalIs, L!HasTransaction
<1> QED
  BY <1>1, <1>2 DEF Excused

LEMMA LeftStays ==
    ASSUME UNCHANGED journals
    PROVE  \A t, x, c : LeftOver(x, t, c)' <=> LeftOver(x, t, c)
BY DEF LeftOver, JournalIs

\* A target nobody writes stays explained.
LEMMA ExplainedStays ==
    ASSUME NEW t, TargetExplained(t), UNCHANGED <<transactions, changes, managed>>,
           Standing(t)' = Standing(t),
           \A x \in Txs : L!HasTransaction(x) => journals'[x].before = journals[x].before,
           \A x \in Txs : \A c : LeftOver(x, t, c) => LeftOver(x, t, c)',
           \/ \E q \in Procs : (Applying(q) /\ calls[q].target = t)'
           \/ /\ files'[t] = files[t]
              /\ \A q \in Procs : ~(Applying(q) /\ calls[q].target = t),
           \A q \in Procs : (Applying(q) /\ calls[q].target = t)' =>
                /\ Applying(q) /\ calls[q].target = t
                /\ calls'[q].before = calls[q].before
    PROVE  TargetExplained(t)'
<1>1. \A x \in Standing(t) : x \in Txs /\ journals'[x].before = journals[x].before
  BY DEF Standing
<1>2. LiveOn(t)' = LiveOn(t)
  BY DEF LiveOn, L!Live
<1>3. \A x \in LiveOn(t) : x \in Txs /\ journals'[x].before = journals[x].before
  BY LiveHasRow DEF LiveOn
<1>4. ASSUME NEW x \in LiveOn(t)
      PROVE  Explained(t, journals[x].before, changes[x].before, {y \in Standing(t) : y < x})'
  <2>1. Explained(t, journals[x].before, changes[x].before, {y \in Standing(t) : y < x})
    BY DEF TargetExplained
  <2> QED
    BY <1>1, <1>3, <2>1 DEF Explained
<1>5. ASSUME NEW q \in Procs, (Applying(q) /\ calls[q].target = t)'
      PROVE  Explained(t, calls[q].before, managed[t], Standing(t))'
  <2>1. Explained(t, calls[q].before, managed[t], Standing(t))
    BY <1>5 DEF TargetExplained
  <2> QED
    BY <1>1, <1>5, <2>1 DEF Explained
<1>6. \/ \E q \in Procs : (Applying(q) /\ calls[q].target = t)'
      \/ Explained(t, files[t], managed[t], Standing(t))'
  <2> SUFFICES ASSUME ~\E q \in Procs : (Applying(q) /\ calls[q].target = t)'
               PROVE  Explained(t, files[t], managed[t], Standing(t))'
    OBVIOUS
  <2>1. Explained(t, files[t], managed[t], Standing(t)) /\ files'[t] = files[t]
    BY DEF TargetExplained
  <2> QED
    BY <1>1, <2>1 DEF Explained
<1> QED
  BY <1>2, <1>4, <1>5, <1>6 DEF TargetExplained

LEMMA StandingStays ==
    ASSUME NEW t, UNCHANGED <<transactions, changes>>,
           \A x \in Txs : L!HasTransaction(x) =>
                ((JournalIs(x, "committed") \/ RowIsNext(x))' <=>
                 (JournalIs(x, "committed") \/ RowIsNext(x)))
    PROVE  Standing(t)' = Standing(t)
BY DEF Standing, L!HasTransaction

-----------------------------------------------------------------------------
(* Steps that write neither journals nor rows *)

\* The steps of commands that touch neither calls, files nor rows.
LEMMA OwnCommands ==
    ASSUME OwnInv,
           UNCHANGED <<files, journals, calls, edits, transactions, changes, managed>>,
           \A x \in Txs : Begun(x) => Begun(x)', \A p \in Procs : TxsCommitted(p)'
    PROVE  OwnInv'
<1>1. RowsAreUnique' /\ Stack'
  BY LedgerStays
<1>2. Numbered' /\ \A p \in Procs : CallKnows(p)' /\ (edits' = 0 => CallHolds(p)')
  BY DEF OwnInv, Numbered, Opening, Applying, CallKnows, CallHolds, JournalIs,
     L!HasTransaction, L!Live
<1>3. ASSUME edits' = 0, NEW t \in Targets PROVE Excused(t)' \/ TargetExplained(t)'
  <2>1. Excused(t) => Excused(t)'
    BY DEF Excused, Unsettled, AwaitsRecovery, JournalIs, RowIsNext, L!HasTransaction,
       FT!At, Opening, Applying
  <2>2. TargetExplained(t) => TargetExplained(t)'
    BY LeftStays DEF TargetExplained, Explained, Standing, LiveOn, L!Live, Applying, RowIsNext,
       L!HasTransaction, FT!At, JournalIs
  <2> QED
    BY <1>3, <2>1, <2>2 DEF OwnInv
<1> QED
  BY <1>1, <1>2, <1>3 DEF OwnInv

\* A call ends, with its result taken or lost, or with an error.
LEMMA OwnEnds ==
    ASSUME MigrationInv, OwnInv, OneAtATime, NEW p \in Procs,
           UNCHANGED <<files, journals, backups, edits, transactions, changes, managed>>,
           calls'[p] = None \/ calls'[p].pc = "err",
           TxsCommitted(p)'
    PROVE  OwnInv'
<1>1. RowsAreUnique' /\ Stack'
  BY LedgerStays
<1>2. \A x : ~Opening(p, x)' /\ ~RowIsNext(x)'
  BY OnlyProcess DEF Opening, Applying, FT!At
<1>3. Numbered' /\ CallKnows(p)' /\ CallHolds(p)'
  BY <1>2, OnlyProcess DEF OwnInv, Numbered, Begun, CallKnows, CallHolds
<1>4. ASSUME edits' = 0, NEW t \in Targets PROVE Excused(t)' \/ TargetExplained(t)'
  <2>1. CASE Excused(t)
    BY <1>2, <2>1, ExcusedStays, OnlyProcess
  <2>2. ASSUME NEW x \in Txs, journals[x] # None, journals[x].target = t, Unsettled(x)
        PROVE  Excused(t)'
    <3>1. Unsettled(x)'
      BY <2>2 DEF Unsettled, AwaitsRecovery, JournalIs, L!HasTransaction
    <3> QED
      BY <1>2, <2>2, <3>1, OnlyProcess DEF Excused
  <2>3. ASSUME NEW x \in Txs, RowIsNext(x), changes[x].target = t PROVE Excused(t)'
    <3>1. calls[p].fn = "undo" /\ calls[p].pc = "done" /\ calls[p].tx = x /\ calls[p] # None
          /\ L!HasTransaction(x)
      BY <2>3, OnlyProcess DEF FT!At
    <3>2. JournalIs(x, "rolled-back")
      BY <3>1 DEF MigrationInv, CommandInv, Reversing
    <3>3. L!Live(x)
      BY <3>1 DEF OwnInv, CallKnows
    <3>4. Unsettled(x)
      BY <3>2, <3>3 DEF Unsettled, L!Live
    <3> QED
      BY <2>2, <2>3, <3>1, <3>4, RowHasJournal
  <2>4. CASE Applying(p) /\ calls[p].target = t /\ calls[p].pc \notin FT!Unjournaled
    <3>1. FT!Journaled(p) /\ ~L!HasTransaction(calls[p].tx)
      BY <2>4 DEF MigrationInv, CommandInv, ApplyingAlone
    <3> QED
      BY <2>2, <2>4, <3>1, NoRowIsUnsettled DEF FT!Journaled
  <2>5. CASE /\ TargetExplained(t)
             /\ ~\E x \in Txs : RowIsNext(x) /\ changes[x].target = t
             /\ Applying(p) /\ calls[p].target = t => calls[p].pc \in FT!Unjournaled
    <3>1. Explained(t, files[t], managed[t], Standing(t))
      <4>1. CASE Applying(p) /\ calls[p].target = t
        <5>1. files[t] = calls[p].before
          BY <1>4, <2>5, <4>1 DEF OwnInv, CallHolds, FT!Unjournaled, Applying
        <5> QED
          BY <2>5, <4>1, <5>1 DEF TargetExplained
      <4>2. CASE ~(Applying(p) /\ calls[p].target = t)
        BY <2>5, <4>2, OnlyProcess DEF TargetExplained
      <4> QED
        BY <4>1, <4>2
    <3>2. Standing(t)' = Standing(t) /\ LiveOn(t)' = LiveOn(t)
      BY <1>2, <2>5 DEF Standing, LiveOn, L!HasTransaction, L!Live, JournalIs
    <3> QED
      BY <1>2, <2>5, <3>1, <3>2, OnlyProcess, LeftStays DEF TargetExplained, Explained, Applying
  <2> QED
    BY <1>4, <2>1, <2>3, <2>4, <2>5 DEF OwnInv
<1> QED
  BY <1>1, <1>3, <1>4, OwnParts

\* The process is in no call, so no call has anything to say.
LEMMA NoCall ==
    ASSUME OneAtATime, NEW p \in Procs, calls[p] = None
    PROVE  /\ \A x : ~RowIsNext(x)
           /\ \A q \in Procs : ~Applying(q) /\ \A x : ~Opening(q, x)
           /\ \A x \in Txs : FT!Fresh(x) <=> ~Begun(x)
BY OnlyProcess DEF Opening, Applying, FT!At, FT!Fresh, Begun

\* An undo or a recovery of a transaction that allows it.
LEMMA OwnLoads ==
    ASSUME MigrationInv, OwnInv, OneAtATime, NEW p \in Procs, calls[p] = None,
           UNCHANGED <<files, journals, backups, edits, transactions, changes, managed>>,
           NEW x \in Txs, calls'[p] # None, calls'[p].tx = x,
           \/ /\ calls'[p].fn = "undo" /\ calls'[p].pc = "checked" /\ JournalIs(x, "committed")
              /\ files[calls'[p].target] = calls'[p].after
           \/ calls'[p].fn = "recover" /\ calls'[p].pc = "loaded" /\ ~L!HasTransaction(x),
           TxsCommitted(p)'
    PROVE  OwnInv'
<1>1. /\ RowsAreUnique' /\ Stack'
      /\ \A y : L!HasTransaction(y)' <=> L!HasTransaction(y)
      /\ \A y : L!Live(y)' <=> L!Live(y)
  BY LedgerStays
<1>2. /\ \A y : ~RowIsNext(y)'
      /\ \A q \in Procs : ~Applying(q)' /\ \A y : ~Opening(q, y)'
  BY OnlyProcess DEF Opening, Applying, FT!At
<1>3. Numbered' /\ CallHolds(p)'
  BY <1>2, OnlyProcess DEF OwnInv, Numbered, Begun, CallHolds
<1>4. CallKnows(p)'
  <2>1. JournalIs(x, "committed") /\ L!HasTransaction(x) => L!Live(x)
    BY DEF MigrationInv, RowInv, JournalIs, L!HasTransaction, L!Live, TypeOK, L!TypeOK,
       L!TransactionStatus
  <2> QED
    BY <1>1, <2>1 DEF CallKnows, JournalIs
<1>5. ASSUME edits' = 0, NEW t \in Targets PROVE Excused(t)' \/ TargetExplained(t)'
  <2>1. CASE Excused(t)
    BY <1>2, <2>1, ExcusedStays
  <2>2. CASE TargetExplained(t)
    <3>1. Standing(t)' = Standing(t)
      BY <1>2, NoCall, StandingStays DEF JournalIs
    <3> QED
      BY <1>2, <2>2, <3>1, NoCall, ExplainedStays, LeftStays
  <2> QED
    BY <1>5, <2>1, <2>2 DEF OwnInv
<1> QED
  BY <1>1, <1>3, <1>4, <1>5, OwnParts

\* A call of apply_file reads its target.
LEMMA OwnReads ==
    ASSUME MigrationInv, OwnInv, OneAtATime, NEW p \in Procs, calls[p] = None,
           UNCHANGED <<files, journals, backups, edits, transactions, changes, managed>>,
           NEW x \in Txs, NextTx(x), calls'[p] # None, calls'[p].tx = x,
           calls'[p].fn = "apply", calls'[p].pc = "read",
           calls'[p].before = files[calls'[p].target],
           TxsCommitted(p)'
    PROVE  OwnInv'
<1>1. /\ RowsAreUnique' /\ Stack'
      /\ \A y : L!HasTransaction(y)' <=> L!HasTransaction(y)
  BY LedgerStays
<1>2. /\ \A y : ~RowIsNext(y)'
      /\ \A q \in Procs, y \in Txs : Opening(q, y)' => y = x
  BY OnlyProcess DEF Opening, Applying, FT!At
<1>3. ~Begun(x) /\ \A y \in Txs : y < x => Begun(y)
  BY NoCall DEF NextTx
<1>4. Numbered'
  <2>1. \A y \in Txs : journals[y] # None => y <= x
    <3> SUFFICES ASSUME NEW y \in Txs, journals[y] # None, x < y PROVE FALSE
      BY TxsAreNumbered
    <3> QED
      BY <1>3 DEF OwnInv, Numbered
  <2> QED
    BY <1>2, <1>3, <2>1 DEF OwnInv, Numbered, Begun
<1>5. CallKnows(p)' /\ CallHolds(p)'
  BY DEF CallKnows, CallHolds
<1>6. ASSUME edits' = 0, NEW t \in Targets PROVE Excused(t)' \/ TargetExplained(t)'
  <2>1. CASE Excused(t)
    BY <1>2, <1>3, <2>1, ExcusedStays DEF Begun
  <2>2. CASE TargetExplained(t)
    <3>1. Standing(t)' = Standing(t) /\ LiveOn(t)' = LiveOn(t)
      BY <1>2, NoCall DEF Standing, LiveOn, L!HasTransaction, L!Live, JournalIs
    <3>2. Explained(t, files[t], managed[t], Standing(t))
      BY <2>2, NoCall DEF TargetExplained
    <3> QED
      BY <2>2, <3>1, <3>2, OnlyProcess, LeftStays DEF TargetExplained, Explained
  <2> QED
    BY <1>6, <2>1, <2>2 DEF OwnInv
<1> QED
  BY <1>1, <1>4, <1>5, <1>6, OwnParts

-----------------------------------------------------------------------------
(* Steps inside a store call *)

\* A step to another checkpoint that writes at most the backup of a new
\* transaction or the target.
LEMMA OwnMoves ==
    ASSUME MigrationInv, OwnInv, OneAtATime, NEW p \in Procs, calls[p] # None,
           UNCHANGED <<journals, edits, transactions, changes, managed, cli>>,
           NEW pc \in FT!ApplyPC \union FT!RestorePC, FT!Goto(p, pc),
           \/ /\ calls[p].fn = "apply" /\ calls[p].pc = "read" /\ pc = "backed"
              /\ UNCHANGED files
              /\ \A y \in Txs \ {calls[p].tx} : backups'[y] = backups[y]
           \/ /\ calls[p].fn = "apply" /\ calls[p].pc = "prepared" /\ pc = "persisted"
              /\ files' = [files EXCEPT ![calls[p].target] = calls[p].after]
              /\ UNCHANGED backups
           \/ /\ calls[p].fn = "recover" /\ calls[p].pc = "loaded"
              /\ pc \in {"checked", "restored"}
              /\ UNCHANGED <<files, backups>>
           \/ /\ calls[p].fn # "apply" /\ calls[p].before = None
              /\ calls[p].pc \in {"loaded", "checked"} /\ pc = "unseen"
              /\ calls[p].fn = "undo" => calls[p].pc = "checked"
              /\ UNCHANGED <<files, backups>>
    PROVE  OwnInv'
<1> USE DEF FT!ApplyPC, FT!RestorePC, FT!ResultPC
<1>1. /\ RowsAreUnique' /\ Stack'
      /\ \A y : L!HasTransaction(y)' <=> L!HasTransaction(y)
      /\ \A y : L!Live(y)' <=> L!Live(y)
  BY LedgerStays
<1>2. /\ TypeOK /\ calls'[p] # None /\ calls'[p].pc = pc
      /\ calls'[p].fn = calls[p].fn /\ calls'[p].tx = calls[p].tx
      /\ calls'[p].target = calls[p].target /\ calls'[p].before = calls[p].before
      /\ calls'[p].after = calls[p].after
  BY GotoCall DEF MigrationInv, TypeOK
<1>3. /\ \A y : ~RowIsNext(y) /\ ~RowIsNext(y)'
      /\ \A q \in Procs : Applying(q)' <=> Applying(q)
      /\ \A q \in Procs, y \in Txs : Opening(q, y)' <=> Opening(q, y)
  BY <1>2, OnlyProcess DEF Opening, Applying, FT!At
<1>4. Numbered'
  <2>1. CASE calls[p].fn = "apply" /\ calls[p].pc = "read"
    <3>1. Opening(p, calls[p].tx) /\ calls[p].tx \in Txs
      BY <2>1 DEF Opening, Applying, MigrationInv, CommandInv, ApplyingAlone
    <3>2. \A y \in Txs : y # calls[p].tx /\ Begun(y) => Begun(y)'
      BY <2>1 DEF Begun
    <3>3. \A x, y \in Txs : x < y /\ journals[y] # None => x # calls[p].tx
      BY <3>1, TxsAreNumbered DEF OwnInv, Numbered
    <3>4. \A y \in Txs : y < calls[p].tx => y # calls[p].tx
      BY <3>1, TxsAreNumbered
    <3> QED
      BY <1>3, <3>1, <3>2, <3>3, <3>4, OnlyProcess DEF OwnInv, Numbered, Opening
  <2>2. CASE UNCHANGED backups
    BY <1>3, <2>2 DEF OwnInv, Numbered, Begun
  <2> QED
    BY <2>1, <2>2
<1>5. CallKnows(p)' /\ TxsCommitted(p)'
  BY <1>1, <1>2 DEF OwnInv, CallKnows, TxsCommitted, JournalIs
<1>6. ASSUME edits' = 0 PROVE CallHolds(p)'
  <2>1. CallHolds(p)
    BY <1>6 DEF OwnInv
  <2>2. calls[p].target \in Targets
    BY <1>2 DEF TypeOK, FT!TypeOK, FT!Call
  <2> QED
    BY <1>2, <2>1, <2>2 DEF CallHolds, TypeOK, FT!TypeOK
<1>7. ASSUME edits' = 0, NEW t \in Targets PROVE Excused(t)' \/ TargetExplained(t)'
  <2>1. CASE Excused(t)
    BY <1>3, <2>1, ExcusedStays DEF Opening
  <2>2. CASE TargetExplained(t)
    <3>1. Standing(t)' = Standing(t)
      BY <1>3, StandingStays DEF JournalIs
    <3>2. LiveOn(t)' = LiveOn(t)
      BY DEF LiveOn, L!Live
    <3>3. files'[t] = files[t] \/ (Applying(p) /\ calls[p].target = t)
      BY <1>2 DEF Applying, TypeOK, FT!TypeOK
    <3> QED
      BY <1>2, <1>3, <2>2, <3>1, <3>2, <3>3, OnlyProcess, LeftStays DEF TargetExplained, Explained
  <2> QED
    BY <1>7, <2>1, <2>2 DEF OwnInv
<1> QED
  BY <1>1, <1>4, <1>5, <1>6, <1>7, OwnParts

\* A target is restored.
LEMMA OwnRestores ==
    ASSUME MigrationInv, OwnInv, OneAtATime, NEW p \in Procs, calls[p] # None,
           UNCHANGED <<journals, backups, edits, transactions, changes, managed, cli>>,
           calls[p].fn # "apply", calls[p].pc = "checked", FT!Goto(p, "restored"),
           files' = [files EXCEPT ![calls[p].target] = calls[p].before]
    PROVE  OwnInv'
<1> USE DEF FT!ApplyPC, FT!RestorePC, FT!ResultPC
<1>1. /\ RowsAreUnique' /\ Stack'
      /\ \A y : L!HasTransaction(y)' <=> L!HasTransaction(y)
      /\ \A y : L!Live(y)' <=> L!Live(y)
  BY LedgerStays
<1>2. /\ TypeOK /\ calls'[p] # None /\ calls'[p].pc = "restored"
      /\ calls'[p].fn = calls[p].fn /\ calls'[p].tx = calls[p].tx
      /\ calls'[p].target = calls[p].target /\ calls'[p].before = calls[p].before
      /\ calls'[p].after = calls[p].after
  BY GotoCall DEF MigrationInv, TypeOK
<1>3. /\ \A y : ~RowIsNext(y) /\ ~RowIsNext(y)'
      /\ \A q \in Procs : ~Applying(q) /\ ~Applying(q)'
      /\ \A q \in Procs, y \in Txs : ~Opening(q, y) /\ ~Opening(q, y)'
  BY <1>2, OnlyProcess DEF Opening, Applying, FT!At
<1>4. Numbered'
  BY <1>3 DEF OwnInv, Numbered, Begun
<1>5. CallKnows(p)' /\ TxsCommitted(p)'
  BY <1>1, <1>2 DEF OwnInv, CallKnows, TxsCommitted, JournalIs
<1>6. FT!Journaled(p) /\ calls[p].target \in Targets /\ calls[p].fn \in {"undo", "recover"}
  BY <1>2 DEF MigrationInv, CommandInv, Reversing, TypeOK, FT!TypeOK, FT!Call
<1>7. CallHolds(p)'
  BY <1>2, <1>6 DEF CallHolds, TypeOK, FT!TypeOK
<1>8. ASSUME edits' = 0, NEW t \in Targets PROVE Excused(t)' \/ TargetExplained(t)'
  <2>1. CASE Excused(t)
    BY <1>3, <2>1, ExcusedStays
  <2>2. CASE ~L!HasTransaction(calls[p].tx) /\ calls[p].target = t
    <3>1. Excused(t)
      BY <1>3, <1>6, <2>2, NoRowIsUnsettled DEF FT!Journaled, Excused
    <3> QED
      BY <1>3, <3>1, ExcusedStays
  <2>3. CASE TargetExplained(t) /\ (L!HasTransaction(calls[p].tx) \/ calls[p].target # t)
    <3>1. Standing(t)' = Standing(t)
      BY <1>3, StandingStays DEF JournalIs
    <3>2. LiveOn(t)' = LiveOn(t)
      BY DEF LiveOn, L!Live
    <3>3. Explained(t, files'[t], managed[t], Standing(t))
      <4>1. CASE calls[p].target = t
        <5>1. calls[p].fn = "undo"
          BY <1>6, <2>3, <4>1 DEF OwnInv, CallKnows
        <5>2. calls[p].tx \in Standing(t) /\ journals[calls[p].tx].before = calls[p].before
          BY <1>6, <2>3, <4>1, <5>1, RowHasJournal
             DEF OwnInv, CallKnows, Standing, FT!Journaled
        <5>3. files'[t] = calls[p].before
          BY <1>2, <4>1 DEF TypeOK, FT!TypeOK
        <5> QED
          BY <5>2, <5>3 DEF Explained
      <4>2. CASE calls[p].target # t
        <5>1. files'[t] = files[t]
          BY <1>2, <4>2 DEF TypeOK, FT!TypeOK
        <5> QED
          BY <1>3, <2>3, <5>1 DEF TargetExplained
      <4> QED
        BY <4>1, <4>2
    <3> QED
      BY <1>3, <2>3, <3>1, <3>2, <3>3, LeftStays DEF TargetExplained, Explained
  <2> QED
    BY <1>8, <2>1, <2>2, <2>3 DEF OwnInv
<1> QED
  BY <1>1, <1>4, <1>5, <1>7, <1>8, OwnParts

\* apply_file writes the journal of its transaction.
LEMMA OwnWrites ==
    ASSUME MigrationInv, OwnInv, OneAtATime, NEW p \in Procs, calls[p] # None,
           UNCHANGED <<files, backups, edits, transactions, changes, managed, cli>>,
           calls[p].fn = "apply", NEW x, x = calls[p].tx,
           NEW status, NEW pc,
           \/ calls[p].pc = "backed" /\ status = "prepared" /\ pc = "prepared"
           \/ calls[p].pc = "persisted" /\ status = "committed" /\ pc = "done",
           journals' = [journals EXCEPT ![x] = FT!JournalOf(p, status)], FT!Goto(p, pc)
    PROVE  OwnInv'
<1> USE DEF FT!ApplyPC, FT!RestorePC, FT!ResultPC
<1>1. /\ RowsAreUnique' /\ Stack'
      /\ \A y : L!HasTransaction(y)' <=> L!HasTransaction(y)
      /\ \A y : L!Live(y)' <=> L!Live(y)
  BY LedgerStays
<1>2. /\ TypeOK /\ calls'[p] # None /\ calls'[p].pc = pc
      /\ calls'[p].fn = calls[p].fn /\ calls'[p].tx = x
      /\ calls'[p].target = calls[p].target /\ calls'[p].before = calls[p].before
      /\ calls'[p].after = calls[p].after
  BY GotoCall DEF MigrationInv, TypeOK
<1>3. /\ \A y : ~RowIsNext(y) /\ ~RowIsNext(y)'
      /\ \A q \in Procs : Applying(q) /\ Applying(q)'
      /\ \A q \in Procs, y \in Txs :
            (Opening(q, y) <=> y = x) /\ (Opening(q, y)' <=> y = x)
  BY <1>2, OnlyProcess DEF Opening, Applying, FT!At
<1>4. x \in Txs /\ ~L!HasTransaction(x)
  BY <1>3 DEF MigrationInv, CommandInv, ApplyingAlone
<1>5. /\ journals'[x] # None /\ journals'[x].status = status
      /\ \A y \in Txs \ {x} : journals'[y] = journals[y]
  <2>1. FT!JournalOf(p, status) \in FT!Journal
    BY <1>2 DEF TypeOK, FT!TypeOK, FT!JournalOf, FT!Journal, FT!Call
  <2> QED
    BY <1>2, <1>4, <2>1, NoneIsNoRecord DEF TypeOK, FT!TypeOK, FT!JournalOf
<1>6. Numbered'
  <2>1. \A y \in Txs : Begun(y) => Begun(y)'
    BY <1>5 DEF Begun
  <2>2. x <= x
    BY <1>4, TxsAreNumbered
  <2> QED
    BY <1>3, <1>4, <1>5, <2>1, <2>2 DEF OwnInv, Numbered
<1>7. CallKnows(p)' /\ CallHolds(p)' = CallHolds(p)
  BY <1>2, <1>5 DEF CallKnows, CallHolds, JournalIs
<1>8. TxsCommitted(p)'
  <2>1. \A y \in cli[p].txs : cli[p] # None => y \in Txs /\ y # x
    BY <1>2, <1>3, <1>4 DEF MigrationInv, CommandInv, Settled, TypeOK, Command
  <2> QED
    BY <1>2, <1>5, <2>1 DEF OwnInv, TxsCommitted, JournalIs
<1>9. ASSUME edits' = 0, NEW t \in Targets PROVE Excused(t)' \/ TargetExplained(t)'
  <2>1. CASE Excused(t)
    BY <1>3, <1>5, <2>1, ExcusedStays
  <2>2. CASE TargetExplained(t)
    <3>1. Standing(t)' = Standing(t)
      BY <1>3, <1>4, <1>5, StandingStays DEF JournalIs
    <3>2. \A y \in Txs : L!HasTransaction(y) => journals'[y].before = journals[y].before
      BY <1>4, <1>5
    <3>3. ~JournalIs(x, "rolled-back")
      <4>1. CASE calls[p].pc = "backed"
        BY <1>3, <4>1 DEF MigrationInv, CommandInv, ApplyingAlone, FT!Unjournaled, JournalIs
      <4>2. CASE calls[p].pc = "persisted"
        BY <4>2 DEF OwnInv, CallKnows, JournalIs
      <4> QED
        BY <4>1, <4>2
    <3>4. \A y \in Txs : \A c : LeftOver(y, t, c) => LeftOver(y, t, c)'
      BY <1>5, <3>3 DEF LeftOver, JournalIs
    <3> QED
      BY <1>2, <1>3, <2>2, <3>1, <3>2, <3>4, OnlyProcess, ExplainedStays
  <2> QED
    BY <1>9, <2>1, <2>2 DEF OwnInv
<1> QED
  BY <1>1, <1>6, <1>7, <1>8, <1>9, OwnParts DEF OwnInv

\* The journal of a restored target is closed.
LEMMA OwnSaves ==
    ASSUME MigrationInv, OwnInv, OneAtATime, NEW p \in Procs, calls[p] # None,
           UNCHANGED <<files, backups, edits, transactions, changes, managed, cli>>,
           calls[p].fn # "apply", calls[p].pc \in {"restored", "unseen"},
           NEW x, x = calls[p].tx,
           journals' = [journals EXCEPT ![x] = FT!JournalOf(p, "rolled-back")],
           FT!Goto(p, "done")
    PROVE  OwnInv'
<1> USE DEF FT!ApplyPC, FT!RestorePC, FT!ResultPC
<1>1. /\ RowsAreUnique' /\ Stack'
      /\ \A y : L!HasTransaction(y)' <=> L!HasTransaction(y)
      /\ \A y : L!Live(y)' <=> L!Live(y)
  BY LedgerStays
<1>2. /\ TypeOK /\ calls'[p] # None /\ calls'[p].pc = "done"
      /\ calls'[p].fn = calls[p].fn /\ calls'[p].tx = x
      /\ calls'[p].target = calls[p].target /\ calls'[p].before = calls[p].before
      /\ calls'[p].after = calls[p].after
  BY GotoCall DEF MigrationInv, TypeOK
<1>3. /\ \A y : ~RowIsNext(y)
      /\ \A y : RowIsNext(y)' <=> L!HasTransaction(y) /\ calls[p].fn = "undo" /\ y = x
      /\ \A q \in Procs : ~Applying(q) /\ ~Applying(q)'
      /\ \A q \in Procs, y \in Txs : ~Opening(q, y) /\ ~Opening(q, y)'
  BY <1>1, <1>2, OnlyProcess DEF Opening, Applying, FT!At
<1>4. /\ FT!Journaled(p) /\ x \in Txs /\ journals[x] # None
      /\ journals[x].target = calls[p].target /\ journals[x].before = calls[p].before
      /\ journals[x].after = calls[p].after
      /\ calls[p].fn \in {"undo", "recover"}
  BY <1>2 DEF MigrationInv, CommandInv, Reversing, FT!Journaled, TypeOK, FT!TypeOK, FT!Call
<1>5. /\ journals'[x] # None /\ JournalIs(x, "rolled-back")'
      /\ journals'[x].target = journals[x].target
      /\ journals'[x].before = journals[x].before
      /\ journals'[x].after = journals[x].after
      /\ \A y \in Txs \ {x} : journals'[y] = journals[y]
  <2>1. FT!JournalOf(p, "rolled-back") \in FT!Journal
    BY <1>2 DEF TypeOK, FT!TypeOK, FT!JournalOf, FT!Journal, FT!Call
  <2> QED
    BY <1>2, <1>4, <2>1, NoneIsNoRecord DEF TypeOK, FT!TypeOK, FT!JournalOf, JournalIs
<1>6. Numbered'
  BY <1>3, <1>4, <1>5 DEF OwnInv, Numbered, Begun
<1>7. /\ L!HasTransaction(x) =>
            calls[p].fn = "undo" /\ JournalIs(x, "committed") /\ L!Live(x)
  BY <1>4 DEF OwnInv, CallKnows
<1>8. CallKnows(p)'
  BY <1>1, <1>2, <1>4, <1>7 DEF CallKnows
<1>9. edits = 0 => CallHolds(p)'
  BY <1>2, <1>4 DEF OwnInv, CallHolds
<1>10. TxsCommitted(p)'
  <2>1. cli[p] # None /\ cli[p].cmd = "apply" => cli[p].pc = "reverting"
    BY <1>4 DEF MigrationInv, CommandInv, CallOf, Runs
  <2>2. \A y \in cli[p].txs : cli[p] # None => y \in Txs
    BY <1>2 DEF TypeOK, Command
  <2> QED
    BY <1>2, <1>5, <2>1, <2>2 DEF OwnInv, TxsCommitted, JournalIs
<1>11. ASSUME edits' = 0, NEW t \in Targets PROVE Excused(t)' \/ TargetExplained(t)'
  <2>1. CASE ~L!HasTransaction(x) /\ journals[x].target = t
    <3>1. Unsettled(x)'
      BY <1>1, <1>5, <2>1, NoneIsNoRecord
         DEF Unsettled, L!HasTransaction, L!TransactionStatus
    <3> QED
      BY <1>3, <1>4, <1>5, <2>1, <3>1 DEF Excused
  <2>2. CASE Excused(t) /\ (L!HasTransaction(x) \/ journals[x].target # t)
    <3>1. journals[x].target = t => ~Unsettled(x)
      BY <1>7, <2>2 DEF Unsettled, AwaitsRecovery, JournalIs
    <3> QED
      BY <1>3, <1>5, <2>2, <3>1, ExcusedStays
  <2>3. CASE TargetExplained(t) /\ (L!HasTransaction(x) \/ journals[x].target # t)
    <3>1. Standing(t)' = Standing(t)
      BY <1>3, <1>5, <1>7, StandingStays DEF JournalIs
    <3>2. \A y \in Txs : L!HasTransaction(y) => journals'[y].before = journals[y].before
      BY <1>5
    <3>3. \A y \in Txs : \A c : LeftOver(y, t, c) => LeftOver(y, t, c)'
      BY <1>4, <1>5 DEF LeftOver, JournalIs
    <3> QED
      BY <1>3, <2>3, <3>1, <3>2, <3>3, ExplainedStays
  <2> QED
    BY <1>11, <2>1, <2>2, <2>3 DEF OwnInv
<1> QED
  BY <1>1, <1>6, <1>8, <1>9, <1>10, <1>11, OwnParts

-----------------------------------------------------------------------------
(* Rows of one command at a time *)

\* A target outside the store calls.
LEMMA QuietTargets ==
    ASSUME NEW t \in Targets, \A q \in Procs : ~Applying(q)',
           Explained(t, files[t], managed[t], Standing(t))',
           \A x \in LiveOn(t)' :
              Explained(t, journals[x].before, changes[x].before, {y \in Standing(t) : y < x})'
    PROVE  TargetExplained(t)'
BY DEF TargetExplained

\* A committed transaction is recorded: it is the newest, and its target's owner.
LEMMA OwnRecords ==
    ASSUME MigrationInv, OwnInv, OneAtATime, NEW p \in Procs, FT!Return(p),
           Runs(p, "apply", "call"), CallIs(p, "done"), RecordCall(p),
           NEW x, x = calls[p].tx, NEW o, o = cli[p].op,
           NEW at, at = calls[p].target, NEW h, h = calls[p].after,
           cli'[p] # None, cli'[p].txs = cli[p].txs \union {x}
    PROVE  OwnInv'
<1> DEFINE own == [owner |-> o, hash |-> h]
           row == [op |-> o, target |-> at, before |-> managed[at], after |-> own]
<1>1. /\ TypeOK /\ UNCHANGED <<files, journals, backups, edits>>
      /\ calls[p] # None /\ calls'[p] = None
      /\ calls[p].fn = "apply" /\ calls[p].pc = "done"
      /\ cli[p] # None /\ cli[p] \in Command
  BY DEF MigrationInv, CommandInv, CallOf, Runs, CallIs, FT!Idle, FT!Return, FT!fileVars,
     FT!envVars, TypeOK, FT!TypeOK
<1>2. /\ \A y : ~RowIsNext(y) /\ ~RowIsNext(y)'
      /\ \A q \in Procs : q = p /\ Applying(q) /\ ~Applying(q)'
      /\ \A q \in Procs : \A y : ~Opening(q, y)' /\ (Opening(q, y) <=> y = x)
  BY <1>1, OnlyProcess DEF Opening, Applying, FT!At
<1>3. /\ x \in Txs /\ ~L!HasTransaction(x) /\ FT!Journaled(p)
      /\ JournalIs(x, "committed")
  BY <1>1, TxSettles DEF OwnInv, CallKnows
<1>4. /\ o \in Ops /\ at \in Targets /\ h \in PlanBytes
      /\ journals[x] # None /\ journals[x].target = at
      /\ journals[x].before = calls[p].before
  BY <1>1, <1>3 DEF TypeOK, FT!TypeOK, FT!Call, Command, Runs, FT!Journaled
<1>5. row \in L!Change /\ own \in L!Owner /\ row # None /\ own # None
  <2>1. own \in L!Owner
    BY <1>4 DEF L!Owner
  <2>2. row \in L!Change
    BY <1>1, <1>4, <2>1 DEF L!Change, TypeOK, L!TypeOK
  <2> QED
    BY <2>1, <2>2, NoneIsNoRecord
<1>6. /\ transactions' = [transactions EXCEPT ![x] = "committed"]
      /\ changes' = [changes EXCEPT ![x] = row]
      /\ managed' = [managed EXCEPT ![at] = own]
      /\ \A y \in L!TransactionsOf(o) : changes[y].target # at
  BY DEF RecordCall, L!RecordTransactionWithManagedObject, L!SetStatus, L!Upsert
<1>7. row.op = o /\ row.target = at /\ row.before = managed[at] /\ row.after = own
      /\ own.owner = o /\ own.hash = h
  OBVIOUS
<1> HIDE DEF own, row
<1>8. /\ transactions'[x] = "committed" /\ changes'[x] = row /\ managed'[at] = own
      /\ \A y \in Txs \ {x} : transactions'[y] = transactions[y] /\ changes'[y] = changes[y]
      /\ \A t \in Targets \ {at} : managed'[t] = managed[t]
  BY <1>1, <1>3, <1>4, <1>6 DEF TypeOK, L!TypeOK
<1>9. /\ \A y \in Txs : L!HasTransaction(y)' <=> L!HasTransaction(y) \/ y = x
      /\ \A y \in Txs : L!Live(y)' <=> L!Live(y) \/ y = x
      /\ ~L!Live(x)
  BY <1>3, <1>8, NoneIsNoRecord DEF L!HasTransaction, L!Live, L!TransactionStatus
<1>10. \A y \in Txs : L!HasTransaction(y) => y # x /\ y < x
  <2> SUFFICES ASSUME NEW y \in Txs, L!HasTransaction(y) PROVE y < x
    BY <1>3
  <2>1. journals[y] # None
    BY RowHasJournal
  <2>2. y <= x
    BY <1>2, <1>3, <2>1 DEF OwnInv, Numbered
  <2> QED
    BY <1>3, <2>2, TxsAreNumbered
<1>ages. /\ x <= x /\ ~(x < x)
          /\ \A y \in Txs : y < x => y <= x /\ ~(x < y)
  BY <1>3, TxsAreNumbered
<1>11. /\ \A t \in Targets : LiveOn(t) \subseteq Txs \ {x} /\ \A y \in LiveOn(t) : y < x
       /\ \A t \in Targets \ {at} : LiveOn(t)' = LiveOn(t)
       /\ LiveOn(at)' = LiveOn(at) \union {x}
  <2>1. \A t : \A y \in LiveOn(t) : y \in Txs \ {x} /\ y < x
    BY <1>10, LiveHasRow DEF LiveOn
  <2> QED
    BY <1>3, <1>7, <1>8, <1>9, <2>1 DEF LiveOn
<1>12. Numbered' /\ CallKnows(p)' /\ CallHolds(p)'
  BY <1>1, <1>2 DEF OwnInv, Numbered, Begun, CallKnows, CallHolds
<1>13. TxsCommitted(p)'
  BY <1>1, <1>3 DEF OwnInv, TxsCommitted, JournalIs, Runs
<1>14. RowsAreUnique'
  <2>1. ASSUME NEW y \in Txs, L!HasTransaction(y)
        PROVE  ~(changes[y].op = o /\ changes[y].target = at)
    <3>1. changes[y] # None
      BY <2>1 DEF MigrationInv, RowInv
    <3> QED
      BY <1>6, <3>1 DEF L!TransactionsOf
  <2> QED
    BY <1>7, <1>8, <1>9, <1>10, <2>1 DEF OwnInv, RowsAreUnique
<1>15. Stack'
  <2>1. ASSUME NEW t \in Targets, NEW y \in LiveOn(t)
        PROVE  TopIs({z \in LiveOn(t) : z < y}, changes[y].before)'
    <3>1. TopIs({z \in LiveOn(t) : z < y}, changes[y].before)
      BY DEF OwnInv, Stack
    <3>2. TopIs({z \in LiveOn(t) : z < y}, changes[y].before)
          /\ \A z \in {z \in LiveOn(t) : z < y} : changes'[z].after = changes[z].after
      BY <1>8, <1>11, <3>1
    <3>3. {z \in LiveOn(t)' : z < y} = {z \in LiveOn(t) : z < y}
          /\ changes'[y].before = changes[y].before
      <4>1. y \in Txs /\ y < x /\ ~(x < y)
        BY <1>11, <1>ages
      <4> QED
        BY <1>8, <1>11, <4>1
    <3> QED
      BY <3>2, <3>3 DEF TopIs
  <2>2. ASSUME NEW t \in Targets \ {at} PROVE TopIs(LiveOn(t), managed[t])'
    <3>1. TopIs(LiveOn(t), managed[t])
      BY DEF OwnInv, Stack
    <3> QED
      BY <1>8, <1>11, <3>1 DEF TopIs
  <2>3. TopIs(LiveOn(at), managed[at])'
    <3>1. \A y \in LiveOn(at)' : y <= x
      BY <1>4, <1>11, <1>ages
    <3> QED
      BY <1>5, <1>7, <1>8, <1>11, <3>1 DEF TopIs
  <2>4. TopIs({z \in LiveOn(at) : z < x}, changes[x].before)'
    <3>1. {z \in LiveOn(at)' : z < x} = LiveOn(at)
      BY <1>4, <1>11, <1>ages
    <3>2. TopIs(LiveOn(at), managed[at])
      BY <1>4 DEF OwnInv, Stack
    <3> QED
      BY <1>4, <1>7, <1>8, <1>11, <3>1, <3>2 DEF TopIs
  <2>5. ASSUME NEW t \in Targets, NEW y \in LiveOn(t)'
        PROVE  TopIs({z \in LiveOn(t) : z < y}, changes[y].before)'
    <3>1. CASE y \in LiveOn(t)
      BY <2>1, <3>1
    <3>2. CASE t = at /\ y = x
      BY <2>4, <3>2
    <3> QED
      BY <1>11, <2>5, <3>1, <3>2
  <2>6. \A t \in Targets : TopIs(LiveOn(t), managed[t])'
    BY <2>2, <2>3
  <2> QED
    BY <2>5, <2>6 DEF Stack
<1>16. ASSUME edits' = 0, NEW t \in Targets PROVE Excused(t)' \/ TargetExplained(t)'
  <2>1. CASE Excused(t)
    <3>1. PICK y \in Txs :
            /\ journals[y] # None /\ journals[y].target = t
            /\ Unsettled(y) /\ ~RowIsNext(y) /\ \A q \in Procs : ~Opening(q, y)
      BY <2>1 DEF Excused
    <3>2. y # x
      BY <1>2, <3>1
    <3>3. Unsettled(y)'
      BY <1>1, <1>8, <1>9, <3>1, <3>2 DEF Unsettled, AwaitsRecovery, JournalIs
    <3> QED
      BY <1>1, <1>2, <3>1, <3>3 DEF Excused
  <2>2. CASE TargetExplained(t)
    <3>1. /\ Standing(t) \subseteq Txs /\ \A y \in Standing(t) : y < x
          /\ t # at => Standing(t)' = Standing(t)
          /\ t = at => Standing(t)' = Standing(t) \union {x}
      <4>1. \A y \in Standing(t) : y \in Txs /\ y < x
        BY <1>10 DEF Standing
      <4>2. \A y \in Txs : y \in Standing(t)' <=> y \in Standing(t) \/ (y = x /\ t = at)
        BY <1>1, <1>2, <1>3, <1>7, <1>8, <1>9, <1>10 DEF Standing, JournalIs
      <4>3. Standing(t)' \subseteq Txs
        BY DEF Standing
      <4> QED
        BY <1>3, <4>1, <4>2, <4>3
    <3>2. Explained(t, files[t], managed[t], Standing(t))'
      <4>1. CASE t = at
        <5>1. files[t] = h
          BY <1>1, <1>16, <4>1 DEF OwnInv, CallHolds
        <5> QED
          BY <1>1, <1>7, <1>8, <4>1, <5>1 DEF Explained
      <4>2. CASE t # at
        BY <1>1, <1>2, <1>8, <2>2, <3>1, <4>2, LeftStays DEF TargetExplained, Explained
      <4> QED
        BY <4>1, <4>2
    <3>3. ASSUME NEW y \in LiveOn(t)
          PROVE  Explained(t, journals[y].before, changes[y].before, {z \in Standing(t) : z < y})'
      <4>1. Explained(t, journals[y].before, changes[y].before, {z \in Standing(t) : z < y})
        BY <2>2 DEF TargetExplained
      <4>2. y \in Txs \ {x} /\ y < x /\ ~(x < y)
        BY <1>11, <1>ages
      <4>3. {z \in Standing(t)' : z < y} = {z \in Standing(t) : z < y}
        BY <3>1, <4>2
      <4> QED
        BY <1>1, <1>8, <4>1, <4>2, <4>3, LeftStays DEF Explained
    <3>4. t = at =>
            Explained(t, journals[x].before, changes[x].before, {z \in Standing(t) : z < x})'
      <4> SUFFICES ASSUME t = at
                   PROVE  Explained(t, journals[x].before, changes[x].before,
                                    {z \in Standing(t) : z < x})'
        OBVIOUS
      <4>1. Explained(t, calls[p].before, managed[t], Standing(t))
        BY <1>2, <2>2 DEF TargetExplained
      <4>2. Standing(t) \subseteq {z \in Standing(t)' : z < x}
        BY <3>1
      <4> QED
        BY <1>1, <1>4, <1>7, <1>8, <4>1, <4>2, LeftStays DEF Explained
    <3>5. ASSUME NEW y \in LiveOn(t)'
          PROVE  Explained(t, journals[y].before, changes[y].before, {z \in Standing(t) : z < y})'
      <4>1. y \in LiveOn(t) \/ (t = at /\ y = x)
        BY <1>11, <3>5
      <4> QED
        BY <3>3, <3>4, <4>1
    <3> QED
      BY <1>2, <3>2, <3>5, QuietTargets
  <2> QED
    BY <1>1, <1>16, <2>1, <2>2 DEF OwnInv
<1> QED
  BY <1>12, <1>13, <1>14, <1>15, <1>16, OwnParts

\* A reversed transaction is rolled back: it was the newest of its target, and
\* what its journal restored is what the owner before it explains.
LEMMA OwnRollsBack ==
    ASSUME MigrationInv, OwnInv, OneAtATime, NEW p \in Procs, FT!Return(p),
           CallIs(p, "done"), Runs(p, "apply", "reverting") \/ Runs(p, "undo", "call"),
           NEW x, x = calls[p].tx, L!RollbackTransactionAndManagedObject(x),
           NEW at, at = changes[x].target, TxsCommitted(p)'
    PROVE  OwnInv'
<1>1. /\ TypeOK /\ UNCHANGED <<files, journals, backups, edits, changes>>
      /\ calls[p] # None /\ calls'[p] = None
      /\ calls[p].fn = "undo" /\ calls[p].pc = "done"
  BY DEF MigrationInv, CommandInv, CallOf, Runs, CallIs, FT!Idle, FT!Return, FT!fileVars,
     FT!envVars, TypeOK, FT!TypeOK, L!RollbackTransactionAndManagedObject
<1>2. /\ L!HasTransaction(x) /\ managed[at] = changes[x].after
      /\ managed' = [managed EXCEPT ![at] = changes[x].before]
      /\ transactions' = [transactions EXCEPT ![x] = "rolled-back"]
  BY DEF L!RollbackTransactionAndManagedObject, L!StillOwns, L!RestoreOwner, L!SetStatus
<1>3. /\ \A y : RowIsNext(y) <=> L!HasTransaction(y) /\ y = x
      /\ \A y : ~RowIsNext(y)'
      /\ \A q \in Procs : ~Applying(q) /\ ~Applying(q)'
      /\ \A q \in Procs : \A y : ~Opening(q, y) /\ ~Opening(q, y)'
  BY <1>1, OnlyProcess DEF Opening, Applying, FT!At
<1>4. /\ x \in Txs /\ JournalIs(x, "rolled-back")
      /\ journals[x].before = calls[p].before /\ journals[x].target = calls[p].target
      /\ journals[x].after = calls[p].after
  BY <1>1 DEF MigrationInv, CommandInv, Reversing, FT!Journaled
<1>5. L!Live(x)
  BY <1>1, <1>2 DEF OwnInv, CallKnows
<1>6. /\ at \in Targets /\ calls[p].target = at /\ changes[x] \in L!Change
      /\ changes[x].after # None
  BY <1>2, <1>4, RowHasJournal, NoneIsNoRecord DEF L!Change
<1>7. /\ transactions'[x] = "rolled-back" /\ managed'[at] = changes[x].before
      /\ \A y \in Txs \ {x} : transactions'[y] = transactions[y]
      /\ \A t \in Targets \ {at} : managed'[t] = managed[t]
  BY <1>1, <1>2, <1>4, <1>6 DEF TypeOK, L!TypeOK
<1>8. /\ \A y \in Txs : L!HasTransaction(y)' <=> L!HasTransaction(y)
      /\ \A y \in Txs : L!Live(y)' <=> L!Live(y) /\ y # x
  BY <1>2, <1>7, NoneIsNoRecord DEF L!HasTransaction, L!Live, L!TransactionStatus
<1>9. x \in LiveOn(at) /\ \A y \in LiveOn(at) : y # x => y < x /\ ~(x < y)
  <2>1. PICK w \in LiveOn(at) :
            changes[w].after = changes[x].after /\ \A y \in LiveOn(at) : y <= w
    BY <1>2, <1>6 DEF OwnInv, Stack, TopIs
  <2>2. w \in Txs /\ L!HasTransaction(w) /\ changes[w].target = at
    BY <2>1, LiveHasRow DEF LiveOn
  <2>3. w = x
    BY <1>2, <1>4, <2>1, <2>2 DEF OwnInv, RowsAreUnique
  <2>4. \A y \in LiveOn(at) : y \in Txs
    BY DEF LiveOn
  <2> QED
    BY <1>4, <2>1, <2>3, <2>4, TxsAreNumbered
<1>10. /\ \A t \in Targets \ {at} : LiveOn(t)' = LiveOn(t)
       /\ LiveOn(at)' = LiveOn(at) \ {x}
       /\ LiveOn(at)' = {y \in LiveOn(at) : y < x}
  <2>1. /\ \A t \in Targets \ {at} : LiveOn(t)' = LiveOn(t)
        /\ LiveOn(at)' = LiveOn(at) \ {x}
    BY <1>1, <1>8 DEF LiveOn
  <2>2. ~(x < x)
    BY <1>4, TxsAreNumbered
  <2> QED
    BY <1>9, <2>1, <2>2
<1>11. Numbered' /\ CallKnows(p)' /\ CallHolds(p)' /\ RowsAreUnique'
  BY <1>1, <1>3, <1>8
     DEF OwnInv, Numbered, Begun, CallKnows, CallHolds, RowsAreUnique
<1>12. Stack'
  <2>1. ASSUME NEW t \in Targets PROVE TopIs(LiveOn(t), managed[t])'
    <3>1. CASE t # at
      BY <1>1, <1>7, <1>10, <3>1 DEF OwnInv, Stack, TopIs
    <3>2. CASE t = at
      <4>1. TopIs({y \in LiveOn(at) : y < x}, changes[x].before)
        BY <1>6, <1>9 DEF OwnInv, Stack
      <4> QED
        BY <1>1, <1>7, <1>10, <3>2, <4>1 DEF TopIs
    <3> QED
      BY <3>1, <3>2
  <2>2. ASSUME NEW t \in Targets, NEW y \in LiveOn(t)'
        PROVE  TopIs({z \in LiveOn(t) : z < y}, changes[y].before)'
    <3>1. y \in LiveOn(t) /\ TopIs({z \in LiveOn(t) : z < y}, changes[y].before)
      BY <1>10, <2>2 DEF OwnInv, Stack
    <3>2. {z \in LiveOn(t)' : z < y} = {z \in LiveOn(t) : z < y}
      BY <1>9, <1>10, <2>2, <3>1
    <3> QED
      BY <1>1, <3>1, <3>2 DEF TopIs
  <2> QED
    BY <2>1, <2>2 DEF Stack
<1>13. ASSUME edits' = 0, NEW t \in Targets PROVE Excused(t)' \/ TargetExplained(t)'
  <2>1. CASE Excused(t)
    <3>1. PICK y \in Txs :
            /\ journals[y] # None /\ journals[y].target = t
            /\ Unsettled(y) /\ ~RowIsNext(y) /\ \A q \in Procs : ~Opening(q, y)
      BY <2>1 DEF Excused
    <3>2. y # x
      BY <1>2, <1>3, <3>1
    <3>3. Unsettled(y)'
      BY <1>1, <1>7, <1>8, <3>1, <3>2 DEF Unsettled, AwaitsRecovery, JournalIs
    <3> QED
      BY <1>1, <1>3, <3>1, <3>3 DEF Excused
  <2>2. CASE TargetExplained(t)
    <3>1. /\ Standing(t) \subseteq Txs /\ Standing(t)' = Standing(t) \ {x}
          /\ t # at => x \notin Standing(t)
      <4>1. \A y \in Txs : y \in Standing(t)' <=> y \in Standing(t) /\ y # x
        BY <1>1, <1>3, <1>4, <1>8 DEF Standing, JournalIs
      <4> QED
        BY <4>1 DEF Standing
    <3>2. Explained(t, files[t], managed[t], Standing(t))'
      <4>1. CASE t # at
        BY <1>1, <1>3, <1>7, <2>2, <3>1, <4>1, LeftStays DEF TargetExplained, Explained
      <4>2. CASE t = at
        <5>1. files[t] = journals[x].before \/ LeftOver(x, t, files[t])
          BY <1>1, <1>4, <1>6, <1>13, <4>2 DEF OwnInv, CallHolds, LeftOver
        <5>2. Explained(t, journals[x].before, changes[x].before, {y \in Standing(t) : y < x})
          BY <1>9, <2>2, <4>2 DEF TargetExplained
        <5>3. {y \in Standing(t) : y < x} \subseteq Standing(t)'
          BY <1>4, <3>1, TxsAreNumbered
        <5>4. CASE LeftOver(x, t, files[t])
          BY <1>1, <1>4, <5>4, LeftStays DEF Explained
        <5>5. CASE files[t] = journals[x].before
          BY <1>1, <1>7, <4>2, <5>2, <5>3, <5>5, LeftStays DEF Explained
        <5> QED
          BY <5>1, <5>4, <5>5
      <4> QED
        BY <4>1, <4>2
    <3>3. ASSUME NEW y \in LiveOn(t)'
          PROVE  Explained(t, journals[y].before, changes[y].before, {z \in Standing(t) : z < y})'
      <4>1. /\ y \in LiveOn(t)
            /\ Explained(t, journals[y].before, changes[y].before, {z \in Standing(t) : z < y})
        BY <1>10, <2>2, <3>3 DEF TargetExplained
      <4>2. {z \in Standing(t)' : z < y} = {z \in Standing(t) : z < y}
        BY <1>9, <1>10, <3>1, <3>3, <4>1
      <4> QED
        BY <1>1, <4>1, <4>2, LeftStays DEF Explained
    <3> QED
      BY <1>3, <3>2, <3>3, QuietTargets
  <2> QED
    BY <1>1, <1>13, <2>1, <2>2 DEF OwnInv
<1> QED
  BY <1>11, <1>12, <1>13, OwnParts

-----------------------------------------------------------------------------
(* The steps of the commands, one at a time *)

\* rollback_all forgets a journal when it has reversed it, and adds none.
LEMMA TxsStayCommitted ==
    ASSUME MigrationInv, OwnInv, NEW p \in Procs, UNCHANGED journals,
           NEW c, cli' = [cli EXCEPT ![p] = c],
           c # None /\ c.cmd = "apply" =>
                /\ cli[p] # None /\ cli[p].cmd = "apply"
                /\ c.txs \subseteq cli[p].txs
                /\ cli[p].pc = "reverting" => calls[p].tx \notin c.txs
    PROVE  TxsCommitted(p)'
<1>1. cli'[p] = c
  BY DEF MigrationInv, TypeOK
<1> QED
  BY <1>1 DEF OwnInv, TxsCommitted, JournalIs

LEMMA OwnQuietSteps ==
    ASSUME MigrationInv, OwnInv, OneAtATime, NEW p \in Procs,
           \/ \E o \in Ops, S \in SUBSET Targets : \E rendered \in [S -> PlanBytes] :
                    ApplyStart(p, o, rendered)
           \/ ApplyEnd(p) \/ ApplyEndError(p) \/ RollbackEnd(p)
           \/ (\E o \in Ops : UndoStart(p, o)) \/ UndoEnd(p)
    PROVE  OwnInv'
<1>1. UNCHANGED <<storeVars, transactions, changes, managed>>
  BY DEF ApplyStart, ApplyEnd, ApplyEndError, RollbackEnd, UndoStart, UndoEnd,
     L!BeginOperation, L!FinishOperation, ledgerVars
<1>2. TxsCommitted(p)'
  <2>1. CASE \E o \in Ops, S \in SUBSET Targets : \E rendered \in [S -> PlanBytes] :
                    ApplyStart(p, o, rendered)
    <3>1. PICK o, plan : cli' = [cli EXCEPT ![p] =
                [cmd |-> "apply", op |-> o, pc |-> "next", plan |-> plan, txs |-> {},
                 ok |-> TRUE, finish |-> TRUE]]
      BY <2>1 DEF ApplyStart, Begin
    <3>2. cli'[p].txs = {}
      BY <3>1 DEF MigrationInv, TypeOK
    <3> QED
      BY <3>2 DEF TxsCommitted
  <2>2. CASE \E o \in Ops : UndoStart(p, o)
    <3>1. PICK o \in Ops : cli' = [cli EXCEPT ![p] =
                [cmd |-> "undo", op |-> o, pc |-> "next", plan |-> {},
                 txs |-> L!TransactionsOf(o), ok |-> TRUE, finish |-> TRUE]]
      BY <2>2 DEF UndoStart, Begin
    <3>2. cli'[p].cmd = "undo"
      BY <3>1 DEF MigrationInv, TypeOK
    <3> QED
      BY <3>2 DEF TxsCommitted
  <2>3. CASE ApplyEnd(p) \/ RollbackEnd(p) \/ UndoEnd(p)
    BY <1>1, <2>3, TxsStayCommitted DEF ApplyEnd, RollbackEnd, UndoEnd, Exit, storeVars
  <2>4. CASE ApplyEndError(p)
    <3> DEFINE c == [cli[p] EXCEPT !.pc = "rollback", !.finish = FALSE]
    <3>1. /\ cli[p] # None /\ cli[p].cmd = "apply" /\ cli[p].pc = "next"
          /\ cli[p] \in Command /\ cli' = [cli EXCEPT ![p] = c] /\ UNCHANGED journals
      BY <2>4, CommandAfter DEF ApplyEndError, Runs, storeVars
    <3>2. c.txs = cli[p].txs
      BY <3>1 DEF Command
    <3> HIDE DEF c
    <3> QED
      BY <3>1, <3>2, TxsStayCommitted
  <2> QED
    BY <2>1, <2>2, <2>3, <2>4
<1> QED
  BY <1>1, <1>2, OnlyProcess, OwnCommands DEF storeVars, Begun

LEMMA OwnApplyNext ==
    ASSUME MigrationInv, OwnInv, OneAtATime, NEW p \in Procs, NEW w \in Write,
           NEW x \in Txs, ApplyNext(p, w, x)
    PROVE  OwnInv'
<1> DEFINE c == [cli[p] EXCEPT !.pc = "call", !.plan = @ \ {w}]
<1>1. /\ cli[p] # None /\ cli[p].cmd = "apply" /\ cli[p].pc = "next"
      /\ cli[p] \in Command /\ cli' = [cli EXCEPT ![p] = c]
      /\ UNCHANGED ledgerVars /\ NextTx(x)
  BY CommandAfter DEF ApplyNext, Runs
<1>2. c.txs = cli[p].txs
  BY <1>1 DEF Command
<1> HIDE DEF c
<1>3. FT!TypeOK /\ UNCHANGED <<files, journals, backups, edits>> /\ calls[p] = None
  BY DEF ApplyNext, FT!ApplyRead, FT!ApplyStale, FT!Idle, FT!fileVars, FT!envVars,
     MigrationInv, TypeOK
<1>4. TxsCommitted(p)'
  BY <1>1, <1>2, <1>3, TxsStayCommitted
<1>5. calls'[p] # None /\ calls'[p].fn = "apply"
      /\ \/ calls'[p].pc = "err"
         \/ calls'[p].pc = "read" /\ calls'[p].tx = x
  <2>1. \/ FT!ApplyRead(p, x, w.target, w.expected, w.new)
        \/ FT!ApplyStale(p, w.target, w.expected, w.new)
    BY DEF ApplyNext
  <2> QED
    BY <1>3, <2>1, ReadStarts
<1>6. calls'[p].before = files[calls'[p].target]
  <2> USE DEF FT!TypeOK
  <2>1. CASE FT!ApplyRead(p, x, w.target, w.expected, w.new)
    BY <1>3, <2>1 DEF FT!ApplyRead
  <2>2. CASE FT!ApplyStale(p, w.target, w.expected, w.new)
    BY <1>3, <2>2 DEF FT!ApplyStale
  <2> QED
    BY <2>1, <2>2 DEF ApplyNext
<1>7. CASE calls'[p].pc = "err"
  BY <1>1, <1>3, <1>4, <1>7, OwnEnds DEF ledgerVars
<1>8. CASE calls'[p].pc = "read"
  BY <1>1, <1>3, <1>4, <1>5, <1>6, <1>8, OwnReads DEF ledgerVars
<1> QED
  BY <1>5, <1>7, <1>8

LEMMA OwnRecordSteps ==
    ASSUME MigrationInv, OwnInv, OneAtATime, NEW p \in Procs, Record(p) \/ RecordError(p)
    PROVE  OwnInv'
<1> SUFFICES ASSUME NEW x, x = calls[p].tx PROVE OwnInv'
  OBVIOUS
<1>1. /\ TypeOK /\ cli[p] \in Command /\ cli[p] # None /\ cli[p].cmd = "apply"
      /\ cli[p].pc = "call" /\ calls[p] # None
      /\ FT!Return(p) /\ Runs(p, "apply", "call") /\ CallIs(p, "done")
  BY DEF Record, RecordError, Runs, CallIs, FT!Idle, MigrationInv, TypeOK
<1>2. PICK pc \in {"next", "rollback"} :
        /\ cli' = [cli EXCEPT ![p].pc = pc, ![p].txs = @ \union {calls[p].tx}]
        /\ RecordCall(p) \/ UNCHANGED ledgerVars
  BY DEF Record, RecordError
<1> DEFINE c == [cli[p] EXCEPT !.pc = pc, !.txs = @ \union {calls[p].tx}]
<1>3. cli'[p] = c
  BY <1>1, <1>2 DEF TypeOK
<1>4. x \in Txs
  BY <1>1, TxSettles
<1>5. cli'[p].txs = cli[p].txs \union {x} /\ cli'[p] # None
  <2>1. c.txs = cli[p].txs \union {x} /\ c \in Command
    BY <1>1, <1>4 DEF Command
  <2> HIDE DEF c
  <2> QED
    BY <1>3, <2>1, NoneIsNoRecord
<1> HIDE DEF c
<1>6. CASE RecordCall(p)
  BY <1>1, <1>5, <1>6, OwnRecords
<1>7. CASE UNCHANGED ledgerVars
  <2>1. UNCHANGED <<files, journals, backups, edits>> /\ calls'[p] = None
    BY <1>1 DEF FT!Return, FT!fileVars, FT!envVars, TypeOK, FT!TypeOK
  <2>2. JournalIs(x, "committed")
    BY <1>1 DEF OwnInv, CallKnows, CallIs, MigrationInv, CommandInv, CallOf
  <2>3. TxsCommitted(p)'
    BY <1>1, <1>5, <2>1, <2>2 DEF OwnInv, TxsCommitted, JournalIs
  <2> QED
    BY <1>7, <2>1, <2>3, OwnEnds DEF ledgerVars
<1> QED
  BY <1>2, <1>6, <1>7

\* A call of the process returns.
LEMMA ReturnLeaves ==
    ASSUME MigrationInv, NEW p \in Procs, FT!Return(p)
    PROVE  UNCHANGED <<files, journals, backups, edits>> /\ calls'[p] = None
BY DEF FT!Return, FT!fileVars, FT!envVars, MigrationInv, TypeOK, FT!TypeOK

LEMMA OwnErrorSteps ==
    ASSUME MigrationInv, OwnInv, OneAtATime, NEW p \in Procs,
           ApplyError(p) \/ RollbackError(p) \/ UndoError(p) \/ RecoverEnd(p) \/ Crash(p)
    PROVE  OwnInv'
<1>1. UNCHANGED ledgerVars /\ UNCHANGED <<files, journals, backups, edits>>
      /\ (calls'[p] = None \/ UNCHANGED calls)
  <2>1. CASE Crash(p)
    BY <2>1 DEF Crash, FT!Crash, FT!fileVars, storeVars, MigrationInv, TypeOK, FT!TypeOK
  <2>2. CASE ~Crash(p)
    BY <2>2, ReturnLeaves DEF ApplyError, RollbackError, Reverted, UndoError, RecoverEnd
  <2> QED
    BY <2>1, <2>2
<1>2. TxsCommitted(p)'
  <2>1. CASE ApplyError(p)
    <3> DEFINE c == [cli[p] EXCEPT !.pc = "rollback"]
    <3>1. /\ cli[p] # None /\ cli[p].cmd = "apply" /\ cli[p].pc = "call"
          /\ cli[p] \in Command /\ cli' = [cli EXCEPT ![p] = c]
      BY <2>1, CommandAfter DEF ApplyError, Runs, Proceed
    <3>2. c.txs = cli[p].txs
      BY <3>1 DEF Command
    <3> HIDE DEF c
    <3> QED
      BY <1>1, <3>1, <3>2, TxsStayCommitted
  <2>2. CASE RollbackError(p)
    <3> DEFINE c == [cli[p] EXCEPT !.pc = "rollback", !.txs = @ \ {calls[p].tx},
                                   !.ok = @ /\ FALSE]
    <3>1. /\ cli[p] # None /\ cli[p].cmd = "apply"
          /\ cli[p] \in Command /\ cli' = [cli EXCEPT ![p] = c]
      BY <2>2, CommandAfter DEF RollbackError, Runs, Reverted
    <3>2. c.txs = cli[p].txs \ {calls[p].tx}
      BY <3>1 DEF Command
    <3> HIDE DEF c
    <3> QED
      BY <1>1, <3>1, <3>2, TxsStayCommitted
  <2>3. CASE UndoError(p) \/ RecoverEnd(p) \/ Crash(p)
    BY <1>1, <2>3, TxsStayCommitted DEF UndoError, RecoverEnd, Crash, Exit
  <2> QED
    BY <2>1, <2>2, <2>3
<1>3. CASE calls'[p] = None
  BY <1>1, <1>2, <1>3, OwnEnds DEF ledgerVars
<1>4. CASE UNCHANGED calls
  BY <1>1, <1>2, <1>4, OnlyProcess, OwnCommands DEF ledgerVars, Begun
<1> QED
  BY <1>1, <1>3, <1>4

\* What an undo of a journal with the given status begins with.
LEMMA UndoChecks ==
    ASSUME MigrationInv, NEW p \in Procs, NEW x \in Txs, NEW status,
           FT!UndoCheck(p, x, status)
    PROVE  /\ UNCHANGED <<files, journals, backups, edits>>
           /\ calls[p] = None /\ calls'[p] # None
           /\ calls'[p].fn = "undo" /\ calls'[p].tx = x
           /\ journals[x] # None
           /\ calls'[p].pc \in {"checked", "err"}
           /\ calls'[p].pc = "checked" =>
                status = "committed" /\ files[calls'[p].target] = calls'[p].after
<1>1. FT!TypeOK
  BY DEF MigrationInv, TypeOK
<1>2. /\ calls[p] = None /\ calls'[p] # None
      /\ calls'[p].fn = "undo" /\ calls'[p].tx = x /\ journals[x] # None
  BY <1>1, LoadStarts
<1>3. PICK pc \in {"checked", "err"} :
        /\ calls' = [calls EXCEPT ![p] = FT!Loaded("undo", pc, x)]
        /\ pc = "checked" => status = "committed"
                             /\ files[journals[x].target] = journals[x].after
  BY DEF FT!UndoCheck
<1>4. /\ calls'[p].pc = pc
      /\ calls'[p].target = journals[x].target /\ calls'[p].after = journals[x].after
  BY <1>1, <1>3 DEF FT!Loaded, FT!TypeOK
<1> QED
  BY <1>2, <1>3, <1>4 DEF FT!UndoCheck, FT!fileVars, FT!envVars

LEMMA OwnUndoSteps ==
    ASSUME MigrationInv, OwnInv, OneAtATime, NEW p \in Procs,
           RollbackNext(p) \/ UndoNext(p)
    PROVE  OwnInv'
<1>1. PICK x \in Txs :
        /\ x \in cli[p].txs
        /\ \/ RollbackNext(p) /\ FT!UndoCheck(p, x, "committed")
           \/ FT!UndoCheck(p, x, journals[x].status)
  BY DEF RollbackNext, UndoNext, Latest
<1>2. /\ UNCHANGED <<files, journals, backups, edits>>
      /\ calls[p] = None /\ calls'[p] # None
      /\ calls'[p].fn = "undo" /\ calls'[p].tx = x
      /\ journals[x] # None
      /\ calls'[p].pc \in {"checked", "err"}
      /\ calls'[p].pc = "checked" =>
            /\ RollbackNext(p) \/ journals[x].status = "committed"
            /\ files[calls'[p].target] = calls'[p].after
  BY <1>1, UndoChecks
<1>3. UNCHANGED ledgerVars /\ cli[p] # None
  BY DEF RollbackNext, UndoNext, Runs
<1>4. TxsCommitted(p)'
  <2>1. PICK pc \in {"reverting", "call"} : cli' = [cli EXCEPT ![p].pc = pc]
    BY DEF RollbackNext, UndoNext, Proceed
  <2> DEFINE c == [cli[p] EXCEPT !.pc = pc]
  <2>2. cli[p] \in Command /\ cli' = [cli EXCEPT ![p] = c]
    BY <1>3, <2>1, CommandAfter
  <2>3. c.txs = cli[p].txs /\ c.cmd = cli[p].cmd
    BY <2>2 DEF Command
  <2>4. cli[p].cmd = "apply" => cli[p].pc # "reverting"
    BY DEF RollbackNext, UndoNext, Runs
  <2> HIDE DEF c
  <2> QED
    BY <1>2, <1>3, <2>2, <2>3, <2>4, TxsStayCommitted
<1>5. CASE calls'[p].pc = "err"
  BY <1>2, <1>3, <1>4, <1>5, OwnEnds DEF ledgerVars
<1>6. CASE calls'[p].pc = "checked"
  <2>1. JournalIs(x, "committed")
    <3>1. CASE RollbackNext(p)
      BY <1>1, <1>3, <3>1 DEF RollbackNext, Runs, OwnInv, TxsCommitted
    <3>2. CASE journals[x].status = "committed"
      BY <1>2, <3>2 DEF JournalIs
    <3> QED
      BY <1>2, <1>6, <3>1, <3>2
  <2> QED
    BY <1>2, <1>3, <1>4, <1>6, <2>1, OwnLoads DEF ledgerVars
<1> QED
  BY <1>2, <1>5, <1>6

LEMMA OwnRecoverStart ==
    ASSUME MigrationInv, OwnInv, OneAtATime, NEW p \in Procs, NEW x \in Txs,
           RecoverStart(p, x)
    PROVE  OwnInv'
<1>1. FT!TypeOK /\ UNCHANGED <<files, journals, backups, edits>>
      /\ UNCHANGED ledgerVars
  BY DEF RecoverStart, FT!RecoverLoad, FT!fileVars, FT!envVars, MigrationInv, TypeOK
<1>2. TxsCommitted(p)'
  <2>1. cli' = [cli EXCEPT ![p] =
                [cmd |-> "recover", op |-> None, pc |-> "call", plan |-> {}, txs |-> {},
                 ok |-> TRUE, finish |-> TRUE]]
    BY DEF RecoverStart, Begin
  <2>2. cli'[p].cmd = "recover"
    BY <2>1 DEF MigrationInv, TypeOK
  <2> QED
    BY <2>2 DEF TxsCommitted
<1>3. PICK pc \in {"loaded", "err"} :
        /\ calls' = [calls EXCEPT ![p] = FT!Loaded("recover", pc, x)]
        /\ pc = "loaded" => FT!Awaiting(x, L!HasTransaction(x))
        /\ calls[p] = None
  BY DEF RecoverStart, FT!RecoverLoad, FT!Idle
<1>4. calls'[p].pc = pc /\ calls'[p].fn = "recover" /\ calls'[p].tx = x
  BY <1>1, <1>3 DEF FT!Loaded, FT!TypeOK
<1>5. calls'[p] # None
  BY <1>1, LoadStarts DEF RecoverStart
<1>6. CASE pc = "err"
  BY <1>1, <1>2, <1>4, <1>6, OwnEnds DEF ledgerVars
<1>7. CASE pc = "loaded"
  <2>1. ~L!HasTransaction(x)
    BY <1>3, <1>7, RowHasJournal DEF FT!Awaiting
  <2> QED
    BY <1>1, <1>2, <1>3, <1>4, <1>5, <1>7, <2>1, OwnLoads DEF ledgerVars
<1> QED
  BY <1>6, <1>7

LEMMA OwnReverses ==
    ASSUME MigrationInv, OwnInv, OneAtATime, NEW p \in Procs,
           RollbackDone(p) \/ UndoLedger(p)
    PROVE  OwnInv'
<1>1. /\ FT!Return(p) /\ CallIs(p, "done")
      /\ Runs(p, "apply", "reverting") \/ Runs(p, "undo", "call")
      /\ L!RollbackTransactionAndManagedObject(calls[p].tx) \/ UNCHANGED ledgerVars
  BY DEF RollbackDone, UndoLedger, Reverted
<1>2. UNCHANGED <<files, journals, backups, edits>> /\ calls'[p] = None
  BY <1>1, ReturnLeaves
<1>3. TxsCommitted(p)'
  <2>1. CASE RollbackDone(p)
    <3>1. PICK ok \in BOOLEAN : Reverted(p, ok)
      BY <2>1 DEF RollbackDone
    <3> DEFINE c == [cli[p] EXCEPT !.pc = "rollback", !.txs = @ \ {calls[p].tx},
                                   !.ok = @ /\ ok]
    <3>2. cli[p] # None /\ cli[p].cmd = "apply" /\ cli[p] \in Command
      BY <2>1, CommandAfter DEF RollbackDone, Runs
    <3>3. cli' = [cli EXCEPT ![p] = c]
      BY <3>1 DEF Reverted
    <3>4. c.txs = cli[p].txs \ {calls[p].tx}
      BY <3>2 DEF Command
    <3> HIDE DEF c
    <3> QED
      BY <1>2, <3>2, <3>3, <3>4, TxsStayCommitted
  <2>2. CASE UndoLedger(p)
    <3> DEFINE c == [cli[p] EXCEPT !.pc = "next", !.txs = @ \ {calls[p].tx}]
    <3>1. /\ cli[p] # None /\ cli[p].cmd = "undo" /\ cli[p] \in Command
          /\ cli' = [cli EXCEPT ![p] = c] \/ cli' = [cli EXCEPT ![p] = None]
      BY <2>2, CommandAfter DEF UndoLedger, Runs, Exit
    <3>2. c.cmd = "undo"
      BY <3>1 DEF Command
    <3> HIDE DEF c
    <3> QED
      BY <1>2, <3>1, <3>2, TxsStayCommitted
  <2> QED
    BY <2>1, <2>2
<1>4. CASE L!RollbackTransactionAndManagedObject(calls[p].tx)
  BY <1>1, <1>3, <1>4, OwnRollsBack
<1>5. CASE UNCHANGED ledgerVars
  BY <1>2, <1>3, <1>5, OwnEnds DEF ledgerVars
<1> QED
  BY <1>1, <1>4, <1>5

-----------------------------------------------------------------------------
(* The steps of the store and of the user, one command at a time *)

LEMMA OwnStoreSteps ==
    ASSUME MigrationInv, OwnInv, OneAtATime, NEW p \in Procs, InStore,
           FT!Step(p) \/ FT!IoError(p) \/ FT!TargetUnseen(p)
    PROVE  OwnInv'
<1> USE DEF FT!ApplyPC, FT!RestorePC, FT!ResultPC
<1>1. FT!TypeOK /\ UNCHANGED <<transactions, changes, managed, cli>>
  BY DEF MigrationInv, TypeOK, InStore, ledgerVars
<1>2. calls[p] # None
  BY DEF FT!Step, FT!IoError, FT!TargetUnseen, FT!ApplyBackup, FT!ApplyPrepare,
     FT!ApplyPersist, FT!ApplyCommit, FT!RecoverClassify, FT!RestoreBefore,
     FT!SaveRolledBack, FT!At
<1>3. ASSUME FT!Goto(p, "err"), UNCHANGED <<files, journals, backups, edits>> PROVE OwnInv'
  <2>1. calls'[p] # None /\ calls'[p].pc = "err" /\ calls'[p].tx = calls[p].tx
    BY <1>1, <1>2, <1>3, GotoCall
  <2>2. TxsCommitted(p)'
    BY <1>1, <1>3, <2>1 DEF OwnInv, TxsCommitted, JournalIs
  <2> QED
    BY <1>1, <1>3, <2>1, <2>2, OwnEnds
<1>4. CASE FT!ApplyBackup(p)
  <2>1. \A y \in Txs \ {calls[p].tx} : backups'[y] = backups[y]
    BY <1>1, <1>4 DEF FT!ApplyBackup, FT!TypeOK
  <2>2. UNCHANGED <<files, journals, edits>> /\ FT!Goto(p, "backed")
        /\ calls[p].fn = "apply" /\ calls[p].pc = "read"
    BY <1>4 DEF FT!ApplyBackup, FT!At, FT!envVars
  <2> QED
    BY <1>1, <1>2, <2>1, <2>2, OwnMoves
<1>5. CASE FT!ApplyPrepare(p) \/ FT!ApplyCommit(p)
  <2> SUFFICES ASSUME NEW x, x = calls[p].tx PROVE OwnInv'
    OBVIOUS
  <2>1. UNCHANGED <<files, backups, edits>> /\ calls[p].fn = "apply"
    BY <1>5 DEF FT!ApplyPrepare, FT!ApplyCommit, FT!At, FT!envVars
  <2>2. CASE FT!ApplyPrepare(p)
    <3>1. /\ calls[p].pc = "backed"
          /\ journals' = [journals EXCEPT ![x] = FT!JournalOf(p, "prepared")]
          /\ FT!Goto(p, "prepared")
      BY <2>2 DEF FT!ApplyPrepare, FT!At
    <3> QED
      BY <1>1, <1>2, <2>1, <3>1, OwnWrites
  <2>3. CASE FT!ApplyCommit(p)
    <3>1. /\ calls[p].pc = "persisted"
          /\ journals' = [journals EXCEPT ![x] = FT!JournalOf(p, "committed")]
          /\ FT!Goto(p, "done")
      BY <2>3 DEF FT!ApplyCommit, FT!At
    <3> QED
      BY <1>1, <1>2, <2>1, <3>1, OwnWrites
  <2> QED
    BY <1>5, <2>2, <2>3
<1>6. CASE FT!ApplyPersist(p)
  <2>1. UNCHANGED <<journals, backups, edits>> /\ FT!Goto(p, "persisted")
        /\ calls[p].fn = "apply" /\ calls[p].pc = "prepared"
        /\ files' = [files EXCEPT ![calls[p].target] = calls[p].after]
    BY <1>6 DEF FT!ApplyPersist, FT!At, FT!envVars
  <2> QED
    BY <1>1, <1>2, <2>1, OwnMoves
<1>7. CASE FT!RecoverClassify(p)
  <2>1. PICK pc \in {"checked", "restored", "err"} : FT!Goto(p, pc)
    BY <1>7 DEF FT!RecoverClassify, FT!Disposition
  <2>2. UNCHANGED <<files, journals, backups, edits>>
        /\ calls[p].fn = "recover" /\ calls[p].pc = "loaded"
    BY <1>7 DEF FT!RecoverClassify, FT!At, FT!fileVars, FT!envVars
  <2>3. CASE pc = "err"
    BY <1>3, <2>1, <2>2, <2>3
  <2>4. CASE pc # "err"
    BY <1>1, <1>2, <2>1, <2>2, <2>4, OwnMoves
  <2> QED
    BY <2>3, <2>4
<1>8. CASE FT!RestoreBefore(p)
  <2>1. UNCHANGED <<journals, backups, edits>> /\ calls[p].pc = "checked"
    BY <1>8 DEF FT!RestoreBefore, FT!envVars
  <2>2. CASE FT!BackupVerifies(p)
    <3>1. files' = [files EXCEPT ![calls[p].target] = calls[p].before]
          /\ FT!Goto(p, "restored")
      BY <1>8, <2>2 DEF FT!RestoreBefore, FT!BackupVerifies, FT!BeforeBytes
    <3>2. calls[p].fn # "apply"
      BY <1>2, <2>1 DEF MigrationInv, CommandInv, ApplyingAlone, Applying
    <3> QED
      BY <1>1, <1>2, <2>1, <3>1, <3>2, OwnRestores
  <2>3. CASE ~FT!BackupVerifies(p)
    BY <1>3, <1>8, <2>1, <2>3 DEF FT!RestoreBefore
  <2> QED
    BY <2>2, <2>3
<1>9. CASE FT!SaveRolledBack(p)
  <2>1. UNCHANGED <<files, backups, edits>> /\ calls[p].pc \in {"restored", "unseen"}
        /\ FT!Goto(p, "done")
        /\ journals' = [journals EXCEPT ![calls[p].tx] = FT!JournalOf(p, "rolled-back")]
    BY <1>9 DEF FT!SaveRolledBack, FT!envVars
  <2>2. calls[p].fn # "apply"
    BY <1>2, <2>1 DEF MigrationInv, CommandInv, ApplyingAlone, Applying
  <2> QED
    BY <1>1, <1>2, <2>1, <2>2, OwnSaves
<1>10. CASE FT!IoError(p)
  BY <1>3, <1>10 DEF FT!IoError, FT!fileVars
<1>11. CASE FT!TargetUnseen(p)
  <2>1. /\ UNCHANGED <<files, journals, backups, edits>> /\ FT!Goto(p, "unseen")
        /\ calls[p].before = None /\ calls[p].pc \in {"loaded", "checked"}
    BY <1>11 DEF FT!TargetUnseen, FT!fileVars
  <2>2. calls[p].fn # "apply" /\ (calls[p].fn = "undo" => calls[p].pc = "checked")
    BY <1>2, <2>1 DEF MigrationInv, CommandInv, ApplyingAlone, Applying, OwnInv, CallKnows
  <2> QED
    BY <1>1, <1>2, <2>1, <2>2, OwnMoves
<1> QED
  BY <1>4, <1>5, <1>6, <1>7, <1>8, <1>9, <1>10, <1>11 DEF FT!Step

LEMMA OwnEnvironment ==
    ASSUME MigrationInv, OwnInv, InStore,
           \/ \E t \in Targets, c \in FT!FileState : FT!Edit(t, c)
           \/ \E x \in Txs : FT!DamageBackup(x)
    PROVE  OwnInv'
<1>1. UNCHANGED <<journals, calls, transactions, changes, managed, cli>>
  BY DEF FT!Edit, FT!DamageBackup, InStore, ledgerVars
<1>2. \A p \in Procs : TxsCommitted(p)' /\ CallKnows(p)'
  BY <1>1 DEF OwnInv, TxsCommitted, CallKnows, JournalIs, L!HasTransaction, L!Live
<1>3. CASE \E t \in Targets, c \in FT!FileState : FT!Edit(t, c)
  <2>1. edits' # 0 /\ UNCHANGED backups
    BY <1>3 DEF FT!Edit, MigrationInv, TypeOK, FT!TypeOK
  <2>2. Numbered'
    BY <1>1, <2>1 DEF OwnInv, Numbered, Begun, Opening, Applying
  <2> QED
    BY <1>1, <1>2, <2>1, <2>2, LedgerStays DEF OwnInv
<1>4. CASE \E x \in Txs : FT!DamageBackup(x)
  <2>1. UNCHANGED <<files, edits>> /\ \A y \in Txs : Begun(y) => Begun(y)'
    BY <1>4, NoneIsNoRecord DEF FT!DamageBackup, Begun, MigrationInv, TypeOK, FT!TypeOK
  <2> QED
    BY <1>1, <1>2, <2>1, OwnCommands
<1> QED
  BY <1>3, <1>4

LEMMA OwnInvInit == Init => OwnInv
<1> SUFFICES ASSUME Init PROVE OwnInv
  OBVIOUS
<1>1. /\ \A x \in Txs : journals[x] = None /\ ~L!HasTransaction(x)
      /\ \A p \in Procs : calls[p] = None /\ cli[p] = None
      /\ \A t \in Targets : managed[t] = None
  BY DEF Init, FT!Init, L!Init, L!HasTransaction
<1>2. \A t : LiveOn(t) = {}
  BY <1>1, LiveHasRow DEF LiveOn
<1>3. Numbered /\ RowsAreUnique /\ Stack
  BY <1>1, <1>2 DEF Numbered, Opening, Applying, RowsAreUnique, Stack, TopIs
<1>4. \A p \in Procs : CallKnows(p) /\ TxsCommitted(p) /\ CallHolds(p)
  BY <1>1 DEF CallKnows, TxsCommitted, CallHolds
<1>5. \A t \in Targets : TargetExplained(t)
  BY <1>1, <1>2 DEF TargetExplained, Applying, Explained
<1> QED
  BY <1>3, <1>4, <1>5 DEF OwnInv

LEMMA OwnInvNext ==
    ASSUME OneAtATime, MigrationInv, OwnInv, [Next]_vars
    PROVE  OwnInv'
<1>1. ASSUME NEW p \in Procs, Apply(p) PROVE OwnInv'
  <2>1. CASE \E o \in Ops, S \in SUBSET Targets : \E rendered \in [S -> PlanBytes] :
                S # {} /\ ApplyStart(p, o, rendered)
    BY <2>1, OwnQuietSteps
  <2>2. CASE \E x \in Txs : ~Free(p) /\ \E w \in cli[p].plan : ApplyNext(p, w, x)
    <3>1. PICK x \in Txs : ~Free(p) /\ \E w \in cli[p].plan : ApplyNext(p, w, x)
      BY <2>2
    <3>2. cli[p].plan \subseteq Write
      BY <3>1 DEF Free, MigrationInv, TypeOK, Command
    <3> QED
      BY <3>1, <3>2, OwnApplyNext
  <2> QED
    BY <1>1, <2>1, <2>2, OwnRecordSteps, OwnErrorSteps, OwnQuietSteps, OwnUndoSteps,
       OwnReverses DEF Apply
<1>2. ASSUME NEW p \in Procs, Undo(p) PROVE OwnInv'
  BY <1>2, OwnQuietSteps, OwnUndoSteps, OwnReverses, OwnErrorSteps DEF Undo
<1>3. ASSUME NEW p \in Procs, Recover(p) \/ Crash(p) PROVE OwnInv'
  BY <1>3, OwnRecoverStart, OwnErrorSteps DEF Recover
<1>4. ASSUME InStore, NEW p \in Procs,
             FT!Step(p) \/ FT!IoError(p) \/ FT!TargetUnseen(p)
      PROVE  OwnInv'
  BY <1>4, OwnStoreSteps
<1>5. ASSUME UNCHANGED vars PROVE OwnInv'
  <2>1. \A p \in Procs : TxsCommitted(p)'
    BY <1>5 DEF OwnInv, TxsCommitted, JournalIs, vars, storeVars
  <2> QED
    BY <1>5, <2>1, OwnCommands DEF vars, storeVars, ledgerVars, Begun
<1> QED
  BY <1>1, <1>2, <1>3, <1>4, <1>5, OwnEnvironment DEF Next

\* Between commands, a target that needs no excuse is as its owner wrote it, or
\* as a committed transaction found it.
LEMMA OwnInvHolds ==
    ASSUME MigrationInv, OwnInv PROVE OwnersHoldTheirBytes
<1> SUFFICES ASSUME edits = 0, \A p \in Procs : Free(p), NEW t \in Targets,
                    managed[t] # None
             PROVE  \/ files[t] = managed[t].hash
                    \/ \E x \in Txs :
                          /\ journals[x] # None /\ journals[x].target = t
                          /\ Unsettled(x) \/ Restoring(x) \/ Abandoned(x)
  BY DEF OwnersHoldTheirBytes
<1>1. \A p \in Procs : calls[p] = None
  BY FreeIsIdle DEF CallOf, Runs, Free
<1>2. CASE Excused(t)
  BY <1>2 DEF Excused
<1>3. CASE TargetExplained(t)
  <2>1. Explained(t, files[t], managed[t], Standing(t))
    BY <1>1, <1>3 DEF TargetExplained, Applying
  <2>2. ASSUME NEW x \in Standing(t), journals[x].before = files[t]
        PROVE  x \in Txs /\ journals[x] # None /\ journals[x].target = t /\ Restoring(x)
    <3>1. x \in Txs /\ L!HasTransaction(x) /\ changes[x].target = t /\ ~RowIsNext(x)
      BY <1>1 DEF Standing, RowIsNext, FT!At
    <3> QED
      BY <2>2, <3>1, RowHasJournal DEF Standing, Restoring, JournalIs
  <2>3. ASSUME NEW x \in Txs, LeftOver(x, t, files[t])
        PROVE  journals[x] # None /\ journals[x].target = t /\ Abandoned(x)
    BY <2>3 DEF LeftOver, Abandoned, JournalIs
  <2> QED
    BY <2>1, <2>2, <2>3 DEF Explained
<1> QED
  BY <1>2, <1>3 DEF OwnInv

\* With one command at a time, and as long as the user edits nothing: between
\* commands a managed target holds its owner's bytes, or a journal shows why
\* not, wherever commands stopped and whatever failed.
THEOREM OwnersHold ==
    ASSUME OneAtATime PROVE Spec => []OwnersHoldTheirBytes
<1>1. Init => OwnInv
  BY OwnInvInit
<1>2. MigrationInv /\ OwnInv /\ [Next]_vars => OwnInv'
  BY OwnInvNext
<1>3. MigrationInv /\ OwnInv => OwnersHoldTheirBytes
  BY OwnInvHolds
<1> QED
  BY <1>1, <1>2, <1>3, MigrationSafety, PTL DEF Spec

-----------------------------------------------------------------------------
(* The commands and the store: what FileTransactionProofs shows of calls   *)
(* holds for the calls the commands make.  FP! and FT! name the same       *)
(* definitions.                                                            *)

FP == INSTANCE FileTransactionProofs

\* rollback_all reverses a copy of a journal that may be older than the disk.
StaleCheck ==
    \E p \in Procs : \E x \in Txs :
        RollbackNext(p) /\ x \in cli[p].txs /\ FT!UndoCheck(p, x, "committed")

\* Every step of the commands is, on the files, a step of the store.
LEMMA CommandsCallTheStore ==
    ASSUME MigrationInv, [Next]_vars
    PROVE  [FT!Next]_storeVars \/ StaleCheck
<1>1. ASSUME NEW p \in Procs, FT!Start(p) \/ FT!Step(p) \/ FT!Return(p)
      PROVE  FT!Next
  BY <1>1 DEF FT!Next
<1>2. ASSUME NEW p \in Procs, Apply(p) PROVE [FT!Next]_storeVars \/ StaleCheck
  <2>1. ASSUME NEW x \in Txs, ~Free(p), NEW w \in cli[p].plan, ApplyNext(p, w, x)
        PROVE  FT!Next
    <3>1. w \in Write
      BY <2>1 DEF Free, MigrationInv, TypeOK, Command
    <3>2. w.target \in Targets /\ w.expected \in FT!FileState /\ w.new \in PlanBytes
      BY <3>1 DEF Write
    <3>3. FT!Start(p)
      BY <2>1, <3>2 DEF ApplyNext, FT!Start
    <3> QED
      BY <1>1, <3>3
  <2>2. CASE \/ Record(p) \/ RecordError(p) \/ ApplyError(p)
             \/ RollbackDone(p) \/ RollbackError(p)
    BY <1>1, <2>2 DEF Record, RecordError, ApplyError, RollbackDone, RollbackError, Reverted
  <2>3. CASE RollbackNext(p)
    BY <2>3 DEF RollbackNext, Latest, StaleCheck
  <2>4. CASE \/ ApplyEnd(p) \/ ApplyEndError(p) \/ RollbackEnd(p)
             \/ \E o \in Ops, S \in SUBSET Targets : \E rendered \in [S -> PlanBytes] :
                    S # {} /\ ApplyStart(p, o, rendered)
    BY <2>4 DEF ApplyEnd, ApplyEndError, RollbackEnd, ApplyStart
  <2> QED
    BY <1>2, <2>1, <2>2, <2>3, <2>4 DEF Apply
<1>3. ASSUME NEW p \in Procs, Undo(p) PROVE [FT!Next]_storeVars
  <2>1. CASE UndoNext(p)
    <3>1. PICK x \in Txs : FT!UndoCheck(p, x, journals[x].status)
      BY <2>1 DEF UndoNext
    <3>2. FT!Start(p)
      BY <3>1 DEF FT!Start, FT!UndoCheck
    <3> QED
      BY <1>1, <3>2
  <2>2. CASE UndoLedger(p) \/ UndoError(p)
    BY <1>1, <2>2 DEF UndoLedger, UndoError
  <2>3. CASE (\E o \in Ops : UndoStart(p, o)) \/ UndoEnd(p)
    BY <2>3 DEF UndoStart, UndoEnd
  <2> QED
    BY <1>3, <2>1, <2>2, <2>3 DEF Undo
<1>4. ASSUME NEW p \in Procs, Recover(p) PROVE [FT!Next]_storeVars
  <2>1. ASSUME NEW x \in Txs, RecoverStart(p, x) PROVE FT!Next
    <3>1. L!HasTransaction(x) \in BOOLEAN
      BY DEF L!HasTransaction
    <3>2. FT!Start(p)
      BY <2>1, <3>1 DEF RecoverStart, FT!Start
    <3> QED
      BY <1>1, <3>2
  <2> QED
    BY <1>1, <1>4, <2>1 DEF Recover, RecoverEnd
<1>5. ASSUME NEW p \in Procs, Crash(p) \/ FT!IoError(p) \/ FT!TargetUnseen(p)
      PROVE  [FT!Next]_storeVars
  BY <1>5 DEF Crash, FT!Next, FT!Environment
<1>6. ASSUME \/ \E t \in Targets, c \in FT!FileState : FT!Edit(t, c)
             \/ \E x \in Txs : FT!DamageBackup(x)
      PROVE  FT!Next
  BY <1>6 DEF FT!Next, FT!Environment
<1> QED
  BY <1>1, <1>2, <1>3, <1>4, <1>5, <1>6 DEF Next, vars

LEMMA SameUndo ==
    \A status : \A p \in Procs, x \in Txs :
        FT!UndoCheck(p, x, status) => FP!UndoCheck(p, x, status)
BY DEF FT!UndoCheck, FP!UndoCheck, FT!Idle, FP!Idle, FT!Loaded, FP!Loaded,
       FT!fileVars, FP!fileVars, FT!envVars, FP!envVars

LEMMA SameStart == \A p \in Procs : FT!Start(p) => FP!Start(p)
BY SameUndo
   DEF FT!Start, FP!Start, FT!ApplyRead, FP!ApplyRead, FT!ApplyStale, FP!ApplyStale,
       FT!RecoverLoad, FP!RecoverLoad, FT!Fresh, FP!Fresh, FT!Idle, FP!Idle,
       FT!Loaded, FP!Loaded, FT!Awaiting, FP!Awaiting, FT!FileState, FP!FileState,
       FT!Contents, FP!Contents, FT!fileVars, FP!fileVars, FT!envVars, FP!envVars

LEMMA SameStep == \A p \in Procs : FT!Step(p) => FP!Step(p)
BY DEF FT!Step, FP!Step, FT!ApplyBackup, FP!ApplyBackup, FT!ApplyPrepare, FP!ApplyPrepare,
       FT!ApplyPersist, FP!ApplyPersist, FT!ApplyCommit, FP!ApplyCommit,
       FT!RecoverClassify, FP!RecoverClassify, FT!RestoreBefore, FP!RestoreBefore,
       FT!SaveRolledBack, FP!SaveRolledBack, FT!At, FP!At, FT!Goto, FP!Goto,
       FT!JournalOf, FP!JournalOf, FT!Disposition, FP!Disposition,
       FT!BackupVerifies, FP!BackupVerifies, FT!BeforeBytes, FP!BeforeBytes,
       FT!fileVars, FP!fileVars, FT!envVars, FP!envVars

LEMMA SameNext == [FT!Next]_storeVars => [FP!Next]_FP!vars
BY SameStart, SameStep
   DEF storeVars, FP!vars, FT!Next, FP!Next, FT!Return, FP!Return,
       FT!Environment, FP!Environment, FT!IoError, FP!IoError, FT!Crash, FP!Crash,
       FT!TargetUnseen, FP!TargetUnseen,
       FT!Edit, FP!Edit, FT!DamageBackup, FP!DamageBackup, FT!ResultPC, FP!ResultPC,
       FT!Goto, FP!Goto, FT!Idle, FP!Idle, FT!Inside, FP!Inside,
       FT!FileState, FP!FileState, FT!Contents, FP!Contents,
       FT!fileVars, FP!fileVars, FT!envVars, FP!envVars

\* What FileTransaction assumes, of the definitions FP! names.
LEMMA StoreAssumed ==
    /\ None \notin FP!Contents /\ None \notin FP!Journal /\ None \notin FP!Call
    /\ None \notin Txs /\ Damaged \notin FP!FileState
    /\ UserBytes \intersect PlanBytes = {}
    /\ MaxEdits \in Nat /\ MaxFaults \in Nat /\ MaxDamage \in Nat
    /\ RacingEdits \in BOOLEAN
BY NoneIsNoRecord, StoreAssumptions
   DEF FP!Contents, FT!Contents, FP!FileState, FT!FileState, FP!Journal, FT!Journal,
       FP!Call, FT!Call, FP!ApplyPC, FT!ApplyPC, FP!RestorePC, FT!RestorePC,
       FP!ResultPC, FT!ResultPC

LEMMA StoreInit == Init => FP!Init
BY DEF Init, FT!Init, FP!Init

LEMMA StoreInvInit == Init => FP!FileInv /\ FP!KeepInv
BY StoreInit, StoreAssumed, FP!FileInvInit DEF FP!FileInvInit

LEMMA StoreInvNext ==
    ASSUME MigrationInv, FP!FileInv, [Next]_vars
    PROVE  FP!FileInv'
<1>1. CASE [FT!Next]_storeVars
  BY <1>1, SameNext, StoreAssumed, FP!FileInvStep DEF FP!FileInvStep
<1>2. ASSUME NEW p \in Procs, NEW x \in Txs, FT!UndoCheck(p, x, "committed")
      PROVE  FP!FileInv'
  <2>1. FP!UndoCheck(p, x, "committed")
    BY <1>2, SameUndo
  <2> QED
    BY <2>1, StoreAssumed, FP!UndoCheckInv DEF FP!UndoCheckInv
<1> QED
  BY <1>1, <1>2, CommandsCallTheStore DEF StaleCheck

LEMMA StoreKeepsNext ==
    ASSUME ~RacingEdits, MigrationInv, FP!FileInv, FP!KeepInv, [Next]_vars
    PROVE  FP!KeepInv'
<1>1. FP!FileInv'
  BY StoreInvNext
<1>2. CASE [FT!Next]_storeVars
  BY <1>1, <1>2, SameNext, StoreAssumed, FP!KeepInvStep DEF FP!KeepInvStep
<1>3. ASSUME NEW p \in Procs, NEW x \in Txs, FT!UndoCheck(p, x, "committed")
      PROVE  FP!KeepInv'
  <2>1. FP!UndoCheck(p, x, "committed")
    BY <1>3, SameUndo
  <2> QED
    BY <1>1, <2>1, StoreAssumed, FP!UndoCheckKeeps DEF FP!UndoCheckKeeps
<1> QED
  BY <1>2, <1>3, CommandsCallTheStore DEF StaleCheck

\* Whatever commands run side by side and wherever they stop: a journal on disk
\* has its backup, and no target holds bytes that nothing explains.
THEOREM CommandsLeaveEvidence ==
    Spec => [](FT!BackupsComplete /\ FT!TargetsExplained)
<1>1. Init => FP!FileInv
  BY StoreInvInit
<1>2. MigrationInv /\ FP!FileInv /\ [Next]_vars => FP!FileInv'
  BY StoreInvNext
<1>3. FP!FileInv => FT!BackupsComplete /\ FT!TargetsExplained
  BY DEF FP!FileInv, FP!BackupsComplete, FT!BackupsComplete, FP!BackedUp, FT!BackedUp,
         FP!TargetsExplained, FT!TargetsExplained, FP!Explains, FT!Explains
<1> QED
  BY <1>1, <1>2, <1>3, MigrationSafety, PTL DEF Spec

\* Unless an edit races a call, no apply, undo or recovery, and no rollback with
\* a stale copy of a journal, loses the bytes only the user has.
THEOREM CommandsKeepUserBytes ==
    ASSUME ~RacingEdits PROVE Spec => []FT!UserBytesKept
<1>1. Init => FP!FileInv /\ FP!KeepInv
  BY StoreInvInit
<1>2. MigrationInv /\ FP!FileInv /\ FP!KeepInv /\ [Next]_vars => (FP!FileInv /\ FP!KeepInv)'
  BY StoreInvNext, StoreKeepsNext
<1>3. FP!KeepInv => FT!UserBytesKept
  BY DEF FP!KeepInv, FP!UserBytesKept, FT!UserBytesKept, FP!Kept, FT!Kept
<1> QED
  BY <1>1, <1>2, <1>3, MigrationSafety, PTL DEF Spec

\* One command at a time: the copy of the journal that rollback_all holds is
\* that of the disk.
LEMMA NoStaleCheck ==
    ASSUME OneAtATime, MigrationInv, OwnInv, [Next]_vars
    PROVE  [FT!Next]_storeVars
<1>1. ASSUME NEW p \in Procs, NEW x \in Txs, RollbackNext(p), x \in cli[p].txs,
             FT!UndoCheck(p, x, "committed")
      PROVE  FT!Next
  <2>1. calls[p] = None
    BY <1>1 DEF FT!UndoCheck, FT!Idle
  <2>2. JournalIs(x, "committed")
    BY <1>1, <2>1 DEF RollbackNext, Runs, OwnInv, TxsCommitted
  <2>3. FT!Start(p)
    BY <1>1, <2>2 DEF JournalIs, FT!Start
  <2> QED
    BY <2>3 DEF FT!Next
<1> QED
  BY <1>1, CommandsCallTheStore DEF StaleCheck

LEMMA ReversesNext ==
    ASSUME OneAtATime, ~RacingEdits, MigrationInv, OwnInv, FP!ReverseInv, [Next]_vars
    PROVE  FP!ReverseInv'
<1>1. FP!OneProcess /\ [FP!Next]_FP!vars
  BY NoStaleCheck, SameNext DEF FP!OneProcess, OneAtATime
<1> QED
  BY <1>1, StoreAssumed, FP!ReverseInvStep DEF FP!ReverseInvStep

LEMMA ReversesMaps ==
    ASSUME OneAtATime, MigrationInv, OwnInv, FP!ReverseInv, [Next]_vars
    PROVE  [FT!Reversible!Next]_<<files, journals, edits, FT!Unseen>>
<1>1. [FP!Next]_FP!vars
  BY NoStaleCheck, SameNext
<1>2. FP!OneProcess
  BY DEF FP!OneProcess, OneAtATime
<1>3. [FP!Reversible!Next]_<<files, journals, edits, FP!Unseen>>
  BY <1>1, <1>2, StoreAssumed, FP!NextMaps DEF FP!NextMaps
<1>4. FP!Unseen = FT!Unseen /\ FP!Unseen' = FT!Unseen'
  BY DEF FP!Unseen, FT!Unseen
<1> QED
  BY <1>3, <1>4
     DEF FP!Reversible!Next, FT!Reversible!Next, FP!Reversible!Open, FT!Reversible!Open,
         FP!Reversible!Install, FT!Reversible!Install, FP!Reversible!Settle,
         FT!Reversible!Settle, FP!Reversible!Restore, FT!Reversible!Restore,
         FP!Reversible!Close, FT!Reversible!Close, FP!Reversible!UserEdit,
         FT!Reversible!UserEdit, FP!Reversible!Miss, FT!Reversible!Miss,
         FP!Reversible!Abandon, FT!Reversible!Abandon, FP!Reversible!LookAgain,
         FT!Reversible!LookAgain, FP!Reversible!Opened, FT!Reversible!Opened,
         FP!Reversible!Holds, FT!Reversible!Holds, FP!Reversible!Closed,
         FT!Reversible!Closed, FP!Reversible!Mark, FT!Reversible!Mark,
         FP!Reversible!Put, FT!Reversible!Put, FP!FileState, FT!FileState,
         FP!Contents, FT!Contents

\* One command at a time and edits that do not race a call: through every
\* apply, rollback, undo and recovery, error and crash, each step on the files is
\* one of the reversible replacement.
THEOREM CommandsAreReversible ==
    ASSUME OneAtATime, ~RacingEdits PROVE Spec => FilesAreReversible
<1>1. Init => OwnInv /\ FP!ReverseInv
  BY OwnInvInit, StoreInvInit DEF FP!ReverseInv, FP!CallReverses, Init, FT!Init
<1>2. Init => FT!Reversible!Init
  BY DEF Init, FT!Init, FT!Reversible!Init, FT!FileState, FT!Contents, FT!Unseen
<1>3. MigrationInv /\ OwnInv /\ FP!ReverseInv /\ [Next]_vars => (OwnInv /\ FP!ReverseInv)'
  BY OwnInvNext, ReversesNext
<1>4. MigrationInv /\ OwnInv /\ FP!ReverseInv /\ [Next]_vars
        => [FT!Reversible!Next]_<<files, journals, edits, FT!Unseen>>
  BY ReversesMaps
<1> QED
  BY <1>1, <1>2, <1>3, <1>4, MigrationSafety, PTL
     DEF Spec, FilesAreReversible, FT!Implements, FT!Reversible!Spec

-----------------------------------------------------------------------------
(* The integration commands keep the records of the migration commands. *)

LEMMA InstallStartInv ==
    ASSUME MigrationInv, NEW p \in Procs, NEW o \in Ops, NEW t \in Targets,
           NEW template \in Templates, InstallStart(p, o, t, template)
    PROVE  MigrationInv'
<1> USE DEF InstallStart
<1>1. TypeOK /\ calls[p] = None
  BY FreeIsIdle DEF MigrationInv, CallOf, Runs, Free
<1> DEFINE w == [target |-> t, expected |-> None, new |-> template]
           c == [cmd |-> "install", op |-> o, pc |-> "next", plan |-> {w}, txs |-> {},
                 ok |-> TRUE, finish |-> TRUE]
<1>2. w \in Write
  BY DEF Write, FT!FileState, Templates
<1>3. c \in Command /\ c.txs = {}
  BY <1>2, NoneIsNoRecord DEF Command
<1>4. cli' = [cli EXCEPT ![p] = c]
  BY DEF Begin
<1> HIDE DEF c
<1>5. /\ cli' \in [Procs -> Command \union {None}]
      /\ cli'[p] = c /\ \A q \in Procs \ {p} : cli'[q] = cli[q]
  BY <1>1, <1>3, <1>4, CliTypes
<1>6. L!TypeOK'
  BY <1>1 DEF TypeOK, L!TypeOK, L!BeginOperation, L!OperationStatus
<1>7. TypeOK'
  BY <1>1, <1>5, <1>6 DEF TypeOK, FT!TypeOK, storeVars
<1> QED
  BY <1>1, <1>3, <1>5, <1>7, Plain DEF L!BeginOperation, storeVars

LEMMA InstallRecordInv ==
    ASSUME MigrationInv, NEW p \in Procs, InstallRecord(p) \/ InstallRecordError(p)
    PROVE  MigrationInv'
<1>1. TypeOK /\ cli[p] \in Command /\ cli[p] # None /\ cli[p].cmd = "install"
      /\ FT!Return(p) /\ Runs(p, "install", "call") /\ CallIs(p, "done")
      /\ UNCHANGED origin /\ stops' \in Nat
  BY DEF InstallRecord, InstallRecordError, Runs, MigrationInv, TypeOK, LedgerFails
<1>2. calls[p].tx \in Txs /\ \A x \in Txs : x = calls[p].tx => Settled(x)'
  BY <1>1, TxSettles
<1>3. PICK c \in Command :
        /\ cli' = [cli EXCEPT ![p] = c]
        /\ c.txs \subseteq cli[p].txs \union {calls[p].tx}
        /\ RecordCall(p) \/ UNCHANGED ledgerVars
  <2>1. CASE InstallRecord(p)
    <3> DEFINE c == [cli[p] EXCEPT !.pc = "next"]
    <3>1. c \in Command /\ c.txs = cli[p].txs
      BY <1>1 DEF Command
    <3>2. cli' = [cli EXCEPT ![p] = c] /\ RecordCall(p)
      BY <2>1 DEF InstallRecord, Proceed
    <3> QED
      BY <3>1, <3>2
  <2>2. CASE InstallRecordError(p)
    <3> DEFINE c == [cli[p] EXCEPT !.pc = "rollback", !.txs = {calls[p].tx}]
    <3>1. c \in Command /\ c.txs = {calls[p].tx}
      BY <1>1, <1>2 DEF Command
    <3>2. /\ cli' = [cli EXCEPT ![p] = c]
          /\ RecordCall(p) \/ UNCHANGED ledgerVars
      BY <2>2 DEF InstallRecordError
    <3> QED
      BY <3>1, <3>2
  <2> QED
    BY <2>1, <2>2
<1>4. CASE RecordCall(p)
  BY <1>1, <1>3, <1>4, RecordRow
<1>5. CASE UNCHANGED ledgerVars
  <2>1. \A x \in c.txs : Settled(x)'
    BY <1>1, <1>2, <1>3, TxsStay
  <2>2. L!TypeOK' /\ UNCHANGED <<transactions, changes>>
    BY <1>1, <1>5 DEF ledgerVars, TypeOK, L!TypeOK
  <2> QED
    BY <1>1, <1>3, <2>1, <2>2, Returned
<1> QED
  BY <1>3, <1>4, <1>5

LEMMA InstallUndoInv ==
    ASSUME MigrationInv, NEW p \in Procs, InstallUndo(p)
    PROVE  MigrationInv'
<1>1. cli[p] \in Command /\ cli[p] # None /\ cli[p].cmd = "install"
  BY DEF InstallUndo, Runs, MigrationInv, TypeOK
<1>2. PICK x \in cli[p].txs : FT!UndoCheck(p, x, "committed")
  BY DEF InstallUndo
<1> DEFINE c == [cli[p] EXCEPT !.pc = "reverting"]
<1>3. c \in Command /\ c.cmd = "install" /\ c.pc = "reverting" /\ c.txs = cli[p].txs
  BY <1>1 DEF Command
<1>4. cli' = [cli EXCEPT ![p] = c]
  BY DEF InstallUndo, Proceed
<1> HIDE DEF c
<1>5. x \in Txs /\ \A y \in c.txs : Settled(y)
  BY <1>1, <1>3 DEF MigrationInv, CommandInv, Command
<1> QED
  BY <1>2, <1>3, <1>4, <1>5, Loads DEF InstallUndo

LEMMA InstallUndoneInv ==
    ASSUME MigrationInv, NEW p \in Procs, InstallUndone(p)
    PROVE  MigrationInv'
<1>1. TypeOK /\ cli[p] \in Command /\ cli[p] # None /\ cli[p].cmd = "install"
      /\ FT!Return(p) /\ UNCHANGED origin /\ stops' \in Nat
  BY DEF InstallUndone, Runs, MigrationInv, TypeOK, LedgerFails
<1>2. cli[p].op \in Ops /\ "rolled-back" \in L!OperationStatus
  BY <1>1 DEF Command, L!OperationStatus
<1>3. L!TypeOK' /\ UNCHANGED <<transactions, changes>>
  BY <1>2, OperationsOnly DEF InstallUndone
<1>4. cli' = [cli EXCEPT ![p] = None]
  BY DEF InstallUndone, Exit
<1> QED
  BY <1>1, <1>3, <1>4, Returned

LEMMA UninstallReadInv ==
    ASSUME MigrationInv, NEW p \in Procs, NEW t \in Targets, NEW template \in Templates,
           UninstallRead(p, t, template)
    PROVE  MigrationInv'
<1> USE DEF UninstallRead
<1>1. TypeOK /\ calls[p] = None
  BY FreeIsIdle DEF MigrationInv, CallOf, Runs, Free
<1> DEFINE w == [target |-> t, expected |-> files[t], new |-> template]
           c == [cmd |-> "uninstall", op |-> None, pc |-> "hashed", plan |-> {w},
                 txs |-> {}, ok |-> TRUE, finish |-> TRUE]
<1>2. w \in Write
  BY <1>1 DEF Write, TypeOK, FT!TypeOK, Templates
<1>3. c \in Command /\ c.txs = {}
  BY <1>2 DEF Command
<1>4. cli' = [cli EXCEPT ![p] = c]
  BY DEF Begin
<1> HIDE DEF c
<1>5. /\ cli' \in [Procs -> Command \union {None}]
      /\ cli'[p] = c /\ \A q \in Procs \ {p} : cli'[q] = cli[q]
  BY <1>1, <1>3, <1>4, CliTypes
<1>6. TypeOK'
  BY <1>1, <1>5 DEF TypeOK, FT!TypeOK, L!TypeOK, storeVars, ledgerVars
<1> QED
  BY <1>1, <1>3, <1>5, <1>6, Plain DEF ledgerVars, storeVars

\* Between hashing and forgetting, uninstall writes no record.
LEMMA UninstallMovesInv ==
    ASSUME MigrationInv, NEW p \in Procs,
           UninstallCheck(p) \/ UninstallRemove(p) \/ UninstallError(p)
    PROVE  MigrationInv'
<1>1. /\ TypeOK /\ calls[p] = None
      /\ cli[p] \in Command /\ cli[p] # None /\ cli[p].txs \subseteq Txs
  BY FreeIsIdle
     DEF MigrationInv, CallOf, Runs, UninstallCheck, UninstallRemove, UninstallError,
         TypeOK, Command
<1>2. /\ UNCHANGED <<journals, backups, calls, user, edits, faults, damage, ledgerVars,
                     origin, stops>>
      /\ files' \in [Targets -> FT!FileState]
  BY <1>1 DEF UninstallCheck, UninstallRemove, UninstallError, storeVars, TypeOK,
     FT!TypeOK, FT!FileState
<1>3. PICK c \in Command \union {None} :
        cli' = [cli EXCEPT ![p] = c] /\ (c # None => c.txs = cli[p].txs)
  <2>1. CASE cli' = [cli EXCEPT ![p] = None]
    BY <2>1
  <2>2. ASSUME NEW pc \in {"checked", "removed"}, Proceed(p, pc)
        PROVE  \E c \in Command \union {None} :
                  cli' = [cli EXCEPT ![p] = c] /\ (c # None => c.txs = cli[p].txs)
    <3> DEFINE c == [cli[p] EXCEPT !.pc = pc]
    <3>1. c \in Command /\ c.txs = cli[p].txs
      BY <1>1 DEF Command
    <3> QED
      BY <2>2, <3>1 DEF Proceed
  <2> QED
    BY <2>1, <2>2 DEF UninstallCheck, UninstallRemove, UninstallError, Exit
<1>4. /\ cli' \in [Procs -> Command \union {None}]
      /\ cli'[p] = c /\ \A q \in Procs \ {p} : cli'[q] = cli[q]
  BY <1>1, <1>3, CliTypes
<1>5. TypeOK'
  BY <1>1, <1>2, <1>4 DEF TypeOK, FT!TypeOK, L!TypeOK, ledgerVars
<1>6. \A x \in cli[p].txs : Settled(x)
  BY <1>1 DEF MigrationInv, CommandInv
<1> QED
  BY <1>1, <1>2, <1>3, <1>4, <1>5, <1>6, Plain DEF ledgerVars

LEMMA UninstallForgetInv ==
    ASSUME MigrationInv, NEW p \in Procs, UninstallForget(p)
    PROVE  MigrationInv'
<1>1. TypeOK /\ calls[p] = None /\ cli[p] # None
  BY FreeIsIdle DEF UninstallForget, MigrationInv, CallOf, Runs
<1>2. /\ cli' = [cli EXCEPT ![p] = None]
      /\ UNCHANGED <<storeVars, origin, transactions, changes, operations>>
      /\ stops' \in Nat
  BY <1>1 DEF UninstallForget, Exit, LedgerFails, L!RemoveManagedObject, ledgerVars, TypeOK
<1>3. L!TypeOK'
  BY <1>1, <1>2 DEF UninstallForget, L!RemoveManagedObject, ledgerVars, TypeOK, L!TypeOK
<1>4. TypeOK' /\ cli'[p] = None /\ \A q \in Procs \ {p} : cli'[q] = cli[q]
  BY <1>1, <1>2, <1>3 DEF TypeOK, FT!TypeOK, storeVars
<1> QED
  BY <1>1, <1>2, <1>4, Plain DEF storeVars

LEMMA IntegrationKeepsInv == MigrationInv /\ [IntegrationNext]_vars => MigrationInv'
<1> SUFFICES ASSUME MigrationInv, [IntegrationNext]_vars PROVE MigrationInv'
  OBVIOUS
<1>1. ASSUME NEW p \in Procs, Install(p) PROVE MigrationInv'
  <2>1. ASSUME NEW x \in Txs, ~Free(p), NEW w \in cli[p].plan, InstallWrite(p, w, x)
        PROVE  MigrationInv'
    <3>1. w \in Write
      BY <2>1 DEF Free, MigrationInv, TypeOK, Command
    <3> QED
      BY <2>1, <3>1, ApplyNextInv
  <2> QED
    BY <1>1, <2>1, InstallStartInv, ExitInv, InstallRecordInv, InstallUndoInv,
       InstallUndoneInv, EndInv DEF Install
<1>2. ASSUME NEW p \in Procs, Uninstall(p) PROVE MigrationInv'
  BY <1>2, UninstallReadInv, UninstallMovesInv, UninstallForgetInv DEF Uninstall
<1>3. ASSUME NEW p \in Procs, Undo(p) \/ Recover(p) \/ Crash(p) PROVE MigrationInv'
  BY <1>3, UndoStartInv, UndoNextInv, UndoLedgerInv, ExitInv, EndInv,
     RecoverStartInv, CrashInv DEF Undo, Recover
<1>4. ASSUME InStore, NEW p \in Procs,
             FT!Step(p) \/ FT!IoError(p) \/ FT!TargetUnseen(p)
      PROVE  MigrationInv'
  BY <1>4, MoveSteps, WriteSteps DEF FT!Step
<1>5. ASSUME InStore, NEW t \in Targets, NEW c \in FT!FileState, FT!Edit(t, c)
      PROVE  MigrationInv'
  BY <1>5, EnvironmentInv DEF FT!Edit, FT!TypeOK, MigrationInv, TypeOK
<1> QED
  BY <1>1, <1>2, <1>3, <1>4, <1>5, StutterInv DEF IntegrationNext

\* Installing and uninstalling keep every record well-typed, and the ledger
\* behind the journals, with any number of processes.
THEOREM IntegrationSafety == IntegrationSpec => []MigrationInv
  BY MigrationInvInit, IntegrationKeepsInv, PTL DEF IntegrationSpec

THEOREM IntegrationFollowsJournals == IntegrationSpec => []RowsFollowJournals
<1>1. MigrationInv => RowsFollowJournals
  BY DEF MigrationInv, RowInv, RowsFollowJournals, Settled
<1> QED
  BY <1>1, IntegrationSafety, PTL

-----------------------------------------------------------------------------
(* The user's Skills *)

\* A call about to write its target has found no bytes of the user there, and
\* what it would put back is no file.
CallSpares(p) ==
    calls[p] # None /\ calls[p].pc # "err" =>
        /\ calls[p].before = None
        /\ calls[p].pc \in {"read", "backed", "prepared", "checked"} =>
                files[calls[p].target] \notin UserBytes

\* Install plans to write where there is nothing; what uninstall is about to
\* remove had, when it was hashed, the bytes of this version's Skill.
Spares(c) ==
    /\ c.cmd = "install" => \A w \in c.plan : w.expected = None
    /\ c.cmd = "uninstall" =>
        /\ \A v, w \in c.plan : v = w
        /\ c.pc = "checked" => \A w \in c.plan : w.expected = w.new

PlanSpares(p) == cli[p] # None => Spares(cli[p])

JournalsOfNewFiles == \A x \in Txs : journals[x] # None => journals[x].before = None

SkillInv ==
    /\ JournalsOfNewFiles
    /\ \A p \in Procs : CallSpares(p) /\ PlanSpares(p)

\* Only the user writes the user's bytes.
WritesNoUserBytes ==
    \A t \in Targets : files'[t] = files[t] \/ files'[t] \notin UserBytes

LEMMA SkillLocal ==
    ASSUME MigrationInv, SkillInv, NEW p \in Procs, WritesNoUserBytes,
           \A q \in Procs \ {p} : calls'[q] = calls[q] /\ cli'[q] = cli[q],
           JournalsOfNewFiles', CallSpares(p)', PlanSpares(p)'
    PROVE  SkillInv'
<1>1. ASSUME NEW q \in Procs \ {p} PROVE CallSpares(q)' /\ PlanSpares(q)'
  <2>1. calls[q] # None => calls[q].target \in Targets
    BY DEF MigrationInv, TypeOK, FT!TypeOK, FT!Call
  <2> QED
    BY <2>1 DEF SkillInv, CallSpares, PlanSpares, WritesNoUserBytes
<1> QED
  BY <1>1 DEF SkillInv

\* The command moves on and p's call ends or has not begun.
LEMMA SkillQuiet ==
    ASSUME MigrationInv, SkillInv, NEW p \in Procs, UNCHANGED journals, WritesNoUserBytes,
           calls'[p] = None, \A q \in Procs \ {p} : calls'[q] = calls[q],
           NEW c, cli' = [cli EXCEPT ![p] = c], c # None => Spares(c)
    PROVE  SkillInv'
<1>1. cli'[p] = c /\ \A q \in Procs \ {p} : cli'[q] = cli[q]
  BY DEF MigrationInv, TypeOK
<1>2. CallSpares(p)' /\ PlanSpares(p)'
  BY <1>1 DEF CallSpares, PlanSpares
<1>3. JournalsOfNewFiles'
  BY DEF SkillInv, JournalsOfNewFiles
<1> QED
  BY <1>1, <1>2, <1>3, SkillLocal

\* A command whose plan only shrinks keeps its promise.
LEMMA PlanShrinks ==
    ASSUME MigrationInv, SkillInv, NEW p \in Procs, cli[p] # None,
           cli[p].cmd # "uninstall",
           NEW c, c.cmd = cli[p].cmd, c.plan \subseteq cli[p].plan
    PROVE  Spares(c)
BY DEF SkillInv, PlanSpares, Spares

LEMMA NoCallStays ==
    ASSUME MigrationInv, NEW p \in Procs, CallOf(p) = {}, UNCHANGED storeVars
    PROVE  /\ UNCHANGED journals /\ WritesNoUserBytes /\ calls'[p] = None
           /\ \A q \in Procs \ {p} : calls'[q] = calls[q]
BY FreeIsIdle DEF storeVars, WritesNoUserBytes

LEMMA ReturnStays ==
    ASSUME MigrationInv, NEW p \in Procs, FT!Return(p)
    PROVE  /\ UNCHANGED journals /\ WritesNoUserBytes /\ calls'[p] = None
           /\ \A q \in Procs \ {p} : calls'[q] = calls[q]
BY DEF FT!Return, FT!fileVars, FT!envVars, MigrationInv, TypeOK, FT!TypeOK,
       WritesNoUserBytes

LEMMA SkillEnds ==
    ASSUME MigrationInv, SkillInv, NEW p \in Procs,
           \/ InstallError(p) \/ InstallUndone(p) \/ InstallEnd(p)
           \/ UninstallError(p) \/ UninstallForget(p)
           \/ UndoError(p) \/ UndoEnd(p) \/ RecoverEnd(p) \/ Crash(p)
    PROVE  SkillInv'
<1>1. cli' = [cli EXCEPT ![p] = None]
  BY DEF InstallError, InstallUndone, InstallEnd, UninstallError, UninstallForget,
         UndoError, UndoEnd, RecoverEnd, Crash, Exit
<1>2. /\ UNCHANGED journals /\ WritesNoUserBytes /\ calls'[p] = None
      /\ \A q \in Procs \ {p} : calls'[q] = calls[q]
  <2>1. CASE InstallError(p) \/ InstallUndone(p) \/ UndoError(p) \/ RecoverEnd(p)
    BY <2>1, ReturnStays DEF InstallError, InstallUndone, UndoError, RecoverEnd
  <2>2. CASE InstallEnd(p) \/ UninstallError(p) \/ UninstallForget(p) \/ UndoEnd(p)
    BY <2>2, NoCallStays
       DEF InstallEnd, UninstallError, UninstallForget, UndoEnd, CallOf, Runs
  <2>3. CASE Crash(p)
    BY <2>3 DEF Crash, FT!Crash, FT!Idle, FT!fileVars, storeVars, MigrationInv, TypeOK,
       FT!TypeOK, WritesNoUserBytes
  <2> QED
    BY <2>1, <2>2, <2>3
<1> QED
  BY <1>1, <1>2, SkillQuiet

LEMMA SkillGoesOn ==
    ASSUME MigrationInv, SkillInv, NEW p \in Procs,
           InstallRecord(p) \/ InstallRecordError(p) \/ UndoLedger(p)
    PROVE  SkillInv'
<1>1. FT!Return(p) /\ cli[p] \in Command /\ cli[p] # None
  BY DEF InstallRecord, InstallRecordError, UndoLedger, Runs, MigrationInv, TypeOK
<1>2. PICK c : /\ cli' = [cli EXCEPT ![p] = c]
               /\ c = None \/ (c.cmd = cli[p].cmd /\ c.plan \subseteq cli[p].plan)
  <2>1. CASE InstallRecord(p)
    <3> DEFINE c == [cli[p] EXCEPT !.pc = "next"]
    <3>1. c.cmd = cli[p].cmd /\ c.plan = cli[p].plan
      BY <1>1 DEF Command
    <3>2. cli' = [cli EXCEPT ![p] = c]
      BY <2>1 DEF InstallRecord, Proceed
    <3> QED
      BY <3>1, <3>2
  <2>2. CASE InstallRecordError(p)
    <3> DEFINE c == [cli[p] EXCEPT !.pc = "rollback", !.txs = {calls[p].tx}]
    <3>1. c.cmd = cli[p].cmd /\ c.plan = cli[p].plan
      BY <1>1 DEF Command
    <3>2. cli' = [cli EXCEPT ![p] = c]
      BY <2>2 DEF InstallRecordError
    <3> QED
      BY <3>1, <3>2
  <2>3. CASE UndoLedger(p)
    <3> DEFINE c == [cli[p] EXCEPT !.pc = "next", !.txs = @ \ {calls[p].tx}]
    <3>1. c.cmd = cli[p].cmd /\ c.plan = cli[p].plan
      BY <1>1 DEF Command
    <3>2. cli' = [cli EXCEPT ![p] = c] \/ cli' = [cli EXCEPT ![p] = None]
      BY <2>3 DEF UndoLedger, Exit
    <3> QED
      BY <3>1, <3>2
  <2> QED
    BY <2>1, <2>2, <2>3
<1>3. c # None => Spares(c)
  BY <1>1, <1>2, PlanShrinks DEF InstallRecord, InstallRecordError, UndoLedger, Runs
<1> QED
  BY <1>1, <1>2, <1>3, ReturnStays, SkillQuiet

\* Install and uninstall are the only commands that begin with a plan.
LEMMA SkillStarts ==
    ASSUME MigrationInv, SkillInv, NEW p \in Procs,
           \/ \E o \in Ops : UndoStart(p, o)
           \/ \E o \in Ops, t \in Targets, template \in Templates :
                    InstallStart(p, o, t, template)
           \/ \E t \in Targets, template \in Templates : UninstallRead(p, t, template)
    PROVE  SkillInv'
<1>1. UNCHANGED storeVars /\ CallOf(p) = {}
  BY DEF UndoStart, InstallStart, UninstallRead, CallOf, Runs, Free
<1>2. PICK c : cli' = [cli EXCEPT ![p] = c] /\ Spares(c)
  <2>1. ASSUME NEW o \in Ops, UndoStart(p, o)
        PROVE  \E txs : Begin(p, "undo", o, {}, txs, "next")
    BY <2>1 DEF UndoStart
  <2>2. ASSUME NEW o \in Ops, NEW txs, Begin(p, "undo", o, {}, txs, "next")
        PROVE  \E c : cli' = [cli EXCEPT ![p] = c] /\ Spares(c)
    <3> DEFINE c == [cmd |-> "undo", op |-> o, pc |-> "next", plan |-> {}, txs |-> txs,
                     ok |-> TRUE, finish |-> TRUE]
    <3>1. cli' = [cli EXCEPT ![p] = c] /\ Spares(c)
      BY <2>2 DEF Begin, Spares
    <3> QED
      BY <3>1
  <2>3. ASSUME NEW o \in Ops, NEW t \in Targets, NEW template \in Templates,
               InstallStart(p, o, t, template)
        PROVE  \E c : cli' = [cli EXCEPT ![p] = c] /\ Spares(c)
    <3> DEFINE c == [cmd |-> "install", op |-> o, pc |-> "next",
                     plan |-> {[target |-> t, expected |-> None, new |-> template]},
                     txs |-> {}, ok |-> TRUE, finish |-> TRUE]
    <3>1. cli' = [cli EXCEPT ![p] = c] /\ Spares(c)
      BY <2>3 DEF InstallStart, Begin, Spares
    <3> QED
      BY <3>1
  <2>4. ASSUME NEW t \in Targets, NEW template \in Templates, UninstallRead(p, t, template)
        PROVE  \E c : cli' = [cli EXCEPT ![p] = c] /\ Spares(c)
    <3> DEFINE c == [cmd |-> "uninstall", op |-> None, pc |-> "hashed",
                     plan |-> {[target |-> t, expected |-> files[t], new |-> template]},
                     txs |-> {}, ok |-> TRUE, finish |-> TRUE]
    <3>1. cli' = [cli EXCEPT ![p] = c] /\ Spares(c)
      BY <2>4 DEF UninstallRead, Begin, Spares
    <3> QED
      BY <3>1
  <2> QED
    BY <2>1, <2>2, <2>3, <2>4
<1> QED
  BY <1>1, <1>2, NoCallStays, SkillQuiet

\* Uninstall goes on only with the Skill this version would install.
LEMMA SkillRemoved ==
    ASSUME MigrationInv, SkillInv, NEW p \in Procs, UninstallCheck(p) \/ UninstallRemove(p)
    PROVE  SkillInv'
<1>1. /\ cli[p] # None /\ cli[p] \in Command /\ cli[p].cmd = "uninstall"
      /\ Spares(cli[p]) /\ calls[p] = None
  BY FreeIsIdle DEF UninstallCheck, UninstallRemove, Runs, CallOf, MigrationInv, TypeOK,
     SkillInv, PlanSpares
<1>2. UNCHANGED <<calls, journals>>
  BY DEF UninstallCheck, UninstallRemove, storeVars
<1>3. WritesNoUserBytes
  BY NoneIsNoRecord
     DEF UninstallCheck, UninstallRemove, storeVars, WritesNoUserBytes, MigrationInv, TypeOK,
         FT!TypeOK, FT!Contents
<1>4. PICK c : cli' = [cli EXCEPT ![p] = c] /\ (c # None => Spares(c))
  <2>1. CASE Exit(p)
    BY <2>1 DEF Exit
  <2>2. ASSUME NEW w \in cli[p].plan, Uninstallable(w), Proceed(p, "checked")
        PROVE  \E c : cli' = [cli EXCEPT ![p] = c] /\ Spares(c)
    <3> DEFINE c == [cli[p] EXCEPT !.pc = "checked"]
    <3>1. c.cmd = "uninstall" /\ c.plan = cli[p].plan
      BY <1>1 DEF Command
    <3>2. Spares(c)
      BY <1>1, <2>2, <3>1 DEF Spares, Uninstallable
    <3> QED
      BY <2>2, <3>2 DEF Proceed
  <2>3. CASE Proceed(p, "removed")
    <3> DEFINE c == [cli[p] EXCEPT !.pc = "removed"]
    <3>1. c.cmd = "uninstall" /\ c.plan = cli[p].plan /\ c.pc = "removed"
      BY <1>1 DEF Command
    <3>2. Spares(c)
      BY <1>1, <3>1 DEF Spares
    <3> QED
      BY <2>3, <3>2 DEF Proceed
  <2> QED
    BY <2>1, <2>2, <2>3 DEF UninstallCheck, UninstallRemove
<1> QED
  BY <1>1, <1>2, <1>3, <1>4, SkillQuiet

\* apply_file finds no file, so no bytes of the user.
LEMMA SkillWrites ==
    ASSUME MigrationInv, SkillInv, NEW p \in Procs, NEW x \in Txs, NEW w \in cli[p].plan,
           cli[p] # None, InstallWrite(p, w, x)
    PROVE  SkillInv'
<1>1. /\ FT!TypeOK /\ cli[p] \in Command /\ cli[p].cmd = "install" /\ w \in Write
      /\ w.expected = None
  BY DEF InstallWrite, Runs, MigrationInv, TypeOK, Command, SkillInv, PlanSpares, Spares
<1> DEFINE c == [cli[p] EXCEPT !.pc = "call", !.plan = @ \ {w}]
<1>2. c.cmd = cli[p].cmd /\ c.plan \subseteq cli[p].plan
  BY <1>1 DEF Command
<1>3. cli' = [cli EXCEPT ![p] = c]
  BY DEF InstallWrite
<1> HIDE DEF c
<1>4. cli'[p] = c /\ \A q \in Procs \ {p} : cli'[q] = cli[q]
  BY <1>3 DEF MigrationInv, TypeOK
<1>5. PlanSpares(p)'
  BY <1>1, <1>2, <1>4, PlanShrinks DEF PlanSpares
<1>6. /\ UNCHANGED <<files, journals>>
      /\ \A q \in Procs \ {p} : calls'[q] = calls[q]
      /\ calls'[p].pc # "err" =>
            /\ calls'[p].before = None /\ calls'[p].target = w.target
            /\ files[w.target] = None
  BY <1>1 DEF InstallWrite, FT!ApplyRead, FT!ApplyStale, FT!fileVars, FT!envVars, FT!TypeOK
<1>7. None \notin UserBytes /\ w.target \in Targets
  BY <1>1, NoneIsNoRecord DEF FT!Contents, Write
<1>8. CallSpares(p)'
  BY <1>6, <1>7 DEF CallSpares
<1>9. WritesNoUserBytes /\ JournalsOfNewFiles'
  BY <1>6 DEF SkillInv, WritesNoUserBytes, JournalsOfNewFiles
<1> QED
  BY <1>4, <1>5, <1>6, <1>8, <1>9, SkillLocal

\* A reversal finds the bytes of a plan, which are not the user's.
LEMMA SkillLoads ==
    ASSUME MigrationInv, SkillInv, NEW p \in Procs,
           InstallUndo(p) \/ UndoNext(p) \/ \E x \in Txs : RecoverStart(p, x)
    PROVE  SkillInv'
<1>1. FT!TypeOK
  BY DEF MigrationInv, TypeOK
<1>2. PICK x \in Txs, fn \in {"undo", "recover"}, pc \in {"checked", "loaded", "err"} :
        /\ journals[x] # None /\ UNCHANGED <<FT!fileVars, FT!envVars>>
        /\ calls' = [calls EXCEPT ![p] = FT!Loaded(fn, pc, x)]
        /\ pc = "checked" => files[journals[x].target] = journals[x].after
  <2>1. CASE InstallUndo(p)
    <3>1. PICK x \in cli[p].txs : FT!UndoCheck(p, x, "committed")
      BY <2>1 DEF InstallUndo
    <3>2. x \in Txs
      BY <2>1 DEF InstallUndo, Runs, MigrationInv, TypeOK, Command
    <3> QED
      BY <3>1, <3>2 DEF FT!UndoCheck
  <2>2. CASE UndoNext(p)
    BY <2>2 DEF UndoNext, FT!UndoCheck
  <2>3. CASE \E x \in Txs : RecoverStart(p, x)
    BY <2>3 DEF RecoverStart, FT!RecoverLoad
  <2> QED
    BY <2>1, <2>2, <2>3
<1>3. journals[x].target \in Targets /\ journals[x].after \in PlanBytes
  BY <1>1, <1>2 DEF FT!TypeOK, FT!Journal
<1>4. /\ calls'[p].pc = pc /\ calls'[p].before = None
      /\ calls'[p].target = journals[x].target
      /\ UNCHANGED <<files, journals>>
      /\ \A q \in Procs \ {p} : calls'[q] = calls[q]
  BY <1>1, <1>2 DEF FT!TypeOK, FT!Loaded, SkillInv, JournalsOfNewFiles, FT!fileVars, FT!envVars
<1>5. CallSpares(p)'
  BY <1>2, <1>3, <1>4, StoreAssumptions DEF CallSpares
<1>6. WritesNoUserBytes /\ JournalsOfNewFiles'
  BY <1>4 DEF SkillInv, WritesNoUserBytes, JournalsOfNewFiles
<1>7. PICK c : /\ cli' = [cli EXCEPT ![p] = c]
               /\ \/ c.cmd = "recover"
                  \/ /\ cli[p] # None /\ cli[p].cmd # "uninstall"
                     /\ c.cmd = cli[p].cmd /\ c.plan \subseteq cli[p].plan
  <2>1. CASE InstallUndo(p) \/ UndoNext(p)
    <3>1. cli[p] # None /\ cli[p] \in Command /\ cli[p].cmd # "uninstall"
      BY <2>1 DEF InstallUndo, UndoNext, Runs, MigrationInv, TypeOK
    <3>2. PICK newpc \in {"reverting", "call"} : cli' = [cli EXCEPT ![p].pc = newpc]
      BY <2>1 DEF InstallUndo, UndoNext, Proceed
    <3> DEFINE c == [cli[p] EXCEPT !.pc = newpc]
    <3>3. c.cmd = cli[p].cmd /\ c.plan = cli[p].plan
      BY <3>1 DEF Command
    <3> QED
      BY <3>1, <3>2, <3>3
  <2>2. CASE \E y \in Txs : RecoverStart(p, y)
    <3>1. PICK y \in Txs : RecoverStart(p, y)
      BY <2>2
    <3> DEFINE c == [cmd |-> "recover", op |-> None, pc |-> "call", plan |-> {},
                     txs |-> {}, ok |-> TRUE, finish |-> TRUE]
    <3>2. cli' = [cli EXCEPT ![p] = c] /\ c.cmd = "recover"
      BY <3>1 DEF RecoverStart, Begin
    <3> QED
      BY <3>2
  <2> QED
    BY <2>1, <2>2
<1>8. cli'[p] = c /\ \A q \in Procs \ {p} : cli'[q] = cli[q]
  BY <1>7 DEF MigrationInv, TypeOK
<1>9. PlanSpares(p)'
  BY <1>7, <1>8, PlanShrinks DEF PlanSpares, Spares
<1> QED
  BY <1>4, <1>5, <1>6, <1>8, <1>9, SkillLocal

\* Inside a call: a target is written over only when the user's bytes are gone
\* from it.
LEMMA SkillSteps ==
    ASSUME MigrationInv, SkillInv, InStore, NEW p \in Procs,
           FT!Step(p) \/ FT!IoError(p) \/ FT!TargetUnseen(p)
    PROVE  SkillInv' /\ \A t \in Targets : files'[t] # files[t] => files[t] \notin UserBytes
<1> USE DEF FT!ApplyPC, FT!RestorePC, FT!ResultPC
<1>1. /\ FT!TypeOK /\ calls[p] # None /\ calls[p] \in FT!Call /\ CallSpares(p)
      /\ calls[p].target \in Targets /\ UNCHANGED cli
  BY DEF FT!Step, FT!ApplyBackup, FT!ApplyPrepare, FT!ApplyPersist, FT!ApplyCommit,
         FT!RecoverClassify, FT!RestoreBefore, FT!SaveRolledBack, FT!At, FT!IoError,
         FT!TargetUnseen, MigrationInv, TypeOK, FT!TypeOK, FT!Call, SkillInv, InStore
<1>2. ASSUME NEW pc \in FT!ApplyPC \union FT!RestorePC \union FT!ResultPC, FT!Goto(p, pc)
      PROVE  /\ calls'[p].pc = pc /\ calls'[p].before = calls[p].before
             /\ calls'[p].target = calls[p].target
             /\ \A q \in Procs \ {p} : calls'[q] = calls[q]
  BY <1>1, <1>2, GotoCall
<1>3. PlanSpares(p)'
  BY <1>1 DEF SkillInv, PlanSpares
<1> DEFINE Kept == \A t \in Targets : files'[t] # files[t] => files[t] \notin UserBytes
\* Neither the target nor a journal is written.
<1>4. ASSUME NEW pc \in FT!ApplyPC \union FT!RestorePC \union FT!ResultPC, FT!Goto(p, pc),
             UNCHANGED <<files, journals>>,
             pc # "err" => calls[p].pc # "err",
             pc \in {"read", "backed", "prepared", "checked"} =>
                files[calls[p].target] \notin UserBytes
      PROVE  SkillInv' /\ Kept
  <2>1. CallSpares(p)'
    BY <1>1, <1>2, <1>4 DEF CallSpares
  <2>2. WritesNoUserBytes /\ JournalsOfNewFiles' /\ Kept
    BY <1>4 DEF SkillInv, WritesNoUserBytes, JournalsOfNewFiles
  <2> QED
    BY <1>1, <1>2, <1>3, <1>4, <2>1, <2>2, SkillLocal
\* A journal is written.
<1>5. ASSUME NEW pc \in {"prepared", "done"}, FT!Goto(p, pc), UNCHANGED files,
             NEW status \in {"prepared", "committed", "rolled-back"},
             journals' = [journals EXCEPT ![calls[p].tx] = FT!JournalOf(p, status)],
             calls[p].pc # "err", pc = "prepared" => calls[p].pc = "backed"
      PROVE  SkillInv' /\ Kept
  <2>1. calls[p].before = None
    BY <1>1, <1>5 DEF CallSpares
  <2>2. CallSpares(p)'
    BY <1>1, <1>2, <1>5, <2>1 DEF CallSpares
  <2>3. WritesNoUserBytes /\ JournalsOfNewFiles' /\ Kept
    BY <1>1, <1>5, <2>1
       DEF SkillInv, WritesNoUserBytes, JournalsOfNewFiles, FT!TypeOK, FT!JournalOf
  <2> QED
    BY <1>1, <1>2, <1>3, <1>5, <2>2, <2>3, SkillLocal
\* The target is written.
<1>6. ASSUME NEW pc \in {"persisted", "restored"}, FT!Goto(p, pc), UNCHANGED journals,
             files'[calls[p].target] \in PlanBytes \union {None},
             \A t \in Targets \ {calls[p].target} : files'[t] = files[t],
             calls[p].pc \in {"prepared", "checked"}
      PROVE  SkillInv' /\ Kept
  <2>1. calls[p].before = None /\ files[calls[p].target] \notin UserBytes
    BY <1>1, <1>6 DEF CallSpares
  <2>2. files'[calls[p].target] \notin UserBytes
    BY <1>6, NoneIsNoRecord, StoreAssumptions DEF FT!Contents
  <2>3. CallSpares(p)'
    BY <1>1, <1>2, <1>6, <2>1 DEF CallSpares
  <2>4. WritesNoUserBytes /\ JournalsOfNewFiles' /\ Kept
    BY <1>1, <1>6, <2>1, <2>2 DEF SkillInv, WritesNoUserBytes, JournalsOfNewFiles, FT!TypeOK
  <2> QED
    BY <1>1, <1>2, <1>3, <1>6, <2>3, <2>4, SkillLocal
<1> HIDE DEF Kept
<1>7. CASE FT!ApplyBackup(p)
  BY <1>1, <1>4, <1>7 DEF FT!ApplyBackup, FT!At, FT!envVars, CallSpares
<1>8. CASE FT!ApplyPrepare(p) \/ FT!ApplyCommit(p) \/ FT!SaveRolledBack(p)
  BY <1>5, <1>8 DEF FT!ApplyPrepare, FT!ApplyCommit, FT!SaveRolledBack, FT!At, FT!envVars
<1>9. CASE FT!ApplyPersist(p)
  <2>1. /\ FT!Goto(p, "persisted") /\ UNCHANGED journals /\ calls[p].pc = "prepared"
        /\ files' = [files EXCEPT ![calls[p].target] = calls[p].after]
    BY <1>9 DEF FT!ApplyPersist, FT!At
  <2>2. /\ files'[calls[p].target] \in PlanBytes \union {None}
        /\ \A t \in Targets \ {calls[p].target} : files'[t] = files[t]
    BY <1>1, <2>1 DEF FT!Call, FT!TypeOK
  <2>3. SkillInv' /\ Kept
    BY <1>6, <2>1, <2>2
  <2> QED
    BY <2>3 DEF Kept
<1>10. CASE FT!RecoverClassify(p)
  <2>1. /\ calls[p].pc = "loaded" /\ UNCHANGED <<files, journals>>
        /\ \/ FT!Goto(p, "restored") \/ FT!Goto(p, "err")
           \/ FT!Goto(p, "checked") /\ files[calls[p].target] = calls[p].after
    BY <1>10 DEF FT!RecoverClassify, FT!Disposition, FT!At, FT!fileVars, FT!envVars
  <2>2. files[calls[p].target] = calls[p].after => files[calls[p].target] \notin UserBytes
    BY <1>1, StoreAssumptions DEF FT!Call
  <2> QED
    BY <1>4, <2>1, <2>2
<1>11. CASE FT!RestoreBefore(p)
  <2>1. calls[p].pc = "checked" /\ UNCHANGED journals /\ calls[p].before = None
    BY <1>1, <1>11 DEF FT!RestoreBefore, CallSpares
  <2>2. CASE FT!BackupVerifies(p)
    <3>1. /\ FT!Goto(p, "restored")
          /\ files'[calls[p].target] \in PlanBytes \union {None}
          /\ \A t \in Targets \ {calls[p].target} : files'[t] = files[t]
      BY <1>1, <1>11, <2>1, <2>2 DEF FT!RestoreBefore, FT!BeforeBytes, FT!TypeOK
    <3>2. SkillInv' /\ Kept
      BY <1>6, <2>1, <3>1
    <3> QED
      BY <3>2 DEF Kept
  <2>3. CASE ~FT!BackupVerifies(p)
    BY <1>4, <1>11, <2>1, <2>3 DEF FT!RestoreBefore
  <2> QED
    BY <2>2, <2>3
<1>12. CASE FT!IoError(p) \/ FT!TargetUnseen(p)
  BY <1>4, <1>12 DEF FT!IoError, FT!TargetUnseen, FT!fileVars
<1> QED
  BY <1>7, <1>8, <1>9, <1>10, <1>11, <1>12 DEF FT!Step, Kept

\* An edit does not race a call, so no call counts on what it found.
LEMMA SkillEdited ==
    ASSUME ~RacingEdits, MigrationInv, SkillInv, InStore, NEW t \in Targets,
           NEW c \in FT!FileState, FT!Edit(t, c)
    PROVE  SkillInv'
<1>1. /\ files'[t] = c /\ \A u \in Targets \ {t} : files'[u] = files[u]
      /\ UNCHANGED <<journals, calls, cli>> /\ \A p \in Procs : ~FT!Inside(p, t)
  BY DEF FT!Edit, InStore, MigrationInv, TypeOK, FT!TypeOK
<1>2. JournalsOfNewFiles'
  BY <1>1 DEF SkillInv, JournalsOfNewFiles
<1>3. ASSUME NEW p \in Procs PROVE CallSpares(p)' /\ PlanSpares(p)'
  <2>1. calls[p] # None => calls[p].target \in Targets
    BY DEF MigrationInv, TypeOK, FT!TypeOK, FT!Call
  <2> QED
    BY <1>1, <2>1 DEF SkillInv, CallSpares, PlanSpares, FT!Inside, FT!ResultPC
<1> QED
  BY <1>2, <1>3 DEF SkillInv

LEMMA SkillInvNext ==
    ASSUME ~RacingEdits, MigrationInv, SkillInv, [IntegrationNext]_vars
    PROVE  SkillInv'
<1>1. ASSUME NEW p \in Procs, Install(p) PROVE SkillInv'
  <2>1. ASSUME NEW x \in Txs, ~Free(p), NEW w \in cli[p].plan, InstallWrite(p, w, x)
        PROVE  SkillInv'
    BY <2>1, SkillWrites DEF Free
  <2> QED
    BY <1>1, <2>1, SkillStarts, SkillEnds, SkillGoesOn, SkillLoads DEF Install
<1>2. ASSUME NEW p \in Procs, Uninstall(p) PROVE SkillInv'
  BY <1>2, SkillStarts, SkillRemoved, SkillEnds DEF Uninstall
<1>3. ASSUME NEW p \in Procs, Undo(p) \/ Recover(p) \/ Crash(p) PROVE SkillInv'
  BY <1>3, SkillStarts, SkillLoads, SkillGoesOn, SkillEnds DEF Undo, Recover
<1>4. CASE UNCHANGED vars
  BY <1>4 DEF vars, storeVars, SkillInv, JournalsOfNewFiles, CallSpares, PlanSpares
<1> QED
  BY <1>1, <1>2, <1>3, <1>4, SkillSteps, SkillEdited DEF IntegrationNext

\* What a step of the commands does to the user's Skills.
SkillStep ==
    \A t \in Targets :
        files[t] \in UserBytes /\ files'[t] # files[t] /\ edits' = edits
            => \E p \in Procs : SavedSinceHashed(p, t)

\* Only uninstall writes a file outside a store call.
LEMMA CommandsLeaveFiles ==
    ASSUME NEW p \in Procs,
           Install(p) \/ Uninstall(p) \/ Undo(p) \/ Recover(p) \/ Crash(p),
           ~UninstallRemove(p)
    PROVE  UNCHANGED files
<1>1. CASE Install(p)
  BY <1>1 DEF Install, InstallStart, InstallWrite, InstallError, InstallRecord,
     InstallRecordError, InstallUndo, InstallUndone, InstallEnd, FT!ApplyRead, FT!ApplyStale,
     FT!Return, FT!UndoCheck, FT!fileVars, storeVars
<1>2. CASE Uninstall(p)
  BY <1>2 DEF Uninstall, UninstallRead, UninstallCheck, UninstallError, UninstallForget,
     storeVars
<1>3. CASE Undo(p)
  BY <1>3 DEF Undo, UndoStart, UndoNext, UndoLedger, UndoError, UndoEnd, FT!Return,
     FT!UndoCheck, FT!fileVars, storeVars
<1>4. CASE Recover(p) \/ Crash(p)
  BY <1>4 DEF Recover, RecoverStart, RecoverEnd, Crash, FT!RecoverLoad, FT!Return, FT!Crash,
     FT!fileVars, storeVars
<1> QED
  BY <1>1, <1>2, <1>3, <1>4

\* Uninstall removes the user's bytes only if they came after it hashed the file.
LEMMA RemovesWhatItHashed ==
    ASSUME MigrationInv, SkillInv, NEW p \in Procs, UninstallRemove(p)
    PROVE  SkillStep
<1> SUFFICES ASSUME NEW t \in Targets, files[t] \in UserBytes, files'[t] # files[t]
             PROVE  SavedSinceHashed(p, t)
  BY DEF SkillStep
<1>1. /\ Runs(p, "uninstall", "checked") /\ cli[p] \in Command /\ Spares(cli[p])
      /\ FT!TypeOK
  BY DEF UninstallRemove, Runs, MigrationInv, TypeOK, SkillInv, PlanSpares
<1>2. PICK w \in cli[p].plan : files' = [files EXCEPT ![w.target] = None]
  BY DEF UninstallRemove
<1>3. w.target = t
  BY <1>1, <1>2 DEF FT!TypeOK
<1>4. w \in Write /\ w.expected = w.new
  BY <1>1, <1>2 DEF Runs, Command, Spares
<1>5. w.expected # files[t]
  BY <1>4, StoreAssumptions DEF Write
<1> QED
  BY <1>1, <1>2, <1>3, <1>5 DEF SavedSinceHashed

LEMMA SkillsSurvive ==
    ASSUME ~RacingEdits, MigrationInv, SkillInv, [IntegrationNext]_vars
    PROVE  SkillStep
<1>1. CASE UNCHANGED files
  BY <1>1 DEF SkillStep
<1>2. ASSUME NEW p \in Procs, Install(p) \/ Uninstall(p) \/ Undo(p) \/ Recover(p) \/ Crash(p)
      PROVE  SkillStep
  BY <1>1, <1>2, CommandsLeaveFiles, RemovesWhatItHashed
<1>3. ASSUME InStore, NEW p \in Procs, FT!Step(p) \/ FT!IoError(p) \/ FT!TargetUnseen(p)
      PROVE  SkillStep
  BY <1>3, SkillSteps DEF SkillStep
<1>4. ASSUME NEW t \in Targets, NEW c \in FT!FileState, FT!Edit(t, c) PROVE SkillStep
  <2>1. edits' # edits
    BY <1>4 DEF FT!Edit, MigrationInv, TypeOK, FT!TypeOK
  <2> QED
    BY <2>1 DEF SkillStep
<1> QED
  BY <1>1, <1>2, <1>3, <1>4 DEF IntegrationNext, vars, storeVars

\* With any number of processes, and through every error and crash, a Skill the
\* user wrote or edited is neither removed nor replaced, but for one he saves
\* after an uninstall hashed it; edits that race a store call are left out.
THEOREM UserSkillsAreKept ==
    ASSUME ~RacingEdits PROVE IntegrationSpec => UserSkillKept
<1>1. Init => SkillInv
  BY DEF Init, FT!Init, SkillInv, JournalsOfNewFiles, CallSpares, PlanSpares
<1>2. MigrationInv /\ SkillInv /\ [IntegrationNext]_vars => SkillInv'
  BY SkillInvNext
<1>3. MigrationInv /\ SkillInv /\ [IntegrationNext]_vars => [SkillStep]_vars
  BY SkillsSurvive
<1>4. UserSkillKept <=> [][SkillStep]_vars
  BY DEF UserSkillKept, SkillStep
<1> QED
  BY <1>1, <1>2, <1>3, <1>4, IntegrationSafety, PTL DEF IntegrationSpec

-----------------------------------------------------------------------------
(* Ownership and the installed files, for one command at a time *)

Uneventful == edits = 0 /\ stops = 0 /\ faults = 0

ReversedBy(p, x) ==
    calls[p] # None /\ calls[p].fn = "undo" /\ calls[p].pc # "err" /\ calls[p].tx = x

\* Undo reversed the file, and the ledger refused to follow: for good.
Stuck(x) == HalfUndone(x) /\ \A p \in Procs : ~ReversedBy(p, x)

\* A command of p has removed the file of target t and has yet to tell the ledger.
Removing(p, t) ==
    \/ /\ calls[p] # None /\ calls[p].fn = "undo" /\ calls[p].target = t
       /\ calls[p].pc \in {"restored", "done"}
    \/ Runs(p, "uninstall", "removed") /\ \A w \in cli[p].plan : w.target = t

OwnedOrRemoving ==
    \A t \in Targets :
        managed[t] # None /\ files[t] = None => \E p \in Procs : Removing(p, t)

\* Every transaction created its file and took over from no owner, and every
\* journal is in the ledger when its command has gone on.
NewOwners ==
    \A x \in Txs :
        /\ L!HasTransaction(x) => changes[x].before = None
        /\ journals[x] # None =>
                /\ journals[x].before = None
                /\ L!HasTransaction(x) \/ \E p \in Procs : Opening(p, x)

NeatCall(p) ==
    calls[p] # None /\ calls[p].pc # "err" =>
        /\ calls[p].before = None /\ calls[p].fn # "recover" /\ calls[p].pc # "unseen"
        /\ calls[p].fn = "apply" =>
                /\ managed[calls[p].target] = None
                /\ calls[p].pc \in {"persisted", "done"} =>
                        files[calls[p].target] = calls[p].after
        /\ calls[p].fn = "undo" => L!Live(calls[p].tx)

NeatCommand(p) ==
    cli[p] # None =>
        /\ cli[p].cmd = "install" => \A w \in cli[p].plan : w.expected = None
        /\ cli[p].cmd = "undo" => \A x \in cli[p].txs : L!HasTransaction(x)
        /\ cli[p].cmd = "uninstall" => \A v, w \in cli[p].plan : v = w

Neat ==
    /\ OwnedOrRemoving /\ NewOwners
    /\ \A p \in Procs : NeatCall(p) /\ NeatCommand(p)

\* Without an error of the ledger no command rolls back.
NoRollback ==
    \A p \in Procs : cli[p] # None =>
        /\ cli[p].cmd # "apply"
        /\ cli[p].cmd = "install" => cli[p].pc \in {"next", "call"}

InstalledInv == Uneventful => NoRollback /\ (Neat \/ \E x \in Txs : Stuck(x))

LEMMA NeatParts ==
    ASSUME OneAtATime, NEW p \in Procs,
           OwnedOrRemoving', NewOwners', NeatCall(p)', NeatCommand(p)'
    PROVE  Neat'
BY DEF OneAtATime, Neat

LEMMA NothingMissing ==
    ASSUME OneAtATime, Neat, NEW p \in Procs, \A t \in Targets : ~Removing(p, t)
    PROVE  \A t \in Targets : managed[t] = None \/ files[t] # None
BY DEF OneAtATime, Neat, OwnedOrRemoving

\* Between calls the command moves on, and no owner changes.
LEMMA NeatQuiet ==
    ASSUME OneAtATime, MigrationInv, Neat, NEW p \in Procs,
           \A t \in Targets : ~Removing(p, t), \A x \in Txs : ~Opening(p, x),
           UNCHANGED <<files, journals, managed, changes, transactions>>,
           calls'[p] = None, NeatCommand(p)'
    PROVE  Neat'
<1>1. \A t \in Targets : managed[t] = None \/ files[t] # None
  BY NothingMissing
<1>2. OwnedOrRemoving'
  BY <1>1 DEF OwnedOrRemoving
<1>3. \A x \in Txs : journals[x] # None => journals[x].before = None /\ L!HasTransaction(x)
  BY DEF OneAtATime, Neat, NewOwners
<1>4. NewOwners'
  BY <1>3 DEF Neat, NewOwners, L!HasTransaction
<1>5. NeatCall(p)'
  BY DEF NeatCall
<1> QED
  BY <1>2, <1>4, <1>5, NeatParts

LEMMA NoCallRemoves ==
    ASSUME MigrationInv, NEW p \in Procs, CallOf(p) = {}
    PROVE  /\ calls[p] = None /\ \A x \in Txs : ~Opening(p, x)
           /\ (\E t \in Targets : Removing(p, t)) => Runs(p, "uninstall", "removed")
BY FreeIsIdle DEF Opening, Applying, Removing

\* Commands begin.
LEMMA NeatStarts ==
    ASSUME OneAtATime, MigrationInv, Neat, NEW p \in Procs,
           \/ \E o \in Ops : UndoStart(p, o)
           \/ \E o \in Ops, t \in Targets, template \in Templates :
                    InstallStart(p, o, t, template)
           \/ \E t \in Targets, template \in Templates : UninstallRead(p, t, template)
    PROVE  Neat'
<1>1. UNCHANGED storeVars /\ Free(p) /\ CallOf(p) = {}
  BY DEF UndoStart, InstallStart, UninstallRead, CallOf, Runs, Free
<1>2. UNCHANGED <<files, journals, calls, managed, changes, transactions>>
  BY <1>1
     DEF storeVars, UndoStart, InstallStart, UninstallRead, L!BeginOperation, ledgerVars
<1>3. /\ calls'[p] = None /\ \A x \in Txs : ~Opening(p, x)
      /\ \A t \in Targets : ~Removing(p, t)
  BY <1>1, <1>2, NoCallRemoves DEF Free, Runs
<1>4. NeatCommand(p)'
  <2>1. ASSUME NEW o \in Ops, UndoStart(p, o) PROVE NeatCommand(p)'
    <3> DEFINE c == [cmd |-> "undo", op |-> o, pc |-> "next", plan |-> {},
                     txs |-> L!TransactionsOf(o), ok |-> TRUE, finish |-> TRUE]
    <3>1. cli' = [cli EXCEPT ![p] = c]
      BY <2>1 DEF UndoStart, Begin
    <3>2. c.cmd = "undo" /\ c.txs = L!TransactionsOf(o)
      OBVIOUS
    <3> HIDE DEF c
    <3>3. cli'[p] = c
      BY <3>1 DEF MigrationInv, TypeOK
    <3>4. \A x \in L!TransactionsOf(o) : L!HasTransaction(x)
      BY DEF L!TransactionsOf, MigrationInv, RowInv
    <3> QED
      BY <1>2, <3>2, <3>3, <3>4 DEF NeatCommand, L!HasTransaction
  <2>2. ASSUME NEW o \in Ops, NEW t \in Targets, NEW template \in Templates,
               InstallStart(p, o, t, template)
        PROVE  NeatCommand(p)'
    <3> DEFINE c == [cmd |-> "install", op |-> o, pc |-> "next",
                     plan |-> {[target |-> t, expected |-> None, new |-> template]},
                     txs |-> {}, ok |-> TRUE, finish |-> TRUE]
    <3>1. cli' = [cli EXCEPT ![p] = c]
      BY <2>2 DEF InstallStart, Begin
    <3>2. c.cmd = "install" /\ \A w \in c.plan : w.expected = None
      OBVIOUS
    <3> HIDE DEF c
    <3>3. cli'[p] = c
      BY <3>1 DEF MigrationInv, TypeOK
    <3> QED
      BY <3>2, <3>3 DEF NeatCommand
  <2>3. ASSUME NEW t \in Targets, NEW template \in Templates, UninstallRead(p, t, template)
        PROVE  NeatCommand(p)'
    <3> DEFINE c == [cmd |-> "uninstall", op |-> None, pc |-> "hashed",
                     plan |-> {[target |-> t, expected |-> files[t], new |-> template]},
                     txs |-> {}, ok |-> TRUE, finish |-> TRUE]
    <3>1. cli' = [cli EXCEPT ![p] = c]
      BY <2>3 DEF UninstallRead, Begin
    <3>2. c.cmd = "uninstall" /\ \A v, w \in c.plan : v = w
      OBVIOUS
    <3> HIDE DEF c
    <3>3. cli'[p] = c
      BY <3>1 DEF MigrationInv, TypeOK
    <3> QED
      BY <3>2, <3>3 DEF NeatCommand
  <2> QED
    BY <2>1, <2>2, <2>3
<1> QED
  BY <1>2, <1>3, <1>4, NeatQuiet

\* Commands that end without a further write.
LEMMA NeatEnds ==
    ASSUME OneAtATime, MigrationInv, Neat, NEW p \in Procs,
           \/ InstallError(p) \/ InstallEnd(p) \/ UndoError(p) \/ UndoEnd(p)
           \/ RecoverEnd(p)
    PROVE  Neat'
<1>1. cli' = [cli EXCEPT ![p] = None] /\ ~Runs(p, "uninstall", "removed")
  BY DEF InstallError, InstallEnd, UndoError, UndoEnd, RecoverEnd, Exit, Runs
<1>2. NeatCommand(p)'
  BY <1>1 DEF NeatCommand, MigrationInv, TypeOK
<1>3. CASE InstallEnd(p) \/ UndoEnd(p)
  <2>1. UNCHANGED storeVars /\ CallOf(p) = {}
    BY <1>3 DEF InstallEnd, UndoEnd, CallOf, Runs
  <2>2. UNCHANGED <<files, journals, calls, managed, changes, transactions>>
    BY <1>3, <2>1 DEF storeVars, InstallEnd, UndoEnd, L!FinishOperation, ledgerVars
  <2> QED
    BY <1>1, <1>2, <2>1, <2>2, NoCallRemoves, NeatQuiet
<1>4. CASE InstallError(p) \/ UndoError(p) \/ RecoverEnd(p)
  <2>1. FT!Return(p) /\ UNCHANGED ledgerVars
    BY <1>4 DEF InstallError, UndoError, RecoverEnd
  <2>2. /\ UNCHANGED <<files, journals, managed, changes, transactions>>
        /\ calls'[p] = None /\ calls[p] # None
    BY <2>1 DEF FT!Return, FT!fileVars, ledgerVars, MigrationInv, TypeOK, FT!TypeOK
  <2>3. calls[p].pc = "err"
    <3>1. CASE RecoverEnd(p)
      <4>1. calls[p].fn = "recover"
        BY <2>2, <3>1 DEF RecoverEnd, Runs, CallOf, MigrationInv, CommandInv
      <4> QED
        BY <2>2, <4>1 DEF Neat, NeatCall
    <3> QED
      BY <1>4, <3>1 DEF InstallError, UndoError, CallIs
  <2>4. \A x \in Txs : ~Opening(p, x)
    BY <2>3 DEF Opening, Applying
  <2>5. \A t \in Targets : ~Removing(p, t)
    BY <1>1, <2>3 DEF Removing
  <2> QED
    BY <1>2, <2>2, <2>4, <2>5, NeatQuiet
<1> QED
  BY <1>3, <1>4

\* Uninstall removes the file first and forgets its owner next.
LEMMA NeatUninstalls ==
    ASSUME OneAtATime, MigrationInv, Neat, NEW p \in Procs,
           \/ UninstallCheck(p) \/ UninstallRemove(p) \/ UninstallError(p)
           \/ UninstallForget(p) /\ stops' = 0
    PROVE  Neat'
<1>1. /\ CallOf(p) = {} /\ cli[p] # None /\ cli[p] \in Command /\ cli[p].cmd = "uninstall"
      /\ calls[p] = None /\ \A x \in Txs : ~Opening(p, x)
  <2>1. CallOf(p) = {} /\ cli[p] # None /\ cli[p].cmd = "uninstall"
    BY DEF UninstallCheck, UninstallRemove, UninstallError, UninstallForget, CallOf, Runs
  <2> QED
    BY <2>1, NoCallRemoves DEF MigrationInv, TypeOK
<1>2. CASE UninstallForget(p) /\ stops' = 0
  <2>1. PICK w \in cli[p].plan : L!RemoveManagedObject(w.target)
    BY <1>2 DEF UninstallForget, LedgerFails, MigrationInv, TypeOK
  <2>2. cli' = [cli EXCEPT ![p] = None] /\ UNCHANGED storeVars
    BY <1>2 DEF UninstallForget, Exit
  <2>3. /\ UNCHANGED <<files, journals, calls, changes, transactions>>
        /\ managed' = [managed EXCEPT ![w.target] = None]
        /\ managed \in [Targets -> L!Owner \union {None}]
    BY <2>1, <2>2 DEF storeVars, L!RemoveManagedObject, MigrationInv, TypeOK, L!TypeOK
  <2>4. \A t \in Targets : Removing(p, t) => t = w.target
    BY <1>1, <2>1 DEF Removing
  <2>5. OwnedOrRemoving'
    BY <2>3, <2>4 DEF OwnedOrRemoving, Neat, OneAtATime
  <2>6. NewOwners'
    BY <1>1, <2>3 DEF OneAtATime, Neat, NewOwners, L!HasTransaction
  <2>7. NeatCall(p)' /\ NeatCommand(p)'
    BY <1>1, <2>2, <2>3 DEF NeatCall, NeatCommand, MigrationInv, TypeOK
  <2> QED
    BY <2>5, <2>6, <2>7, NeatParts
<1>3. ASSUME NEW pc, Proceed(p, pc) PROVE NeatCommand(p)' /\ cli'[p].pc = pc
  <2> DEFINE c == [cli[p] EXCEPT !.pc = pc]
  <2>1. c.cmd = "uninstall" /\ c.plan = cli[p].plan /\ c.pc = pc
    BY <1>1 DEF Command
  <2>2. cli' = [cli EXCEPT ![p] = c]
    BY <1>3 DEF Proceed
  <2> HIDE DEF c
  <2>3. cli'[p] = c
    BY <2>2 DEF MigrationInv, TypeOK
  <2> QED
    BY <1>1, <2>1, <2>3 DEF Neat, NeatCommand
<1>4. CASE UninstallCheck(p) \/ UninstallError(p)
  <2>1. UNCHANGED <<files, journals, calls, managed, changes, transactions>>
    BY <1>4 DEF UninstallCheck, UninstallError, storeVars, ledgerVars
  <2>2. \A t \in Targets : ~Removing(p, t)
    BY <1>1, <1>4 DEF UninstallCheck, UninstallError, Removing, Runs
  <2>3. CASE Exit(p)
    <3>1. NeatCommand(p)'
      BY <2>3 DEF Exit, NeatCommand, MigrationInv, TypeOK
    <3> QED
      BY <1>1, <2>1, <2>2, <3>1, NeatQuiet
  <2>4. CASE Proceed(p, "checked")
    BY <1>1, <1>3, <2>1, <2>2, <2>4, NeatQuiet
  <2> QED
    BY <1>4, <2>3, <2>4 DEF UninstallCheck, UninstallError
<1>5. CASE UninstallRemove(p)
  <2>1. PICK w \in cli[p].plan : files' = [files EXCEPT ![w.target] = None]
    BY <1>5 DEF UninstallRemove
  <2>2. /\ UNCHANGED <<journals, calls, managed, changes, transactions>>
        /\ Proceed(p, "removed") /\ Runs(p, "uninstall", "checked")
    BY <1>5 DEF UninstallRemove, ledgerVars
  <2>3. cli'[p] # None /\ cli'[p].cmd = "uninstall" /\ cli'[p].pc = "removed"
        /\ cli'[p].plan = cli[p].plan
    <3> DEFINE c == [cli[p] EXCEPT !.pc = "removed"]
    <3>1. c.cmd = "uninstall" /\ c.plan = cli[p].plan /\ c.pc = "removed" /\ c \in Command
      BY <1>1 DEF Command
    <3>2. cli' = [cli EXCEPT ![p] = c]
      BY <2>2 DEF Proceed
    <3> HIDE DEF c
    <3>3. cli'[p] = c
      BY <3>2 DEF MigrationInv, TypeOK
    <3> QED
      BY <3>1, <3>3, NoneIsNoRecord
  <2>4. Removing(p, w.target)'
    BY <1>1, <2>1, <2>3 DEF Removing, Runs, Neat, NeatCommand
  <2>5. \A t \in Targets : managed[t] = None \/ files[t] # None
    <3>1. \A t \in Targets : ~Removing(p, t)
      BY <1>1, <2>2 DEF Removing, Runs
    <3> QED
      BY <3>1, NothingMissing
  <2>6. OwnedOrRemoving'
    BY <2>1, <2>2, <2>4, <2>5 DEF OwnedOrRemoving, MigrationInv, TypeOK, FT!TypeOK
  <2>7. NewOwners'
    BY <1>1, <2>2 DEF OneAtATime, Neat, NewOwners, L!HasTransaction
  <2>8. NeatCall(p)' /\ NeatCommand(p)'
    BY <1>1, <1>3, <2>2 DEF NeatCall
  <2> QED
    BY <2>6, <2>7, <2>8, NeatParts
<1> QED
  BY <1>2, <1>4, <1>5

\* The command loads a journal or reads a target.
LEMMA NeatLoads ==
    ASSUME OneAtATime, MigrationInv, Neat, NEW p \in Procs,
           \/ \E x \in Txs : RecoverStart(p, x)
           \/ UndoNext(p)
           \/ \E x \in Txs : ~Free(p) /\ \E w \in cli[p].plan : InstallWrite(p, w, x)
    PROVE  Neat'
<1>1. FT!TypeOK
  BY DEF MigrationInv, TypeOK
<1>2. CallOf(p) = {} /\ ~Runs(p, "uninstall", "removed")
  BY DEF RecoverStart, UndoNext, InstallWrite, CallOf, Runs, Free
<1>3. /\ \A x \in Txs : ~Opening(p, x)
      /\ \A t \in Targets : managed[t] = None \/ files[t] # None
  BY <1>2, NoCallRemoves, NothingMissing
<1>4. UNCHANGED <<files, journals, managed, changes, transactions>>
  BY DEF RecoverStart, UndoNext, InstallWrite, FT!RecoverLoad, FT!UndoCheck, FT!ApplyRead,
         FT!ApplyStale, FT!fileVars, ledgerVars
<1>5. OwnedOrRemoving'
  BY <1>3, <1>4 DEF OwnedOrRemoving
<1>6. \A x \in Txs : journals[x] # None => journals[x].before = None /\ L!HasTransaction(x)
  BY <1>3 DEF OneAtATime, Neat, NewOwners
<1>7. NewOwners'
  BY <1>4, <1>6 DEF Neat, NewOwners, L!HasTransaction
<1>8. NeatCall(p)' /\ NeatCommand(p)'
  <2>1. ASSUME NEW x \in Txs, RecoverStart(p, x) PROVE NeatCall(p)' /\ NeatCommand(p)'
    <3>1. journals[x] # None /\ ~FT!Awaiting(x, L!HasTransaction(x))
      BY <1>6, <2>1 DEF RecoverStart, FT!RecoverLoad, FT!Awaiting, MigrationInv, RowInv
    <3>2. calls'[p].pc = "err"
      BY <1>1, <2>1, <3>1 DEF RecoverStart, FT!RecoverLoad, FT!Loaded, FT!TypeOK
    <3> DEFINE c == [cmd |-> "recover", op |-> None, pc |-> "call", plan |-> {},
                     txs |-> {}, ok |-> TRUE, finish |-> TRUE]
    <3>3. cli' = [cli EXCEPT ![p] = c] /\ c.cmd = "recover"
      BY <2>1 DEF RecoverStart, Begin
    <3> HIDE DEF c
    <3>4. cli'[p] = c
      BY <3>3 DEF MigrationInv, TypeOK
    <3> QED
      BY <3>2, <3>3, <3>4 DEF NeatCall, NeatCommand
  <2>2. CASE UndoNext(p)
    <3>1. PICK x \in Txs : x \in cli[p].txs /\ FT!UndoCheck(p, x, journals[x].status)
      BY <2>2 DEF UndoNext, Latest
    <3>2. /\ cli[p] # None /\ cli[p] \in Command /\ cli[p].cmd = "undo"
          /\ cli' = [cli EXCEPT ![p].pc = "call"]
      BY <2>2 DEF UndoNext, Runs, Proceed, MigrationInv, TypeOK
    <3>3. L!HasTransaction(x) /\ journals[x] # None /\ journals[x].before = None
      BY <1>6, <3>1, <3>2 DEF Neat, NeatCommand, FT!UndoCheck
    <3>4. journals[x].status = "committed" => L!Live(x)
      BY <3>3 DEF MigrationInv, RowInv, TypeOK, L!TypeOK, L!TransactionStatus,
         L!HasTransaction, L!Live, JournalIs
    <3>5. /\ calls'[p].fn = "undo" /\ calls'[p].tx = x /\ calls'[p].before = None
          /\ calls'[p].pc # "err" => journals[x].status = "committed"
          /\ calls'[p].pc # "unseen"
      BY <1>1, <3>1, <3>3 DEF FT!UndoCheck, FT!Loaded, FT!TypeOK
    <3>6. NeatCall(p)'
      BY <1>4, <3>4, <3>5 DEF NeatCall, L!Live
    <3> DEFINE c == [cli[p] EXCEPT !.pc = "call"]
    <3>7. c.cmd = "undo" /\ c.txs = cli[p].txs
      BY <3>2 DEF Command
    <3>8. cli' = [cli EXCEPT ![p] = c]
      BY <3>2
    <3> HIDE DEF c
    <3>9. cli'[p] = c
      BY <3>8 DEF MigrationInv, TypeOK
    <3> QED
      BY <1>4, <3>2, <3>6, <3>7, <3>9 DEF Neat, NeatCommand, L!HasTransaction
  <2>3. ASSUME NEW x \in Txs, ~Free(p), NEW w \in cli[p].plan, InstallWrite(p, w, x)
        PROVE  NeatCall(p)' /\ NeatCommand(p)'
    <3>1. /\ cli[p] # None /\ cli[p] \in Command /\ cli[p].cmd = "install" /\ w \in Write
          /\ cli' = [cli EXCEPT ![p].pc = "call", ![p].plan = @ \ {w}]
      <4>1. /\ cli[p] # None /\ cli[p].cmd = "install"
            /\ cli' = [cli EXCEPT ![p].pc = "call", ![p].plan = @ \ {w}]
        BY <2>3 DEF InstallWrite, Runs
      <4>2. cli[p] \in Command
        BY <4>1 DEF MigrationInv, TypeOK
      <4> QED
        BY <2>3, <4>1, <4>2 DEF Command
    <3>2. w.expected = None /\ w.target \in Targets
      BY <3>1 DEF Neat, NeatCommand, Write
    <3>3. calls'[p].pc # "err" =>
            /\ calls'[p].fn = "apply" /\ calls'[p].pc = "read"
            /\ calls'[p].before = None /\ calls'[p].target = w.target
            /\ files[w.target] = None
      BY <1>1, <2>3, <3>2 DEF InstallWrite, FT!ApplyRead, FT!ApplyStale, FT!TypeOK
    <3>4. NeatCall(p)'
      BY <1>3, <1>4, <3>2, <3>3 DEF NeatCall
    <3> DEFINE c == [cli[p] EXCEPT !.pc = "call", !.plan = @ \ {w}]
    <3>5. c.cmd = "install" /\ c.plan \subseteq cli[p].plan
      BY <3>1 DEF Command
    <3>6. cli' = [cli EXCEPT ![p] = c]
      BY <3>1
    <3> HIDE DEF c
    <3>7. cli'[p] = c
      BY <3>6 DEF MigrationInv, TypeOK
    <3> QED
      BY <3>1, <3>4, <3>5, <3>7 DEF Neat, NeatCommand
  <2> QED
    BY <2>1, <2>2, <2>3
<1> QED
  BY <1>5, <1>7, <1>8, NeatParts

\* The new owner's file is there, and nobody owned the target before.
LEMMA NeatRecords ==
    ASSUME OneAtATime, MigrationInv, Neat, NEW p \in Procs, InstallRecord(p)
    PROVE  Neat'
<1>1. /\ FT!TypeOK /\ L!TypeOK /\ FT!Return(p) /\ RecordCall(p)
      /\ calls[p] # None /\ calls[p].pc = "done" /\ calls[p].fn = "apply"
      /\ cli[p] # None /\ cli[p] \in Command /\ cli[p].cmd = "install"
      /\ cli[p].op \in Ops /\ cli[p].op # None
      /\ cli' = [cli EXCEPT ![p].pc = "next"]
  BY NoneIsNoRecord DEF InstallRecord, Runs, CallIs, FT!Idle, CallOf, Proceed, MigrationInv,
     TypeOK, CommandInv, Command
<1> DEFINE x == calls[p].tx
           t == calls[p].target
           after == [owner |-> cli[p].op, hash |-> calls[p].after]
<1>2. /\ x \in Txs /\ t \in Targets /\ calls[p].after \in PlanBytes
      /\ managed[t] = None /\ files[t] = calls[p].after
  BY <1>1 DEF MigrationInv, CommandInv, ApplyingAlone, Applying, FT!TypeOK, FT!Call, Neat,
     NeatCall
<1>3. files[t] # None
  BY <1>2, NoneIsNoRecord DEF FT!Contents
<1>4. /\ changes' = [changes EXCEPT ![x] =
            [op |-> cli[p].op, target |-> t, before |-> managed[t], after |-> after]]
      /\ managed' = [managed EXCEPT ![t] = after]
      /\ transactions' = [transactions EXCEPT ![x] = "committed"]
      /\ transactions[x] = None
  BY <1>1 DEF RecordCall, L!RecordTransactionWithManagedObject, L!Upsert, L!SetStatus
<1>5. UNCHANGED <<files, journals>> /\ calls'[p] = None
  BY <1>1 DEF FT!Return, FT!fileVars, FT!TypeOK
<1>6. \A u \in Targets : managed[u] = None \/ files[u] # None
  <2>1. \A u \in Targets : ~Removing(p, u)
    BY <1>1 DEF Removing, Runs
  <2> QED
    BY <2>1, NothingMissing
<1>7. OwnedOrRemoving'
  <2>1. \A u \in Targets : u # t => managed'[u] = managed[u]
    BY <1>1, <1>2, <1>4 DEF L!TypeOK
  <2> QED
    BY <1>3, <1>5, <1>6, <2>1 DEF OwnedOrRemoving
<1>8. NewOwners'
  <2>1. /\ changes'[x].before = None /\ transactions'[x] = "committed"
        /\ \A y \in Txs \ {x} : changes'[y] = changes[y] /\ transactions'[y] = transactions[y]
    BY <1>1, <1>2, <1>4 DEF L!TypeOK
  <2>2. "committed" # None
    BY NoneIsNoRecord DEF L!TransactionStatus
  <2>3. \A y \in Txs : journals[y] # None => L!HasTransaction(y)'
    <3>1. \A y \in Txs : Opening(p, y) => y = x
      BY DEF Opening
    <3> QED
      BY <2>1, <2>2, <3>1 DEF OneAtATime, Neat, NewOwners, L!HasTransaction
  <2>4. \A y \in Txs : L!HasTransaction(y)' => changes'[y].before = None
    BY <2>1 DEF Neat, NewOwners, L!HasTransaction
  <2> QED
    BY <1>5, <2>3, <2>4 DEF Neat, NewOwners
<1>9. NeatCall(p)' /\ NeatCommand(p)'
  <2> DEFINE c == [cli[p] EXCEPT !.pc = "next"]
  <2>1. c.cmd = "install" /\ c.plan = cli[p].plan
    BY <1>1 DEF Command
  <2>2. cli' = [cli EXCEPT ![p] = c]
    BY <1>1
  <2> HIDE DEF c
  <2>3. cli'[p] = c
    BY <2>2 DEF MigrationInv, TypeOK
  <2> QED
    BY <1>1, <1>5, <2>1, <2>3 DEF Neat, NeatCall, NeatCommand
<1> QED
  BY <1>7, <1>8, <1>9, NeatParts

\* The ledger follows, or it refuses and the transaction is stuck.
LEMMA NeatUndoes ==
    ASSUME OneAtATime, MigrationInv, Neat, NEW p \in Procs, UndoLedger(p), stops' = 0
    PROVE  Neat' \/ \E x \in Txs : Stuck(x)'
<1>1. /\ FT!TypeOK /\ L!TypeOK /\ FT!Return(p)
      /\ calls[p] # None /\ calls[p].pc = "done" /\ calls[p].fn = "undo"
      /\ cli[p] # None /\ cli[p] \in Command /\ cli[p].cmd = "undo"
  BY DEF UndoLedger, Runs, CallIs, FT!Idle, CallOf, MigrationInv, TypeOK, CommandInv
<1> DEFINE x == calls[p].tx
           t == calls[p].target
<1>2. /\ x \in Txs /\ L!Live(x) /\ L!HasTransaction(x) /\ JournalIs(x, "rolled-back")
      /\ changes[x].target = t /\ t \in Targets /\ changes[x].before = None
  <2>1. L!Live(x) /\ JournalIs(x, "rolled-back") /\ FT!Journaled(p)
    BY <1>1 DEF Neat, NeatCall, MigrationInv, CommandInv, Reversing
  <2>2. L!HasTransaction(x)
    BY <2>1, LiveHasRow
  <2>3. x \in Txs /\ t \in Targets /\ journals[x].target = t
    BY <1>1, <2>1, NoneIsNoRecord DEF FT!Journaled, FT!TypeOK, FT!Call
  <2> QED
    BY <2>1, <2>2, <2>3, RowHasJournal DEF Neat, NewOwners
<1>3. UNCHANGED <<files, journals>> /\ calls'[p] = None
  BY <1>1 DEF FT!Return, FT!fileVars, FT!TypeOK
<1>4. \A y \in Txs : ~Opening(p, y)
  BY <1>1 DEF Opening, Applying
<1>5. \A y \in Txs : journals[y] # None => journals[y].before = None /\ L!HasTransaction(y)
  BY <1>4 DEF OneAtATime, Neat, NewOwners
<1>6. CASE L!RollbackTransactionAndManagedObject(x)
           /\ cli' = [cli EXCEPT ![p].pc = "next", ![p].txs = @ \ {x}]
  <2>1. /\ managed' = [managed EXCEPT ![t] = None]
        /\ transactions' = [transactions EXCEPT ![x] = "rolled-back"]
        /\ changes' = changes
    BY <1>2, <1>6 DEF L!RollbackTransactionAndManagedObject, L!RestoreOwner, L!SetStatus
  <2>2. \A u \in Targets : Removing(p, u) => u = t
    BY <1>1 DEF Removing, Runs
  <2>3. OwnedOrRemoving'
    BY <1>1, <1>2, <1>3, <2>1, <2>2 DEF OwnedOrRemoving, Neat, OneAtATime, L!TypeOK
  <2>4. "rolled-back" # None
    BY NoneIsNoRecord DEF L!TransactionStatus
  <2>5. \A y \in Txs : L!HasTransaction(y)' <=> L!HasTransaction(y)
    BY <1>1, <1>2, <2>1, <2>4 DEF L!HasTransaction, L!TypeOK
  <2>6. NewOwners'
    BY <1>3, <1>5, <2>1, <2>5 DEF Neat, NewOwners
  <2>7. NeatCall(p)' /\ NeatCommand(p)'
    <3> DEFINE c == [cli[p] EXCEPT !.pc = "next", !.txs = @ \ {x}]
    <3>1. c.cmd = "undo" /\ c.txs \subseteq cli[p].txs /\ c.txs \subseteq Txs
      BY <1>1 DEF Command
    <3>2. cli' = [cli EXCEPT ![p] = c]
      BY <1>6
    <3> HIDE DEF c
    <3>3. cli'[p] = c
      BY <3>2 DEF MigrationInv, TypeOK
    <3> QED
      BY <1>1, <1>3, <2>5, <3>1, <3>3 DEF Neat, NeatCall, NeatCommand
  <2> QED
    BY <2>3, <2>6, <2>7, NeatParts
<1>7. CASE UNCHANGED ledgerVars
  <2>1. PICK y \in Txs : y = x
    BY <1>2
  <2>2. HalfUndone(y)'
    BY <1>2, <1>3, <1>7, <2>1 DEF HalfUndone, JournalIs, L!Live, ledgerVars
  <2>3. \A q \in Procs : ~ReversedBy(q, y)'
    BY <1>3 DEF OneAtATime, ReversedBy
  <2> QED
    BY <2>2, <2>3 DEF Stuck
<1>8. ~LedgerFails
  BY DEF LedgerFails, MigrationInv, TypeOK
<1> QED
  BY <1>6, <1>7, <1>8 DEF UndoLedger

\* The steps inside a call: apply creates the file before its owner is known,
\* undo removes it while the owner still stands.
LEMMA NeatSteps ==
    ASSUME OneAtATime, MigrationInv, Neat, InStore, NEW p \in Procs, FT!Step(p)
    PROVE  Neat'
<1> USE DEF FT!ApplyPC, FT!RestorePC, FT!ResultPC
<1>1. /\ FT!TypeOK /\ calls[p] # None /\ calls[p] \in FT!Call /\ calls[p].pc # "err"
      /\ calls[p].target \in Targets /\ calls[p].before = None
      /\ UNCHANGED <<cli, managed, changes, transactions>>
  BY DEF FT!Step, FT!ApplyBackup, FT!ApplyPrepare, FT!ApplyPersist, FT!ApplyCommit,
         FT!RecoverClassify, FT!RestoreBefore, FT!SaveRolledBack, FT!At,
         MigrationInv, TypeOK, FT!TypeOK, FT!Call, Neat, NeatCall, InStore, ledgerVars
<1>2. ASSUME NEW pc \in FT!ApplyPC \union FT!RestorePC \union FT!ResultPC, FT!Goto(p, pc)
      PROVE  /\ calls'[p] # None /\ calls'[p].pc = pc /\ calls'[p].fn = calls[p].fn
             /\ calls'[p].tx = calls[p].tx /\ calls'[p].target = calls[p].target
             /\ calls'[p].before = calls[p].before /\ calls'[p].after = calls[p].after
  BY <1>1, <1>2, GotoCall
<1>3. NeatCommand(p)' /\ ~Runs(p, "uninstall", "removed") /\ ~Runs(p, "uninstall", "removed")'
  <2>1. ~Runs(p, "uninstall", "removed")
    BY <1>1, FreeIsIdle DEF CallOf, Runs
  <2> QED
    BY <1>1, <2>1 DEF Neat, NeatCommand, Runs, L!HasTransaction
<1>4. \A t \in Targets : managed[t] # None /\ files[t] = None => Removing(p, t)
  BY DEF OneAtATime, Neat, OwnedOrRemoving
\* A step of apply that writes no target: it opens no other transaction.
<1>5. ASSUME NEW pc \in {"backed", "prepared"}, FT!Goto(p, pc), UNCHANGED files,
             calls[p].fn = "apply",
             \/ UNCHANGED journals
             \/ journals' = [journals EXCEPT ![calls[p].tx] = FT!JournalOf(p, "prepared")]
      PROVE  Neat'
  <2>1. NewOwners'
    BY <1>1, <1>2, <1>5
       DEF Neat, NewOwners, FT!TypeOK, FT!JournalOf, L!HasTransaction, Opening, Applying,
           OneAtATime
  <2>2. NeatCall(p)'
    BY <1>1, <1>2, <1>5 DEF Neat, NeatCall
  <2>3. OwnedOrRemoving'
    BY <1>1, <1>3, <1>4, <1>5 DEF OwnedOrRemoving, Removing
  <2> QED
    BY <1>3, <2>1, <2>2, <2>3, NeatParts
<1>6. CASE FT!ApplyBackup(p) \/ FT!ApplyPrepare(p)
  BY <1>5, <1>6 DEF FT!ApplyBackup, FT!ApplyPrepare, FT!At, FT!envVars
<1>7. CASE FT!ApplyPersist(p)
  <2>1. /\ FT!Goto(p, "persisted") /\ calls[p].fn = "apply" /\ UNCHANGED journals
        /\ files' = [files EXCEPT ![calls[p].target] = calls[p].after]
    BY <1>7 DEF FT!ApplyPersist, FT!At
  <2>2. NewOwners'
    BY <1>1, <1>2, <2>1 DEF Neat, NewOwners, L!HasTransaction, Opening, Applying, OneAtATime
  <2>3. NeatCall(p)'
    BY <1>1, <1>2, <2>1 DEF Neat, NeatCall, FT!TypeOK
  <2>4. managed[calls[p].target] = None
    BY <1>1, <2>1 DEF Neat, NeatCall
  <2>5. OwnedOrRemoving'
    BY <1>1, <1>3, <1>4, <2>1, <2>4 DEF OwnedOrRemoving, Removing, FT!TypeOK
  <2> QED
    BY <1>3, <2>2, <2>3, <2>5, NeatParts
<1>8. CASE FT!ApplyCommit(p)
  <2>1. /\ FT!Goto(p, "done") /\ calls[p].fn = "apply" /\ calls[p].pc = "persisted"
        /\ UNCHANGED files
        /\ journals' = [journals EXCEPT ![calls[p].tx] = FT!JournalOf(p, "committed")]
    BY <1>8 DEF FT!ApplyCommit, FT!At, FT!envVars
  <2>2. NewOwners'
    BY <1>1, <1>2, <2>1
       DEF Neat, NewOwners, FT!TypeOK, FT!JournalOf, L!HasTransaction, Opening, Applying,
           OneAtATime
  <2>3. NeatCall(p)'
    BY <1>1, <1>2, <2>1 DEF Neat, NeatCall
  <2>4. OwnedOrRemoving'
    BY <1>1, <1>3, <1>4, <2>1 DEF OwnedOrRemoving, Removing
  <2> QED
    BY <1>3, <2>2, <2>3, <2>4, NeatParts
<1>9. ~FT!RecoverClassify(p)
  BY <1>1 DEF FT!RecoverClassify, FT!At, Neat, NeatCall
\* Undo: the row of the transaction stands until the ledger is told.
<1>10. ASSUME NEW pc \in {"restored", "done"}, FT!Goto(p, pc), calls[p].fn = "undo",
              UNCHANGED journals
              \/ journals' = [journals EXCEPT ![calls[p].tx] = FT!JournalOf(p, "rolled-back")],
              \A t \in Targets : t # calls[p].target => files'[t] = files[t]
       PROVE  Neat'
  <2>1. L!Live(calls[p].tx) /\ L!HasTransaction(calls[p].tx)
    BY <1>1, <1>10, LiveHasRow DEF Neat, NeatCall
  <2>2. NewOwners'
    BY <1>1, <1>2, <1>10, <2>1
       DEF Neat, NewOwners, FT!TypeOK, FT!JournalOf, L!HasTransaction, Opening, Applying,
           OneAtATime
  <2>3. NeatCall(p)'
    BY <1>1, <1>2, <1>10, <2>1 DEF NeatCall, L!Live
  <2>4. ASSUME NEW t \in Targets, t = calls[p].target PROVE Removing(p, t)'
    BY <1>1, <1>2, <1>10, <2>4 DEF Removing
  <2>5. OwnedOrRemoving'
    <3>1. ASSUME NEW t \in Targets, managed'[t] # None, files'[t] = None,
                 t # calls[p].target
          PROVE  FALSE
      BY <1>1, <1>3, <1>4, <1>10, <3>1 DEF Removing
    <3> QED
      BY <2>4, <3>1 DEF OwnedOrRemoving
  <2> QED
    BY <1>3, <2>2, <2>3, <2>5, NeatParts
<1>11. CASE FT!RestoreBefore(p)
  <2>1. calls[p].pc = "checked" /\ calls[p].fn = "undo" /\ UNCHANGED journals
    BY <1>1, <1>11
       DEF FT!RestoreBefore, FT!Call, Neat, NeatCall, MigrationInv, CommandInv, ApplyingAlone,
           Applying
  <2>2. FT!BackupVerifies(p)
    BY <1>1 DEF FT!BackupVerifies
  <2>3. /\ FT!Goto(p, "restored")
        /\ \A t \in Targets : t # calls[p].target => files'[t] = files[t]
    BY <1>1, <1>11, <2>2 DEF FT!RestoreBefore, FT!TypeOK
  <2> QED
    BY <1>10, <2>1, <2>3
<1>12. CASE FT!SaveRolledBack(p)
  <2>1. calls[p].pc = "restored" /\ calls[p].fn = "undo"
    BY <1>1, <1>12
       DEF FT!SaveRolledBack, FT!Call, Neat, NeatCall, MigrationInv, CommandInv, ApplyingAlone,
           Applying
  <2> QED
    BY <1>10, <1>12, <2>1 DEF FT!SaveRolledBack
<1> QED
  BY <1>6, <1>7, <1>8, <1>9, <1>11, <1>12 DEF FT!Step

\* Nothing reverses a transaction whose journal is closed.
LEMMA StuckStays ==
    ASSUME MigrationInv, NoRollback, NEW x \in Txs, Stuck(x), [IntegrationNext]_vars
    PROVE  Stuck(x)'
<1>1. /\ FT!TypeOK /\ L!TypeOK /\ L!Live(x) /\ L!HasTransaction(x) /\ changes[x] # None
      /\ journals[x] # None /\ journals[x].status = "rolled-back"
  BY LiveHasRow DEF Stuck, HalfUndone, JournalIs, MigrationInv, TypeOK, RowInv
\* One process moves, and no row or journal changes but that of its call.
<1>2. ASSUME NEW p \in Procs, \A q \in Procs \ {p} : calls'[q] = calls[q],
             transactions'[x] = transactions[x],
             journals'[x] = journals[x] \/ journals'[x] = FT!JournalOf(p, "rolled-back"),
             journals'[x] # None, ~ReversedBy(p, x)'
      PROVE  Stuck(x)'
  BY <1>1, <1>2 DEF Stuck, HalfUndone, JournalIs, L!Live, ReversedBy, FT!JournalOf
<1>3. ASSUME NEW p \in Procs, calls'[p] = None, UNCHANGED journals,
             \A q \in Procs \ {p} : calls'[q] = calls[q], transactions'[x] = transactions[x]
      PROVE  Stuck(x)'
  BY <1>1, <1>2, <1>3 DEF ReversedBy
<1>4. ASSUME NEW p \in Procs, FT!Return(p), transactions'[x] = transactions[x]
      PROVE  Stuck(x)'
  BY <1>1, <1>3, <1>4 DEF FT!Return, FT!fileVars, FT!TypeOK
<1>5. ASSUME NEW p \in Procs, CallOf(p) = {}, UNCHANGED <<calls, journals>>,
             transactions'[x] = transactions[x]
      PROVE  Stuck(x)'
  BY <1>1, <1>3, <1>5, FreeIsIdle DEF FT!TypeOK
<1>6. ASSUME NEW p \in Procs, Install(p) PROVE Stuck(x)'
  <2>1. CASE (\E o \in Ops, t \in Targets, template \in Templates :
                    InstallStart(p, o, t, template)) \/ InstallEnd(p)
    <3>1. CallOf(p) = {} /\ UNCHANGED <<storeVars, transactions>>
      BY <2>1 DEF InstallStart, InstallEnd, L!BeginOperation, L!FinishOperation, CallOf, Runs,
         Free, ledgerVars
    <3> QED
      BY <1>5, <3>1 DEF storeVars
  <2>2. ASSUME NEW y \in Txs, ~Free(p), NEW w \in cli[p].plan, InstallWrite(p, w, y)
        PROVE  Stuck(x)'
    <3>1. /\ UNCHANGED <<journals, transactions>> /\ calls'[p].fn = "apply"
          /\ \A q \in Procs \ {p} : calls'[q] = calls[q]
      BY <1>1, <2>2 DEF InstallWrite, FT!ApplyRead, FT!ApplyStale, FT!fileVars, FT!TypeOK,
         ledgerVars
    <3> QED
      BY <1>1, <1>2, <3>1 DEF ReversedBy
  <2>3. CASE InstallRecord(p) \/ InstallRecordError(p)
    <3>1. FT!Return(p) /\ (RecordCall(p) \/ UNCHANGED ledgerVars)
      BY <2>3 DEF InstallRecord, InstallRecordError
    <3>2. transactions'[x] = transactions[x]
      <4>1. CASE RecordCall(p)
        BY <1>1, <4>1 DEF RecordCall, L!RecordTransactionWithManagedObject, L!SetStatus,
           L!HasTransaction, L!TypeOK
      <4> QED
        BY <3>1, <4>1 DEF ledgerVars
    <3> QED
      BY <1>4, <3>1, <3>2
  <2>4. CASE InstallError(p) \/ InstallUndone(p)
    <3>1. FT!Return(p) /\ UNCHANGED transactions
      BY <2>4 DEF InstallError, InstallUndone, L!FinishOperation, ledgerVars
    <3> QED
      BY <1>4, <3>1
  <2>5. ~InstallUndo(p)
    BY DEF InstallUndo, NoRollback, Runs
  <2> QED
    BY <1>6, <2>1, <2>2, <2>3, <2>4, <2>5 DEF Install
<1>7. ASSUME NEW p \in Procs, Uninstall(p) PROVE Stuck(x)'
  <2>1. CallOf(p) = {} /\ UNCHANGED <<calls, journals, transactions>>
    BY <1>7 DEF Uninstall, UninstallRead, UninstallCheck, UninstallRemove, UninstallError,
       UninstallForget, L!RemoveManagedObject, CallOf, Runs, Free, ledgerVars, storeVars
  <2> QED
    BY <1>5, <2>1
<1>8. ASSUME NEW p \in Procs, Undo(p) PROVE Stuck(x)'
  <2>1. CASE (\E o \in Ops : UndoStart(p, o)) \/ UndoEnd(p)
    <3>1. CallOf(p) = {} /\ UNCHANGED <<storeVars, transactions>>
      BY <2>1 DEF UndoStart, UndoEnd, L!FinishOperation, CallOf, Runs, Free, ledgerVars
    <3> QED
      BY <1>5, <3>1 DEF storeVars
  <2>2. CASE UndoNext(p)
    <3>1. PICK y \in Txs : FT!UndoCheck(p, y, journals[y].status)
      BY <2>2 DEF UndoNext
    <3>2. /\ UNCHANGED <<journals, transactions>>
          /\ \A q \in Procs \ {p} : calls'[q] = calls[q]
          /\ calls'[p].tx = y
          /\ calls'[p].pc # "err" => journals[y].status = "committed"
      BY <1>1, <2>2, <3>1 DEF UndoNext, FT!UndoCheck, FT!Loaded, FT!fileVars, FT!TypeOK,
         ledgerVars
    <3> QED
      BY <1>1, <1>2, <3>2 DEF ReversedBy
  <2>3. CASE UndoError(p)
    BY <1>4, <2>3 DEF UndoError, ledgerVars
  <2>4. CASE UndoLedger(p)
    <3>1. /\ FT!Return(p) /\ calls[p] # None /\ calls[p].fn = "undo" /\ calls[p].pc = "done"
          /\ \/ L!RollbackTransactionAndManagedObject(calls[p].tx)
             \/ UNCHANGED ledgerVars
      BY <2>4 DEF UndoLedger, Runs, CallIs, FT!Idle, CallOf, MigrationInv, CommandInv
    <3>2. calls[p].tx # x
      BY <3>1 DEF Stuck, ReversedBy
    <3>3. transactions'[x] = transactions[x]
      BY <1>1, <3>1, <3>2 DEF L!RollbackTransactionAndManagedObject, L!SetStatus, L!TypeOK,
         ledgerVars
    <3> QED
      BY <1>4, <3>1, <3>3
  <2> QED
    BY <1>8, <2>1, <2>2, <2>3, <2>4 DEF Undo
<1>9. ASSUME NEW p \in Procs, Recover(p) PROVE Stuck(x)'
  <2>1. ASSUME NEW y \in Txs, RecoverStart(p, y) PROVE Stuck(x)'
    <3>1. /\ UNCHANGED <<journals, transactions>> /\ calls'[p].fn = "recover"
          /\ \A q \in Procs \ {p} : calls'[q] = calls[q]
      BY <1>1, <2>1 DEF RecoverStart, FT!RecoverLoad, FT!Loaded, FT!fileVars, FT!TypeOK,
         ledgerVars
    <3> QED
      BY <1>1, <1>2, <3>1 DEF ReversedBy
  <2> QED
    BY <1>4, <1>9, <2>1 DEF Recover, RecoverEnd, ledgerVars
<1>10. ASSUME NEW p \in Procs, Crash(p) PROVE Stuck(x)'
  <2>1. UNCHANGED <<journals, transactions>>
    BY <1>10 DEF Crash, FT!Crash, FT!fileVars, storeVars, ledgerVars
  <2>2. calls'[p] = None /\ \A q \in Procs \ {p} : calls'[q] = calls[q]
    BY <1>1, <1>10 DEF Crash, FT!Crash, FT!Idle, storeVars, FT!TypeOK
  <2> QED
    BY <1>3, <2>1, <2>2
<1>11. ASSUME InStore, NEW p \in Procs,
              FT!Step(p) \/ FT!IoError(p) \/ FT!TargetUnseen(p)
       PROVE  Stuck(x)'
  <2> USE DEF FT!ApplyPC, FT!RestorePC, FT!ResultPC
  <2>1. calls[p] # None /\ calls[p].pc # "err" /\ UNCHANGED transactions
    BY <1>11 DEF FT!Step, FT!ApplyBackup, FT!ApplyPrepare, FT!ApplyPersist, FT!ApplyCommit,
       FT!RecoverClassify, FT!RestoreBefore, FT!SaveRolledBack, FT!At, FT!IoError,
       FT!TargetUnseen, InStore, ledgerVars
  <2>2. PICK pc \in FT!ApplyPC \union FT!RestorePC \union FT!ResultPC : FT!Goto(p, pc)
    BY <1>11 DEF FT!Step, FT!ApplyBackup, FT!ApplyPrepare, FT!ApplyPersist, FT!ApplyCommit,
       FT!RecoverClassify, FT!Disposition, FT!RestoreBefore, FT!SaveRolledBack, FT!IoError,
       FT!TargetUnseen
  <2>3. /\ \A q \in Procs \ {p} : calls'[q] = calls[q]
        /\ calls'[p].fn = calls[p].fn /\ calls'[p].tx = calls[p].tx
    BY <1>1, <2>1, <2>2, GotoCall
  <2>4. ~ReversedBy(p, x)'
    BY <2>1, <2>3 DEF Stuck, ReversedBy
  <2>5. \/ journals'[x] = journals[x]
        \/ /\ calls[p].tx = x
           /\ journals'[x] = FT!JournalOf(p, "rolled-back")
    <3>1. CASE FT!ApplyPrepare(p) \/ FT!ApplyCommit(p)
      <4>1. calls[p].tx # x
        BY <1>1, <2>1, <3>1
           DEF FT!ApplyPrepare, FT!ApplyCommit, FT!At, MigrationInv, CommandInv, ApplyingAlone,
               Applying
      <4> QED
        BY <1>1, <3>1, <4>1 DEF FT!ApplyPrepare, FT!ApplyCommit, FT!TypeOK
    <3>2. CASE FT!SaveRolledBack(p)
      BY <1>1, <3>2 DEF FT!SaveRolledBack, FT!TypeOK
    <3>3. CASE UNCHANGED journals
      BY <3>3
    <3> QED
      BY <1>11, <3>1, <3>2, <3>3
         DEF FT!Step, FT!ApplyBackup, FT!ApplyPersist, FT!RecoverClassify, FT!RestoreBefore,
             FT!IoError, FT!TargetUnseen, FT!fileVars
  <2>6. journals'[x] # None
    <3>1. calls[p].tx = x => FT!JournalOf(p, "rolled-back") \in FT!Journal
      BY <1>1, <2>1 DEF FT!TypeOK, FT!Call, FT!JournalOf, FT!Journal
    <3> QED
      BY <1>1, <2>5, <3>1, NoneIsNoRecord
  <2> QED
    BY <1>2, <2>1, <2>3, <2>4, <2>5, <2>6
<1>12. CASE UNCHANGED <<calls, journals, transactions>>
  BY <1>12 DEF Stuck, HalfUndone, JournalIs, L!Live, ReversedBy
<1> QED
  BY <1>6, <1>7, <1>8, <1>9, <1>10, <1>11, <1>12
     DEF IntegrationNext, InStore, FT!Edit, vars, storeVars, ledgerVars

\* A command that goes on is the command it was.
LEMMA NoRollbackStays ==
    ASSUME MigrationInv, NoRollback, stops' = 0, [IntegrationNext]_vars
    PROVE  NoRollback'
<1>1. ~LedgerFails
  BY DEF LedgerFails, MigrationInv, TypeOK
<1>2. ASSUME NEW p \in Procs, NEW c, cli' = [cli EXCEPT ![p] = c],
             c # None => c.cmd # "apply" /\ (c.cmd = "install" => c.pc \in {"next", "call"})
      PROVE  NoRollback'
  <2>1. cli'[p] = c /\ \A q \in Procs \ {p} : cli'[q] = cli[q]
    BY <1>2 DEF MigrationInv, TypeOK
  <2> QED
    BY <1>2, <2>1 DEF NoRollback
<1>3. ASSUME NEW p \in Procs, Exit(p) PROVE NoRollback'
  BY <1>2, <1>3 DEF Exit
<1>4. ASSUME NEW p \in Procs, NEW cmd \in {"install", "uninstall", "undo", "recover"},
             NEW o, NEW plan, NEW txs, NEW pc \in {"next", "call", "hashed"},
             cmd = "install" => pc # "hashed", Begin(p, cmd, o, plan, txs, pc)
      PROVE  NoRollback'
  <2> DEFINE c == [cmd |-> cmd, op |-> o, pc |-> pc, plan |-> plan, txs |-> txs,
                   ok |-> TRUE, finish |-> TRUE]
  <2>1. cli' = [cli EXCEPT ![p] = c] /\ c.cmd = cmd /\ c.pc = pc
    BY <1>4 DEF Begin
  <2> HIDE DEF c
  <2> QED
    BY <1>2, <1>4, <2>1
<1>5. ASSUME NEW p \in Procs, cli[p] # None, NEW pc, Proceed(p, pc),
             cli[p].cmd = "install" => pc \in {"next", "call"}
      PROVE  NoRollback'
  <2> DEFINE c == [cli[p] EXCEPT !.pc = pc]
  <2>1. cli[p] \in Command
    BY <1>5 DEF MigrationInv, TypeOK
  <2>2. c.cmd = cli[p].cmd /\ c.pc = pc /\ cli' = [cli EXCEPT ![p] = c]
    BY <1>5, <2>1 DEF Command, Proceed
  <2> HIDE DEF c
  <2> QED
    BY <1>2, <1>5, <2>2 DEF NoRollback
<1>6. ASSUME NEW p \in Procs, Install(p) PROVE NoRollback'
  <2>1. ASSUME NEW x \in Txs, ~Free(p), NEW w \in cli[p].plan, InstallWrite(p, w, x)
        PROVE  NoRollback'
    <3> DEFINE c == [cli[p] EXCEPT !.pc = "call", !.plan = @ \ {w}]
    <3>1. cli[p] # None /\ cli[p] \in Command
      BY <2>1 DEF Free, MigrationInv, TypeOK
    <3>2. c.cmd = cli[p].cmd /\ c.pc = "call"
      BY <3>1 DEF Command
    <3>3. cli' = [cli EXCEPT ![p] = c]
      BY <2>1 DEF InstallWrite
    <3> HIDE DEF c
    <3> QED
      BY <1>2, <3>1, <3>2, <3>3 DEF NoRollback
  <2>2. ASSUME NEW o \in Ops, NEW t \in Targets, NEW template \in Templates,
               InstallStart(p, o, t, template)
        PROVE  NoRollback'
    BY <1>4, <2>2 DEF InstallStart
  <2>3. CASE InstallError(p) \/ InstallUndone(p) \/ InstallEnd(p)
    BY <1>3, <2>3 DEF InstallError, InstallUndone, InstallEnd
  <2>4. CASE InstallRecord(p)
    BY <1>5, <2>4 DEF InstallRecord, Runs
  <2>5. ~InstallRecordError(p) /\ ~InstallUndo(p)
    BY <1>1 DEF InstallRecordError, InstallUndo, NoRollback, Runs
  <2> QED
    BY <1>6, <2>1, <2>2, <2>3, <2>4, <2>5 DEF Install
<1>7. ASSUME NEW p \in Procs, Uninstall(p) PROVE NoRollback'
  <2>1. ASSUME NEW t \in Targets, NEW template \in Templates, UninstallRead(p, t, template)
        PROVE  NoRollback'
    BY <1>4, <2>1 DEF UninstallRead
  <2>2. CASE UninstallCheck(p) \/ UninstallRemove(p)
    BY <1>3, <1>5, <2>2 DEF UninstallCheck, UninstallRemove, Runs
  <2> QED
    BY <1>3, <1>7, <2>1, <2>2 DEF Uninstall, UninstallError, UninstallForget
<1>8. ASSUME NEW p \in Procs, Undo(p) PROVE NoRollback'
  <2>1. ASSUME NEW o \in Ops, UndoStart(p, o) PROVE NoRollback'
    BY <1>4, <2>1 DEF UndoStart
  <2>2. CASE UndoNext(p)
    BY <1>5, <2>2 DEF UndoNext, Runs
  <2>3. CASE UndoError(p) \/ UndoEnd(p)
    BY <1>3, <2>3 DEF UndoError, UndoEnd
  <2>4. CASE UndoLedger(p)
    <3> DEFINE c == [cli[p] EXCEPT !.pc = "next", !.txs = @ \ {calls[p].tx}]
    <3>1. cli[p] # None /\ cli[p] \in Command
      BY <2>4 DEF UndoLedger, Runs, MigrationInv, TypeOK
    <3>2. c.cmd = cli[p].cmd /\ c.pc = "next"
      BY <3>1 DEF Command
    <3>3. cli' = [cli EXCEPT ![p] = c] \/ Exit(p)
      BY <2>4 DEF UndoLedger
    <3> HIDE DEF c
    <3> QED
      BY <1>2, <1>3, <3>1, <3>2, <3>3 DEF NoRollback
  <2> QED
    BY <1>8, <2>1, <2>2, <2>3, <2>4 DEF Undo
<1>9. ASSUME NEW p \in Procs, Recover(p) PROVE NoRollback'
  <2>1. ASSUME NEW x \in Txs, RecoverStart(p, x) PROVE NoRollback'
    BY <1>4, <2>1 DEF RecoverStart
  <2> QED
    BY <1>3, <1>9, <2>1 DEF Recover, RecoverEnd
<1>10. ASSUME NEW p \in Procs, Crash(p) PROVE NoRollback'
  BY <1>3, <1>10 DEF Crash
<1>11. CASE UNCHANGED cli
  BY <1>11 DEF NoRollback
<1> QED
  BY <1>6, <1>7, <1>8, <1>9, <1>10, <1>11 DEF IntegrationNext, InStore, vars

LEMMA InstalledInvNext ==
    ASSUME OneAtATime, MigrationInv, InstalledInv, [IntegrationNext]_vars
    PROVE  InstalledInv'
<1> SUFFICES ASSUME Uneventful'
             PROVE  NoRollback' /\ (Neat' \/ \E x \in Txs : Stuck(x)')
  BY DEF InstalledInv
<1>1. edits' = 0 /\ stops' = 0 /\ faults' = 0
  BY DEF Uneventful
<1>2. edits \in Nat /\ stops \in Nat /\ faults \in Nat
  BY DEF MigrationInv, TypeOK, FT!TypeOK
<1>3. ~LedgerFails /\ \A p \in Procs : ~Crash(p) /\ ~FT!IoError(p) /\ ~FT!TargetUnseen(p)
  BY <1>1, <1>2 DEF LedgerFails, Crash, FT!Crash, FT!IoError, FT!TargetUnseen
<1>4. \A t \in Targets, c \in FT!FileState : ~FT!Edit(t, c)
  BY <1>1, <1>2 DEF FT!Edit
<1>5. UNCHANGED vars => Uneventful
  BY <1>1 DEF vars, storeVars, Uneventful
<1>6. ASSUME NEW p \in Procs, Install(p) \/ Uninstall(p) \/ Undo(p) \/ Recover(p)
      PROVE  edits' = edits /\ faults' = faults
  BY <1>6 DEF Install, InstallStart, InstallWrite, InstallError, InstallRecord,
     InstallRecordError, InstallUndo, InstallUndone, InstallEnd, Uninstall, UninstallRead,
     UninstallCheck, UninstallRemove, UninstallError, UninstallForget, Undo, UndoStart,
     UndoNext, UndoLedger, UndoError, UndoEnd, Recover, RecoverStart, RecoverEnd,
     FT!ApplyRead, FT!ApplyStale, FT!Return, FT!UndoCheck,
     FT!RecoverLoad, FT!envVars, storeVars
<1>7. ASSUME NEW p \in Procs, Install(p) \/ Uninstall(p) \/ Undo(p) \/ Recover(p)
      PROVE  stops' = stops
  BY <1>3, <1>7 DEF Install, InstallStart, InstallWrite, InstallError, InstallRecord,
     InstallRecordError, InstallUndo, InstallUndone, InstallEnd, Uninstall, UninstallRead,
     UninstallCheck, UninstallRemove, UninstallError, UninstallForget, Undo, UndoStart,
     UndoNext, UndoLedger, UndoError, UndoEnd, Recover, RecoverStart, RecoverEnd
<1>8. ASSUME InStore, NEW p \in Procs, FT!Step(p)
      PROVE  UNCHANGED <<edits, faults, stops>>
  BY <1>8 DEF FT!Step, FT!ApplyBackup, FT!ApplyPrepare, FT!ApplyPersist, FT!ApplyCommit,
     FT!RecoverClassify, FT!RestoreBefore, FT!SaveRolledBack, FT!envVars, InStore
<1>9. Uneventful
  BY <1>1, <1>3, <1>4, <1>5, <1>6, <1>7, <1>8 DEF Uneventful, IntegrationNext
<1>10. NoRollback /\ NoRollback'
  BY <1>1, <1>9, NoRollbackStays DEF InstalledInv
<1> SUFFICES Neat' \/ \E x \in Txs : Stuck(x)'
  BY <1>10
<1>11. CASE \E x \in Txs : Stuck(x)
  BY <1>10, <1>11, StuckStays
<1>12. CASE Neat
  <2>1. ASSUME NEW p \in Procs, Install(p) PROVE Neat'
    <3>1. ~InstallRecordError(p) /\ ~InstallUndo(p) /\ ~InstallUndone(p)
      BY <1>3, <1>10 DEF InstallRecordError, InstallUndo, InstallUndone, NoRollback, Runs
    <3> QED
      BY <1>12, <2>1, <3>1, NeatStarts, NeatLoads, NeatEnds, NeatRecords DEF Install
  <2>2. ASSUME NEW p \in Procs, Uninstall(p) PROVE Neat'
    BY <1>1, <1>12, <2>2, NeatStarts, NeatUninstalls DEF Uninstall
  <2>3. ASSUME NEW p \in Procs, Undo(p) PROVE Neat' \/ \E x \in Txs : Stuck(x)'
    BY <1>1, <1>12, <2>3, NeatStarts, NeatLoads, NeatUndoes, NeatEnds DEF Undo
  <2>4. ASSUME NEW p \in Procs, Recover(p) PROVE Neat'
    BY <1>12, <2>4, NeatLoads, NeatEnds DEF Recover
  <2>5. ASSUME InStore, NEW p \in Procs, FT!Step(p) PROVE Neat'
    BY <1>12, <2>5, NeatSteps
  <2>6. CASE UNCHANGED vars
    <3>1. UNCHANGED <<files, journals, calls, managed, changes, transactions, cli>>
      BY <2>6 DEF vars, storeVars, ledgerVars
    <3>2. OwnedOrRemoving'
      BY <1>12, <3>1 DEF Neat, OwnedOrRemoving, Removing, Runs
    <3>3. NewOwners'
      BY <1>12, <3>1 DEF Neat, NewOwners, Opening, Applying, L!HasTransaction
    <3>4. \A p \in Procs : NeatCall(p)' /\ NeatCommand(p)'
      BY <1>12, <3>1 DEF Neat, NeatCall, NeatCommand, L!HasTransaction, L!Live
    <3> QED
      BY <3>2, <3>3, <3>4 DEF Neat
  <2>7. CASE \E p \in Procs : Install(p) \/ Uninstall(p) \/ Undo(p) \/ Recover(p) \/ Crash(p)
    BY <1>3, <2>1, <2>2, <2>3, <2>4, <2>7
  <2>8. CASE InStore /\ \E p \in Procs : FT!Step(p) \/ FT!IoError(p) \/ FT!TargetUnseen(p)
    BY <1>3, <2>5, <2>8
  <2> QED
    BY <1>4, <2>6, <2>7, <2>8 DEF IntegrationNext
<1> QED
  BY <1>9, <1>10, <1>11, <1>12 DEF InstalledInv

\* With one command at a time, and as long as nothing failed and the user edited
\* nothing: between commands an owned Skill is installed, or the ledger refused
\* to follow an undo.
THEOREM OwnedSkillsAreInstalled ==
    ASSUME OneAtATime PROVE IntegrationSpec => []OwnedMeansInstalled
<1>1. Init => InstalledInv
  BY DEF Init, FT!Init, L!Init, InstalledInv, NoRollback, Neat, OwnedOrRemoving, NewOwners,
     NeatCall, NeatCommand, L!HasTransaction
<1>2. MigrationInv /\ InstalledInv /\ [IntegrationNext]_vars => InstalledInv'
  BY InstalledInvNext
<1>3. MigrationInv /\ InstalledInv => OwnedMeansInstalled
  <2> SUFFICES ASSUME MigrationInv, InstalledInv, edits = 0, \A p \in Procs : Free(p),
                      NEW t \in Targets, managed[t] # None, files[t] = None,
                      ~(stops + faults > 0)
               PROVE  \E x \in Txs : HalfUndone(x)
    BY DEF OwnedMeansInstalled
  <2>1. stops \in Nat /\ faults \in Nat
    BY DEF MigrationInv, TypeOK, FT!TypeOK
  <2>2. Uneventful
    BY <2>1 DEF Uneventful
  <2>3. ASSUME NEW p \in Procs PROVE ~Removing(p, t)
    <3>1. calls[p] = None /\ cli[p] = None
      BY FreeIsIdle DEF Free, CallOf, Runs
    <3> QED
      BY <3>1 DEF Removing, Runs
  <2> QED
    BY <2>2, <2>3 DEF InstalledInv, Neat, OwnedOrRemoving, Stuck
<1> QED
  BY <1>1, <1>2, <1>3, IntegrationSafety, PTL DEF IntegrationSpec
=============================================================================

------------------------ MODULE FileTransactionProofs ------------------------
(***************************************************************************)
(* The safety of file transactions, for any number of processes, targets,  *)
(* transactions, edits and faults.  FileInv needs no assumption on the     *)
(* environment; KeepInv needs edits that do not race a call.  With one     *)
(* process besides, ReverseInv shows that ReversibleFiles is implemented.  *)
(***************************************************************************)
EXTENDS FileTransaction, TLAPS

LEMMA FileInvInit == Init => FileInv /\ KeepInv
<1> SUFFICES ASSUME Init PROVE FileInv /\ KeepInv
  OBVIOUS
<1> USE DEF Init
<1>1. TypeOK
  BY DEF TypeOK, FileState, Contents
<1>2. (\A p \in Procs : CallOK(p) /\ CallKeeps(p) /\ ~New(p))
  BY DEF CallOK, CallKeeps, New
<1>3. BackupsComplete /\ TargetsExplained /\ UserBytesKept
  BY DEF BackupsComplete, TargetsExplained, UserBytesKept
<1> QED
  BY <1>1, <1>2, <1>3 DEF FileInv, KeepInv

-----------------------------------------------------------------------------
(* Steps that write nothing durable. *)

\* Moving the program counter changes nothing else.
LEMMA GotoCall ==
    ASSUME TypeOK, NEW p \in Procs, calls[p] # None,
           NEW pc \in ApplyPC \union RestorePC \union ResultPC, Goto(p, pc)
    PROVE  /\ calls' \in [Procs -> Call \union {None}]
           /\ calls'[p] # None /\ calls'[p] \in Call /\ calls'[p].pc = pc
           /\ calls'[p].fn = calls[p].fn /\ calls'[p].tx = calls[p].tx
           /\ calls'[p].target = calls[p].target
           /\ calls'[p].before = calls[p].before
           /\ calls'[p].after = calls[p].after
           /\ \A q \in Procs \ {p} : calls'[q] = calls[q]
<1>1. calls[p] \in Call
  BY DEF TypeOK
<1>2. calls'[p] = [calls[p] EXCEPT !.pc = pc]
  BY DEF TypeOK, Goto
<1>3. calls'[p] \in Call
  BY <1>1, <1>2 DEF Call
<1>4. \A q \in Procs \ {p} : calls'[q] = calls[q]
  BY DEF TypeOK, Goto
<1>5. calls' \in [Procs -> Call \union {None}]
  BY <1>3, <1>2 DEF TypeOK, Goto
<1> QED
  BY <1>1, <1>2, <1>3, <1>4, <1>5, NoneIsNothing DEF Call

\* Only p's call changes, and it does not share a new transaction.
LEMMA Quiet ==
    ASSUME FileInv, NEW p \in Procs, TypeOK', UNCHANGED fileVars, UNCHANGED user,
           \A q \in Procs \ {p} : calls'[q] = calls[q],
           CallOK(p)',
           New(p)' => \A q \in Procs \ {p} : New(q) => calls[q].tx # calls'[p].tx
    PROVE  FileInv'
<1> USE DEF FileInv, fileVars
<1>1. \A q \in Procs \ {p} : CallOK(q)'
  BY DEF CallOK, BackedUp, Journaled
<1>2. \A q \in Procs \ {p} : New(q)' <=> New(q)
  BY DEF New
<1>3. \A q, r \in Procs : New(q)' /\ New(r)' /\ calls'[q].tx = calls'[r].tx => q = r
  BY <1>2
<1>4. BackupsComplete' /\ TargetsExplained'
  BY DEF BackupsComplete, BackedUp, TargetsExplained, Explains
<1> QED
  BY <1>1, <1>3, <1>4

LEMMA ApplyReadInv ==
    ASSUME FileInv, NEW p \in Procs, NEW x \in Txs, NEW t \in Targets,
           NEW e \in FileState, NEW n \in PlanBytes, ApplyRead(p, x, t, e, n)
    PROVE  FileInv'
<1> DEFINE c == [fn |-> "apply", pc |-> "read", tx |-> x, target |-> t,
                 before |-> files[t], after |-> n]
<1>1. c \in Call
  BY DEF Call, ApplyPC, FileInv, TypeOK
<1>2. /\ calls' = [calls EXCEPT ![p] = c] /\ UNCHANGED <<fileVars, envVars>>
      /\ Fresh(x)
  BY DEF ApplyRead
<1>3. c.tx = x /\ c.pc = "read"
  OBVIOUS
<1> HIDE DEF c
<1>4. calls'[p] = c /\ \A q \in Procs \ {p} : calls'[q] = calls[q]
  BY <1>2 DEF FileInv, TypeOK
<1>5. TypeOK'
  BY <1>1, <1>2 DEF FileInv, TypeOK, fileVars, envVars
<1>6. CallOK(p)'
  BY <1>2, <1>3, <1>4 DEF CallOK, Fresh, Unjournaled, Journaling, RestorePC, fileVars
<1>7. \A q \in Procs \ {p} : New(q) => calls[q].tx # x
  BY <1>2 DEF Fresh, New
<1> QED
  BY <1>2, <1>3, <1>4, <1>5, <1>6, <1>7, Quiet DEF envVars

LEMMA ApplyStaleInv ==
    ASSUME FileInv, NEW p \in Procs, NEW t \in Targets, NEW e \in FileState,
           NEW n \in PlanBytes, ApplyStale(p, t, e, n)
    PROVE  FileInv'
<1> DEFINE c == [fn |-> "apply", pc |-> "err", tx |-> None, target |-> t,
                 before |-> files[t], after |-> n]
<1>1. c \in Call
  BY DEF Call, ResultPC, FileInv, TypeOK
<1>2. calls' = [calls EXCEPT ![p] = c] /\ UNCHANGED <<fileVars, envVars>>
  BY DEF ApplyStale
<1>3. c.pc = "err"
  OBVIOUS
<1> HIDE DEF c
<1>4. calls'[p] = c /\ \A q \in Procs \ {p} : calls'[q] = calls[q]
  BY <1>2 DEF FileInv, TypeOK
<1>5. TypeOK'
  BY <1>1, <1>2 DEF FileInv, TypeOK, fileVars, envVars
<1>6. CallOK(p)' /\ ~New(p)'
  BY <1>3, <1>4 DEF CallOK, New, Unjournaled, Journaling, RestorePC
<1> QED
  BY <1>2, <1>4, <1>5, <1>6, Quiet DEF envVars

\* A call that starts from a loaded journal.
LEMMA LoadedInv ==
    ASSUME FileInv, NEW p \in Procs, NEW x \in Txs, journals[x] # None,
           NEW fn \in {"undo", "recover"}, NEW pc \in {"checked", "loaded", "err"},
           calls' = [calls EXCEPT ![p] = Loaded(fn, pc, x)],
           UNCHANGED <<fileVars, envVars>>
    PROVE  FileInv'
<1> DEFINE c == Loaded(fn, pc, x)
<1>1. journals[x] \in Journal
  BY DEF FileInv, TypeOK
<1>2. /\ c \in Call /\ c.pc = pc /\ c.tx = x
      /\ c.target = journals[x].target /\ c.before = journals[x].before
      /\ c.after = journals[x].after
  BY <1>1 DEF Loaded, Call, Journal, RestorePC, ResultPC
<1> HIDE DEF c
<1>3. calls' = [calls EXCEPT ![p] = c]
  BY DEF c
<1>4. calls'[p] = c /\ \A q \in Procs \ {p} : calls'[q] = calls[q]
  BY <1>3 DEF FileInv, TypeOK
<1>5. TypeOK'
  BY <1>2, <1>3 DEF FileInv, TypeOK, fileVars, envVars
<1>6. CallOK(p)' /\ ~New(p)'
  BY <1>2, <1>4 DEF CallOK, New, Unjournaled, Journaled, fileVars
<1> QED
  BY <1>4, <1>5, <1>6, Quiet DEF envVars

\* Whatever status the caller's copy of the journal has.
LEMMA UndoCheckInv ==
    ASSUME FileInv, NEW p \in Procs, NEW x \in Txs, NEW status, UndoCheck(p, x, status)
    PROVE  FileInv'
<1> DEFINE safe == status = "committed" /\ files[journals[x].target] = journals[x].after
<1>1. CASE safe
  BY <1>1, LoadedInv DEF UndoCheck
<1>2. CASE ~safe
  BY <1>2, LoadedInv DEF UndoCheck
<1> QED
  BY <1>1, <1>2

LEMMA StartInv ==
    ASSUME FileInv, NEW p \in Procs, Start(p)
    PROVE  FileInv'
<1>1. ASSUME NEW x \in Txs, UndoCheck(p, x, journals[x].status)
      PROVE  FileInv'
  BY <1>1, UndoCheckInv
<1>2. ASSUME NEW x \in Txs, NEW recorded \in BOOLEAN, RecoverLoad(p, x, recorded)
      PROVE  FileInv'
  <2> DEFINE awaiting == \/ journals[x].status = "prepared"
                         \/ journals[x].status = "committed" /\ ~recorded
  <2>1. CASE awaiting
    BY <1>2, <2>1, LoadedInv DEF RecoverLoad, Awaiting
  <2>2. CASE ~awaiting
    BY <1>2, <2>2, LoadedInv DEF RecoverLoad, Awaiting
  <2> QED
    BY <2>1, <2>2
<1> QED
  BY <1>1, <1>2, ApplyReadInv, ApplyStaleInv DEF Start

\* A step of p's call that only moves its program counter.
LEMMA MoveInv ==
    ASSUME FileInv, NEW p \in Procs, calls[p] # None,
           NEW pc \in {"restored", "unseen", "checked", "err"},
           pc # "err" => calls[p].pc \in Journaling,
           Goto(p, pc), UNCHANGED <<fileVars, user>>,
           edits' \in Nat /\ faults' \in Nat /\ damage' \in Nat
    PROVE  FileInv'
<1>1. /\ calls' \in [Procs -> Call \union {None}]
      /\ calls'[p] # None /\ calls'[p].pc = pc
      /\ calls'[p].tx = calls[p].tx /\ calls'[p].target = calls[p].target
      /\ calls'[p].before = calls[p].before /\ calls'[p].after = calls[p].after
      /\ \A q \in Procs \ {p} : calls'[q] = calls[q]
  BY GotoCall DEF FileInv, RestorePC, ResultPC
<1>2. TypeOK'
  BY <1>1 DEF FileInv, TypeOK, fileVars
<1>3. CallOK(p)' /\ ~New(p)'
  BY <1>1 DEF FileInv, CallOK, New, Unjournaled, Journaling, RestorePC,
              Journaled, fileVars
<1> QED
  BY <1>1, <1>2, <1>3, Quiet

LEMMA DropCallInv ==
    ASSUME FileInv, NEW p \in Procs, calls' = [calls EXCEPT ![p] = None],
           UNCHANGED <<fileVars, user>>,
           edits' \in Nat /\ faults' \in Nat /\ damage' \in Nat
    PROVE  FileInv'
<1>1. calls'[p] = None /\ \A q \in Procs \ {p} : calls'[q] = calls[q]
  BY DEF FileInv, TypeOK
<1>2. TypeOK' /\ CallOK(p)' /\ ~New(p)'
  BY <1>1 DEF FileInv, TypeOK, CallOK, New, fileVars
<1> QED
  BY <1>1, <1>2, Quiet

-----------------------------------------------------------------------------
(* Steps that write a backup, a journal or a target. *)

LEMMA ApplyBackupInv ==
    ASSUME FileInv, NEW p \in Procs, ApplyBackup(p)
    PROVE  FileInv'
<1> DEFINE x == calls[p].tx
<1> USE DEF FileInv
<1>1. /\ calls[p] # None /\ calls[p].pc = "read" /\ calls[p] \in Call
      /\ x \in Txs /\ journals[x] = None /\ Goto(p, "backed")
      /\ backups' = [backups EXCEPT ![x] = calls[p].before]
      /\ UNCHANGED <<files, journals, envVars>>
  BY DEF ApplyBackup, At, CallOK, Unjournaled, TypeOK
<1>2. /\ calls' \in [Procs -> Call \union {None}]
      /\ calls'[p] # None /\ calls'[p].pc = "backed"
      /\ calls'[p].tx = x /\ calls'[p].target = calls[p].target
      /\ calls'[p].before = calls[p].before /\ calls'[p].after = calls[p].after
      /\ \A q \in Procs \ {p} : calls'[q] = calls[q]
  BY <1>1, GotoCall DEF ApplyPC
<1> HIDE DEF x
<1>3. /\ backups'[x] = calls[p].before
      /\ \A y \in Txs \ {x} : backups'[y] = backups[y]
  BY <1>1 DEF TypeOK
<1>4. TypeOK'
  BY <1>1, <1>2 DEF TypeOK, envVars, Call, FileState
<1>5. CallOK(p)'
  BY <1>1, <1>2, <1>3 DEF CallOK, Unjournaled, Journaling, RestorePC, BackedUp
<1>6. ASSUME NEW q \in Procs \ {p}
      PROVE  CallOK(q)'
  <2>1. calls[q] # None /\ calls[q].pc = "backed" => calls[q].tx # x
    BY <1>1 DEF New, Unjournaled, x
  <2>2. calls[q] # None /\ calls[q].pc = "backed" => calls[q].tx \in Txs
    BY DEF CallOK, Unjournaled
  <2> QED
    BY <1>1, <1>2, <1>3, <2>1, <2>2 DEF CallOK, BackedUp, Journaled
<1>7. \A q, r \in Procs : New(q)' /\ New(r)' /\ calls'[q].tx = calls'[r].tx => q = r
  <2>1. \A q \in Procs : (New(q)' <=> New(q)) /\ (New(q) => calls'[q].tx = calls[q].tx)
    BY <1>1, <1>2 DEF New, Unjournaled, x
  <2> QED
    BY <2>1
<1>8. BackupsComplete' /\ TargetsExplained'
  BY <1>1, <1>3 DEF BackupsComplete, BackedUp, TargetsExplained, Explains, envVars
<1> QED
  BY <1>4, <1>5, <1>6, <1>7, <1>8

\* Writing p's journal, the first time or again.
LEMMA JournalInv ==
    ASSUME FileInv, NEW p \in Procs, calls[p] # None, NEW pc \in {"prepared", "done"},
           calls[p].pc = "backed" \/ calls[p].pc \in Journaling,
           NEW status \in {"prepared", "committed", "rolled-back"},
           journals' = [journals EXCEPT ![calls[p].tx] = JournalOf(p, status)],
           Goto(p, pc), UNCHANGED <<files, backups, envVars>>
    PROVE  FileInv'
<1> DEFINE x == calls[p].tx
           j == JournalOf(p, status)
<1> USE DEF FileInv
<1>1. /\ calls[p] \in Call /\ x \in Txs
      /\ calls[p].pc = "backed" => journals[x] = None
      /\ BackedUp(x, calls[p].before)
  BY DEF CallOK, Unjournaled, TypeOK, Journaled, BackupsComplete
<1>2. /\ j \in Journal /\ j # None /\ j.target = calls[p].target
      /\ j.before = calls[p].before /\ j.after = calls[p].after
  BY <1>1, NoneIsNothing DEF JournalOf, Journal, Call
<1>3. /\ calls' \in [Procs -> Call \union {None}]
      /\ calls'[p] # None /\ calls'[p].pc = pc
      /\ calls'[p].tx = x /\ calls'[p].target = calls[p].target
      /\ calls'[p].before = calls[p].before /\ calls'[p].after = calls[p].after
      /\ \A q \in Procs \ {p} : calls'[q] = calls[q]
  BY GotoCall DEF ApplyPC, ResultPC
<1> HIDE DEF x, j
<1>4. journals' = [journals EXCEPT ![x] = j]
  BY DEF x, j
<1>5. journals'[x] = j /\ \A y \in Txs \ {x} : journals'[y] = journals[y]
  BY <1>1, <1>4 DEF TypeOK
<1>6. TypeOK'
  BY <1>1, <1>2, <1>3, <1>4 DEF TypeOK, envVars
\* A journal that was there already keeps its target, before and after.
<1>7. journals[x] # None =>
        /\ journals[x].target = j.target
        /\ journals[x].before = j.before /\ journals[x].after = j.after
  BY <1>1, <1>2 DEF CallOK, Journaled, x
<1>8. CallOK(p)'
  BY <1>1, <1>2, <1>3, <1>5 DEF CallOK, Unjournaled, Journaling, RestorePC, Journaled
<1>9. ASSUME NEW q \in Procs \ {p}
      PROVE  CallOK(q)'
  <2>1. New(q) => calls[q].tx # x
    BY <1>1, <1>7 DEF CallOK, New, Unjournaled, Journaled, x
  <2> QED
    BY <1>2, <1>3, <1>5, <1>7, <2>1 DEF CallOK, New, BackedUp, Journaled
<1>10. \A q, r \in Procs : New(q)' /\ New(r)' /\ calls'[q].tx = calls'[r].tx => q = r
  <2>1. ~New(p)' /\ \A q \in Procs \ {p} : (New(q)' <=> New(q))
    BY <1>3 DEF New, Unjournaled
  <2> QED
    BY <2>1, <1>3
<1>11. BackupsComplete'
  BY <1>1, <1>2, <1>5 DEF BackupsComplete, BackedUp
<1>12. TargetsExplained'
  <2> SUFFICES ASSUME NEW t \in Targets, files[t] # user[t]
               PROVE  \E y \in Txs : Explains(y, t)'
    BY DEF TargetsExplained, envVars
  <2>1. PICK y \in Txs : Explains(y, t)
    BY DEF TargetsExplained
  <2> QED
    BY <2>1, <1>2, <1>5, <1>7 DEF Explains
<1> QED
  BY <1>6, <1>8, <1>9, <1>10, <1>11, <1>12

\* Writing p's target with a state its journal names.
LEMMA TargetInv ==
    ASSUME FileInv, NEW p \in Procs, calls[p] # None, calls[p].pc \in Journaling,
           NEW pc \in {"persisted", "restored"}, Goto(p, pc),
           NEW c \in {calls[p].before, calls[p].after},
           files' = [files EXCEPT ![calls[p].target] = c],
           UNCHANGED <<journals, backups, envVars>>
    PROVE  FileInv'
<1> DEFINE x == calls[p].tx
           t == calls[p].target
<1> USE DEF FileInv
<1>1. calls[p] \in Call /\ t \in Targets /\ c \in FileState
  BY DEF TypeOK, Call, FileState, Contents
<1>2. /\ x \in Txs /\ journals[x] # None /\ journals[x].target = t
      /\ c \in {journals[x].before, journals[x].after}
  BY DEF CallOK, Journaled
<1>3. /\ calls' \in [Procs -> Call \union {None}]
      /\ calls'[p] # None /\ calls'[p].pc = pc
      /\ calls'[p].tx = x /\ calls'[p].target = calls[p].target
      /\ calls'[p].before = calls[p].before /\ calls'[p].after = calls[p].after
      /\ \A q \in Procs \ {p} : calls'[q] = calls[q]
  BY GotoCall DEF ApplyPC, RestorePC
<1> HIDE DEF x, t
<1>4. files'[t] = c /\ \A u \in Targets \ {t} : files'[u] = files[u]
  BY <1>1 DEF TypeOK, t
<1>5. TypeOK'
  BY <1>1, <1>3 DEF TypeOK, envVars
<1>6. CallOK(p)'
  BY <1>2, <1>3 DEF CallOK, Journaled, Unjournaled, x
<1>7. \A q \in Procs \ {p} : CallOK(q)'
  BY <1>3 DEF CallOK, Journaled, BackedUp
<1>8. \A q, r \in Procs : New(q)' /\ New(r)' /\ calls'[q].tx = calls'[r].tx => q = r
  <2>1. ~New(p)' /\ \A q \in Procs \ {p} : (New(q)' <=> New(q))
    BY <1>3 DEF New, Unjournaled
  <2> QED
    BY <2>1, <1>3
<1>9. BackupsComplete'
  BY DEF BackupsComplete, BackedUp
<1>10. TargetsExplained'
  BY <1>2, <1>4 DEF TargetsExplained, Explains, envVars
<1> QED
  BY <1>5, <1>6, <1>7, <1>8, <1>9, <1>10

LEMMA EditInv ==
    ASSUME FileInv, NEW t \in Targets, NEW c \in FileState, Edit(t, c)
    PROVE  FileInv'
<1> USE DEF FileInv
<1>1. /\ files'[t] = c /\ user'[t] = c
      /\ \A u \in Targets \ {t} : files'[u] = files[u] /\ user'[u] = user[u]
      /\ UNCHANGED <<journals, backups, calls>>
  BY DEF Edit, TypeOK
<1>2. TypeOK'
  BY DEF Edit, TypeOK
<1>3. \A q \in Procs : CallOK(q)' /\ (New(q)' <=> New(q))
  BY <1>1 DEF CallOK, Journaled, BackedUp, New
<1>4. BackupsComplete' /\ TargetsExplained'
  BY <1>1 DEF BackupsComplete, BackedUp, TargetsExplained, Explains
<1> QED
  BY <1>1, <1>2, <1>3, <1>4

LEMMA DamageInv ==
    ASSUME FileInv, NEW x \in Txs, DamageBackup(x)
    PROVE  FileInv'
<1> USE DEF FileInv
<1>1. /\ backups'[x] = Damaged
      /\ \A y \in Txs \ {x} : backups'[y] = backups[y]
      /\ UNCHANGED <<files, journals, calls, user>>
  BY DEF DamageBackup, TypeOK
<1>2. TypeOK'
  BY DEF DamageBackup, TypeOK
<1>3. \A y \in Txs, before \in FileState : BackedUp(y, before) => BackedUp(y, before)'
  BY <1>1 DEF BackedUp
<1>4. \A q \in Procs : CallOK(q)' /\ (New(q)' <=> New(q))
  BY <1>1, <1>3 DEF CallOK, Journaled, New, TypeOK, Call, Unjournaled
<1>5. BackupsComplete' /\ TargetsExplained'
  BY <1>1, <1>3 DEF BackupsComplete, TargetsExplained, Explains, TypeOK, Journal
<1> QED
  BY <1>1, <1>2, <1>4, <1>5

LEMMA FileInvStep == FileInv /\ [Next]_vars => FileInv'
<1> SUFFICES ASSUME FileInv, [Next]_vars PROVE FileInv'
  OBVIOUS
<1>1. edits \in Nat /\ faults \in Nat /\ damage \in Nat
  BY DEF FileInv, TypeOK
<1>2. ASSUME NEW p \in Procs, Step(p) PROVE FileInv'
  <2>1. CASE ApplyBackup(p)
    BY <2>1, ApplyBackupInv
  <2>2. CASE ApplyPrepare(p)
    BY <2>2, JournalInv DEF ApplyPrepare, At
  <2>3. CASE ApplyPersist(p)
    BY <2>3, TargetInv DEF ApplyPersist, At, Journaling
  <2>4. CASE ApplyCommit(p)
    BY <2>4, JournalInv DEF ApplyCommit, At, Journaling
  <2>5. CASE RecoverClassify(p)
    <3>1. calls[p] # None /\ calls[p].pc \in Journaling
      BY <2>5 DEF RecoverClassify, Disposition, At, Journaling, RestorePC
    <3>2. Goto(p, "restored") \/ Goto(p, "checked") \/ Goto(p, "err")
      BY <2>5 DEF RecoverClassify, Disposition
    <3> QED
      BY <2>5, <3>1, <3>2, <1>1, MoveInv DEF RecoverClassify, Disposition, envVars
  <2>6. CASE RestoreBefore(p)
    <3>1. calls[p] # None /\ calls[p].pc \in Journaling
      BY <2>6 DEF RestoreBefore, Journaling, RestorePC
    <3>2. CASE BackupVerifies(p)
      BY <2>6, <3>1, <3>2, TargetInv DEF RestoreBefore, BackupVerifies, BeforeBytes
    <3>3. CASE ~BackupVerifies(p)
      BY <2>6, <3>1, <3>3, <1>1, MoveInv DEF RestoreBefore, fileVars, envVars
    <3> QED
      BY <3>2, <3>3
  <2>7. CASE SaveRolledBack(p)
    BY <2>7, JournalInv DEF SaveRolledBack, Journaling, RestorePC
  <2> QED
    BY <1>2, <2>1, <2>2, <2>3, <2>4, <2>5, <2>6, <2>7 DEF Step
<1>3. ASSUME NEW p \in Procs, Return(p) PROVE FileInv'
  BY <1>1, <1>3, DropCallInv DEF Return, envVars
<1>4. ASSUME NEW p \in Procs, IoError(p) PROVE FileInv'
  BY <1>1, <1>4, MoveInv DEF IoError
<1>7. ASSUME NEW p \in Procs, TargetUnseen(p) PROVE FileInv'
  <2>1. calls[p] # None /\ calls[p].pc \in Journaling
    BY <1>7 DEF TargetUnseen, Journaling, RestorePC
  <2> QED
    BY <1>1, <1>7, <2>1, MoveInv DEF TargetUnseen
<1>5. ASSUME NEW p \in Procs, Crash(p) PROVE FileInv'
  <2>1. /\ calls' = [calls EXCEPT ![p] = None] /\ UNCHANGED <<fileVars, user>>
        /\ edits' \in Nat /\ faults' \in Nat /\ damage' \in Nat
    BY <1>1, <1>5 DEF Crash
  <2> QED
    BY <2>1, DropCallInv
<1>6. CASE UNCHANGED vars
  BY <1>6 DEF vars, FileInv, TypeOK, CallOK, Journaled, BackedUp, New,
              BackupsComplete, TargetsExplained, Explains
<1> QED
  BY <1>2, <1>3, <1>4, <1>5, <1>6, <1>7, StartInv, EditInv, DamageInv DEF Next, Environment

-----------------------------------------------------------------------------
\* Whatever processes, crashes, I/O errors and edits interleave, the state is
\* well typed, every journal has its backup and every target is explained.
THEOREM FileSafety == Spec => []FileInv
<1>1. Init => FileInv
  BY FileInvInit
<1> QED
  BY <1>1, FileInvStep, PTL DEF Spec

THEOREM FileTypes == Spec => []TypeOK
BY FileSafety, PTL DEF FileInv

\* No journal reaches the disk before the backup it promises.
THEOREM BackupsAreComplete == Spec => []BackupsComplete
BY FileSafety, PTL DEF FileInv

\* No target holds bytes that neither the user nor a journal accounts for.
THEOREM TargetsAreExplained == Spec => []TargetsExplained
BY FileSafety, PTL DEF FileInv

-----------------------------------------------------------------------------
(* The user's bytes, when edits do not race calls. *)

\* Journals keep their fields and a verified backup stays or gets damaged, so
\* bytes that are kept stay kept until the user edits the target again.
LEMMA KeptStays ==
    ASSUME NEW t \in Targets, Kept(t), user'[t] = user[t],
           \A x \in Txs : journals[x] # None =>
              /\ journals'[x] # None
              /\ journals'[x].target = journals[x].target
              /\ journals'[x].before = journals[x].before
              /\ backups'[x] \in {backups[x], Damaged}
    PROVE  Kept(t)'
BY DEF Kept

\* What every step does to journals and backups.
JournalsStay ==
    \A x \in Txs : journals[x] # None =>
        /\ journals'[x] # None
        /\ journals'[x].target = journals[x].target
        /\ journals'[x].before = journals[x].before
        /\ backups'[x] \in {backups[x], Damaged}

LEMMA JournalsStayStep == FileInv /\ [Next]_vars => JournalsStay
<1> SUFFICES ASSUME FileInv, [Next]_vars PROVE JournalsStay
  OBVIOUS
<1>1. CASE UNCHANGED <<journals, backups>>
  BY <1>1 DEF JournalsStay
<1>2. ASSUME NEW p \in Procs, ApplyBackup(p) PROVE JournalsStay
  BY <1>2 DEF JournalsStay, ApplyBackup, At, FileInv, TypeOK, CallOK, Unjournaled
<1>3. ASSUME NEW p \in Procs, NEW status \in {"prepared", "committed", "rolled-back"},
             calls[p] # None, calls[p].pc = "backed" \/ calls[p].pc \in Journaling,
             journals' = [journals EXCEPT ![calls[p].tx] = JournalOf(p, status)],
             UNCHANGED backups
      PROVE  JournalsStay
  <2>1. JournalOf(p, status) \in Journal
    BY <1>3 DEF FileInv, TypeOK, Call, Journal, JournalOf
  <2>2. calls[p].tx \in Txs /\ (calls[p].pc = "backed" => journals[calls[p].tx] = None)
    BY <1>3 DEF FileInv, CallOK, Unjournaled, Journaled
  <2> QED
    BY <1>3, <2>1, <2>2, NoneIsNothing
       DEF JournalsStay, JournalOf, FileInv, TypeOK, CallOK, Journaled
<1>4. ASSUME NEW x \in Txs, DamageBackup(x) PROVE JournalsStay
  BY <1>4 DEF JournalsStay, DamageBackup, FileInv, TypeOK
<1>5. ASSUME NEW p \in Procs, Start(p) PROVE UNCHANGED <<journals, backups>>
  BY <1>5 DEF Start, ApplyRead, ApplyStale, UndoCheck, RecoverLoad, fileVars
<1>6. ASSUME NEW p \in Procs, Step(p) PROVE JournalsStay
  <2>1. CASE ApplyPrepare(p)
    BY <2>1, <1>3 DEF ApplyPrepare, At
  <2>2. CASE ApplyCommit(p)
    BY <2>2, <1>3 DEF ApplyCommit, At, Journaling
  <2>3. CASE SaveRolledBack(p)
    BY <2>3, <1>3 DEF SaveRolledBack, Journaling, RestorePC
  <2>4. CASE ApplyPersist(p) \/ RecoverClassify(p) \/ RestoreBefore(p)
    BY <2>4, <1>1 DEF ApplyPersist, RecoverClassify, RestoreBefore, fileVars
  <2> QED
    BY <1>2, <1>6, <2>1, <2>2, <2>3, <2>4 DEF Step
<1>7. ASSUME NEW p \in Procs, Return(p) \/ IoError(p) \/ TargetUnseen(p) \/ Crash(p)
      PROVE  UNCHANGED <<journals, backups>>
  BY <1>7 DEF Return, IoError, TargetUnseen, Crash, fileVars
<1>8. ASSUME NEW t \in Targets, NEW c \in FileState, Edit(t, c)
      PROVE  UNCHANGED <<journals, backups>>
  BY <1>8 DEF Edit
<1> QED
  BY <1>1, <1>4, <1>5, <1>6, <1>7, <1>8 DEF Next, Environment, vars

\* A step that writes no target and moves only p's call.
LEMMA KeepQuiet ==
    ASSUME FileInv, KeepInv, JournalsStay, UNCHANGED <<files, user>>,
           NEW p \in Procs, \A q \in Procs \ {p} : calls'[q] = calls[q],
           CallKeeps(p)', TypeOK'
    PROVE  KeepInv'
<1>1. \A t \in Targets : Kept(t) => Kept(t)'
  BY KeptStays DEF JournalsStay
<1>2. UserBytesKept'
  BY <1>1 DEF KeepInv, UserBytesKept
<1>3. ASSUME NEW q \in Procs \ {p}
      PROVE  CallKeeps(q)'
  <2>1. calls[q] # None => calls[q].target \in Targets
    BY DEF FileInv, TypeOK, Call
  <2> QED
    BY <1>1, <2>1 DEF KeepInv, CallKeeps
<1> QED
  BY <1>2, <1>3 DEF KeepInv

\* A step that writes p's target when the bytes it overwrites are kept.
LEMMA KeepWrite ==
    ASSUME FileInv, KeepInv, JournalsStay, UNCHANGED user, NEW p \in Procs,
           NEW t \in Targets, user[t] \in UserBytes => Kept(t),
           \A u \in Targets \ {t} : files'[u] = files[u],
           \A q \in Procs \ {p} : calls'[q] = calls[q],
           CallKeeps(p)'
    PROVE  KeepInv'
<1>1. \A u \in Targets : Kept(u) => Kept(u)'
  BY KeptStays DEF JournalsStay
<1>2. UserBytesKept'
  BY <1>1 DEF KeepInv, UserBytesKept
<1>3. ASSUME NEW q \in Procs \ {p}
      PROVE  CallKeeps(q)'
  <2>1. calls[q] # None => calls[q].target \in Targets
    BY DEF FileInv, TypeOK, Call
  <2> QED
    BY <1>1, <2>1 DEF KeepInv, CallKeeps
<1> QED
  BY <1>2, <1>3 DEF KeepInv

\* A target that holds what a plan installed does not hold the user's bytes.
LEMMA InstalledIsKept ==
    ASSUME KeepInv, NEW t \in Targets, files[t] \in PlanBytes, user[t] \in UserBytes
    PROVE  Kept(t)
BY UserAndPlanDiffer DEF KeepInv, UserBytesKept

\* A finished call promises nothing.
LEMMA ResultKeeps ==
    ASSUME NEW p \in Procs,
           calls[p] # None => calls[p].pc \in ResultPC \union {"loaded", "restored"}
    PROVE  CallKeeps(p)
BY DEF CallKeeps, ResultPC

LEMMA UndoCheckKeeps ==
    ASSUME FileInv, FileInv', KeepInv, NEW p \in Procs, NEW x \in Txs, NEW status,
           UndoCheck(p, x, status)
    PROVE  KeepInv'
<1>1. /\ TypeOK /\ TypeOK' /\ UNCHANGED <<fileVars, envVars>>
      /\ \A q \in Procs \ {p} : calls'[q] = calls[q]
  BY DEF FileInv, UndoCheck, TypeOK
<1>2. JournalsStay
  BY <1>1 DEF JournalsStay, fileVars
<1>3. /\ calls'[p].pc = "checked" => files[journals[x].target] = journals[x].after
      /\ calls'[p].pc \in {"checked", "err"}
      /\ calls'[p].target = journals[x].target
  BY <1>1 DEF UndoCheck, Loaded, TypeOK
<1>4. journals[x].target \in Targets /\ journals[x].after \in PlanBytes
  BY <1>1 DEF UndoCheck, TypeOK, Journal
<1>5. \A t \in Targets : Kept(t) => Kept(t)'
  BY <1>1, <1>2, KeptStays DEF JournalsStay, envVars
<1>6. CallKeeps(p)'
  BY <1>1, <1>3, <1>4, <1>5, InstalledIsKept DEF CallKeeps, envVars
<1> QED
  BY <1>1, <1>2, <1>6, KeepQuiet DEF fileVars, envVars

LEMMA StartKeeps ==
    ASSUME FileInv, FileInv', KeepInv, JournalsStay, NEW p \in Procs, Start(p)
    PROVE  KeepInv'
<1>1. TypeOK /\ TypeOK'
  BY DEF FileInv
<1>2. UNCHANGED <<fileVars, envVars>> /\ \A q \in Procs \ {p} : calls'[q] = calls[q]
  BY <1>1 DEF Start, ApplyRead, ApplyStale, UndoCheck, RecoverLoad, TypeOK
<1> SUFFICES CallKeeps(p)'
  BY <1>1, <1>2, KeepQuiet DEF fileVars, envVars
<1>3. \A t \in Targets : Kept(t) => Kept(t)'
  BY <1>2, KeptStays DEF JournalsStay, envVars
<1>4. ASSUME NEW x \in Txs, NEW t \in Targets, NEW e \in FileState,
             NEW n \in PlanBytes, ApplyRead(p, x, t, e, n)
      PROVE  CallKeeps(p)'
  <2>1. /\ calls'[p].target = t /\ calls'[p].before = files[t] /\ calls'[p].pc = "read"
    BY <1>1, <1>4 DEF ApplyRead, TypeOK
  <2> QED
    BY <2>1, <1>2, <1>3 DEF CallKeeps, KeepInv, UserBytesKept, envVars
<1>5. ASSUME NEW t \in Targets, NEW e \in FileState, NEW n \in PlanBytes,
             ApplyStale(p, t, e, n)
      PROVE  CallKeeps(p)'
  <2>1. calls'[p].pc = "err"
    BY <1>1, <1>5 DEF ApplyStale, TypeOK
  <2> QED
    BY <2>1 DEF CallKeeps
<1>6. ASSUME NEW x \in Txs, UndoCheck(p, x, journals[x].status)
      PROVE  CallKeeps(p)'
  BY <1>6, UndoCheckKeeps DEF KeepInv
<1>7. ASSUME NEW x \in Txs, NEW recorded \in BOOLEAN, RecoverLoad(p, x, recorded)
      PROVE  CallKeeps(p)'
  <2>1. calls'[p].pc \in {"loaded", "err"}
    BY <1>1, <1>7 DEF RecoverLoad, Loaded, TypeOK
  <2> QED
    BY <2>1 DEF CallKeeps
<1> QED
  BY <1>4, <1>5, <1>6, <1>7 DEF Start

\* The step of a call that replaces its target: the bytes it overwrites are kept.
LEMMA StepKeeps ==
    ASSUME FileInv, FileInv', KeepInv, JournalsStay, NEW p \in Procs, Step(p)
    PROVE  KeepInv'
<1> DEFINE t == calls[p].target
<1>1. /\ TypeOK /\ TypeOK' /\ calls[p] # None /\ calls[p] \in Call /\ t \in Targets
      /\ calls[p].after \in PlanBytes
  BY DEF FileInv, TypeOK, Call, Step, ApplyBackup, ApplyPrepare, ApplyPersist,
         ApplyCommit, RecoverClassify, RestoreBefore, SaveRolledBack, At
<1>2. \A u \in Targets : Kept(u) => (user'[u] = user[u] => Kept(u)')
  BY KeptStays DEF JournalsStay
<1>3. ASSUME NEW pc \in ApplyPC \union RestorePC \union ResultPC, Goto(p, pc)
      PROVE  /\ calls'[p].pc = pc /\ calls'[p].target = t
             /\ calls'[p].before = calls[p].before
             /\ \A q \in Procs \ {p} : calls'[q] = calls[q]
  BY <1>1, <1>3, GotoCall
<1>4. CASE ApplyBackup(p) \/ ApplyPrepare(p)
  <2>1. /\ calls[p].pc \in {"read", "backed"} /\ UNCHANGED <<files, user>>
        /\ Goto(p, "backed") \/ Goto(p, "prepared")
    BY <1>4 DEF ApplyBackup, ApplyPrepare, At, envVars
  <2>2. /\ calls'[p].pc \in {"backed", "prepared"} /\ calls'[p].target = t
        /\ calls'[p].before = calls[p].before
        /\ \A q \in Procs \ {p} : calls'[q] = calls[q]
    BY <2>1, <1>3 DEF ApplyPC
  <2>3. CallKeeps(p)'
    BY <1>1, <1>2, <2>1, <2>2 DEF CallKeeps, KeepInv
  <2> QED
    BY <1>1, <2>1, <2>2, <2>3, KeepQuiet
<1>5. CASE ApplyPersist(p)
  <2>1. /\ calls[p].pc = "prepared" /\ Goto(p, "persisted") /\ UNCHANGED user
        /\ \A u \in Targets \ {t} : files'[u] = files[u]
    BY <1>1, <1>5 DEF ApplyPersist, At, TypeOK, envVars
  <2>2. /\ calls[p].tx \in Txs /\ journals[calls[p].tx] # None
        /\ journals[calls[p].tx].target = t
        /\ journals[calls[p].tx].before = calls[p].before
        /\ BackedUp(calls[p].tx, calls[p].before)
    BY <1>1, <2>1 DEF FileInv, CallOK, Journaled, Journaling, BackupsComplete
  <2>3. user[t] \in UserBytes => Kept(t)
    BY <1>1, <2>1, <2>2, NoneIsNothing DEF KeepInv, CallKeeps, Kept, BackedUp, Contents
  <2>4. calls'[p].pc = "persisted" /\ \A q \in Procs \ {p} : calls'[q] = calls[q]
    BY <2>1, <1>3 DEF ApplyPC
  <2>5. CallKeeps(p)'
    BY <2>4 DEF CallKeeps
  <2> QED
    BY <1>1, <2>1, <2>3, <2>4, <2>5, KeepWrite
<1>6. CASE ApplyCommit(p) \/ SaveRolledBack(p)
  <2>1. UNCHANGED <<files, user>> /\ Goto(p, "done")
    BY <1>6 DEF ApplyCommit, SaveRolledBack, envVars
  <2>2. calls'[p].pc = "done" /\ \A q \in Procs \ {p} : calls'[q] = calls[q]
    BY <2>1, <1>3 DEF ResultPC
  <2>3. CallKeeps(p)'
    BY <2>2 DEF CallKeeps
  <2> QED
    BY <1>1, <2>1, <2>2, <2>3, KeepQuiet
<1>7. CASE RecoverClassify(p)
  <2>1. /\ UNCHANGED <<files, user>>
        /\ \/ Goto(p, "restored") \/ Goto(p, "err")
           \/ Goto(p, "checked") /\ files[t] = calls[p].after
    BY <1>7 DEF RecoverClassify, Disposition, fileVars, envVars
  <2>2. /\ calls'[p].pc \in {"restored", "checked", "err"} /\ calls'[p].target = t
        /\ calls'[p].pc = "checked" => files[t] = calls[p].after
        /\ \A q \in Procs \ {p} : calls'[q] = calls[q]
    BY <2>1, <1>3 DEF RestorePC, ResultPC
  <2>3. CallKeeps(p)'
    BY <1>1, <1>2, <2>1, <2>2, InstalledIsKept DEF CallKeeps
  <2> QED
    BY <1>1, <2>1, <2>2, <2>3, KeepQuiet
<1>8. CASE RestoreBefore(p)
  <2>1. /\ calls[p].pc = "checked" /\ UNCHANGED user
        /\ Goto(p, "restored") \/ Goto(p, "err")
        /\ \A u \in Targets \ {t} : files'[u] = files[u]
    BY <1>1, <1>8 DEF RestoreBefore, TypeOK, envVars
  <2>2. user[t] \in UserBytes => Kept(t)
    BY <1>1, <2>1 DEF KeepInv, CallKeeps
  <2>3. calls'[p].pc \in {"restored", "err"} /\ \A q \in Procs \ {p} : calls'[q] = calls[q]
    BY <2>1, <1>3 DEF RestorePC, ResultPC
  <2>4. CallKeeps(p)'
    BY <2>3 DEF CallKeeps
  <2> QED
    BY <1>1, <2>1, <2>2, <2>3, <2>4, KeepWrite
<1> QED
  BY <1>4, <1>5, <1>6, <1>7, <1>8 DEF Step

LEMMA EditKeeps ==
    ASSUME ~RacingEdits, FileInv, KeepInv, NEW t \in Targets, NEW c \in FileState,
           Edit(t, c)
    PROVE  KeepInv'
<1>1. /\ files'[t] = c /\ user'[t] = c
      /\ \A u \in Targets \ {t} : files'[u] = files[u] /\ user'[u] = user[u]
      /\ UNCHANGED <<journals, backups, calls>>
      /\ \A p \in Procs : ~Inside(p, t)
  BY DEF Edit, FileInv, TypeOK
<1>2. \A u \in Targets \ {t} : Kept(u) => Kept(u)'
  BY <1>1, KeptStays
<1>3. UserBytesKept'
  BY <1>1, <1>2 DEF KeepInv, UserBytesKept
<1>4. ASSUME NEW p \in Procs
      PROVE  CallKeeps(p)'
  <2>1. CASE calls[p] = None
    BY <2>1, <1>1 DEF CallKeeps
  <2>2. CASE calls[p] # None /\ calls[p].target # t
    <3>1. calls[p].target \in Targets \ {t}
      BY <2>2 DEF FileInv, TypeOK, Call
    <3> QED
      BY <3>1, <1>1, <1>2 DEF KeepInv, CallKeeps
  <2>3. CASE calls[p] # None /\ calls[p].target = t
    BY <2>3, <1>1 DEF CallKeeps, Inside, ResultPC
  <2> QED
    BY <2>1, <2>2, <2>3
<1> QED
  BY <1>3, <1>4 DEF KeepInv

LEMMA KeepInvStep ==
    ASSUME ~RacingEdits, FileInv, FileInv', KeepInv, [Next]_vars
    PROVE  KeepInv'
<1>1. JournalsStay
  BY JournalsStayStep
<1>2. ASSUME NEW p \in Procs, Return(p) \/ IoError(p) \/ TargetUnseen(p) \/ Crash(p)
      PROVE  KeepInv'
  <2>1. /\ UNCHANGED <<files, user>>
        /\ \/ calls' = [calls EXCEPT ![p] = None]
           \/ calls[p] # None /\ (Goto(p, "err") \/ Goto(p, "unseen"))
    BY <1>2 DEF Return, IoError, TargetUnseen, Crash, fileVars, envVars
  <2>2. /\ calls'[p] = None \/ calls'[p].pc \in {"err", "unseen"}
        /\ \A q \in Procs \ {p} : calls'[q] = calls[q]
    BY <2>1, GotoCall DEF FileInv, TypeOK, RestorePC, ResultPC
  <2>3. CallKeeps(p)'
    BY <2>2 DEF CallKeeps
  <2> QED
    BY <1>1, <2>1, <2>2, <2>3, KeepQuiet DEF FileInv
<1>3. ASSUME NEW x \in Txs, DamageBackup(x)
      PROVE  KeepInv'
  <2>1. UNCHANGED <<files, user, calls>>
    BY <1>3 DEF DamageBackup
  <2>2. \A t \in Targets : Kept(t) => Kept(t)'
    BY <2>1, <1>1, KeptStays DEF JournalsStay
  <2> QED
    BY <2>1, <2>2 DEF KeepInv, UserBytesKept, CallKeeps, FileInv, TypeOK, Call
<1>4. CASE UNCHANGED vars
  BY <1>4 DEF vars, KeepInv, UserBytesKept, CallKeeps, Kept
<1> QED
  BY <1>1, <1>2, <1>3, <1>4, StartKeeps, StepKeeps, EditKeeps DEF Next, Environment

\* Without edits that race a call, no interleaving of any number of processes,
\* crashes and I/O errors loses the bytes only the user has.
THEOREM UserBytesAreKept == ~RacingEdits => (Spec => []UserBytesKept)
<1> SUFFICES ASSUME ~RacingEdits PROVE Spec => []UserBytesKept
  OBVIOUS
<1>1. Init => FileInv /\ KeepInv
  BY FileInvInit
<1>2. FileInv /\ KeepInv /\ [Next]_vars => (FileInv /\ KeepInv)'
  BY FileInvStep, KeepInvStep
<1>3. KeepInv => UserBytesKept
  BY DEF KeepInv
<1> QED
  BY <1>1, <1>2, <1>3, PTL DEF Spec
-----------------------------------------------------------------------------
(* One process at a time: every step is a step of ReversibleFiles. *)

OneProcess == \A p, q \in Procs : p = q

\* What the target holds while a call is inside it, and the journal it works on.
CallReverses(p) ==
    calls[p] # None =>
        /\ calls[p].pc \in {"read", "backed", "prepared", "restored"} =>
                files[calls[p].target] = calls[p].before
        /\ calls[p].pc \in {"persisted", "checked"} =>
                files[calls[p].target] = calls[p].after
        /\ calls[p].pc \in {"prepared", "persisted"} =>
                journals[calls[p].tx].status = "prepared"
        /\ calls[p].pc \in RestorePC => journals[calls[p].tx].status # "rolled-back"

ReverseInv == FileInv /\ \A p \in Procs : CallReverses(p)

\* What a step of p's call finds, and where it leaves the call.
LEMMA StepFinds ==
    ASSUME ReverseInv, NEW p \in Procs, Step(p)
    PROVE  /\ TypeOK /\ calls[p] # None /\ calls[p] \in Call /\ calls[p].target \in Targets
           /\ calls[p].pc = "backed" =>
                calls[p].tx \in Txs /\ journals[calls[p].tx] = None
           /\ calls[p].pc \in Journaling => Journaled(p)
           /\ CallReverses(p)
           /\ \A pc \in ApplyPC \union RestorePC \union ResultPC : Goto(p, pc) =>
                /\ calls'[p] # None /\ calls'[p].pc = pc
                /\ calls'[p].tx = calls[p].tx /\ calls'[p].target = calls[p].target
                /\ calls'[p].before = calls[p].before /\ calls'[p].after = calls[p].after
<1>1. TypeOK /\ calls[p] # None
  BY DEF ReverseInv, FileInv, Step, ApplyBackup, ApplyPrepare, ApplyPersist,
         ApplyCommit, RecoverClassify, RestoreBefore, SaveRolledBack, At
<1>2. calls[p] \in Call /\ calls[p].target \in Targets
  BY <1>1 DEF TypeOK, Call
<1>3. CallOK(p) /\ CallReverses(p)
  BY DEF ReverseInv, FileInv
<1> QED
  BY <1>1, <1>2, <1>3, GotoCall DEF CallOK, Unjournaled

\* A journal p writes.
LEMMA JournalWritten ==
    ASSUME TypeOK, NEW p \in Procs, calls[p] # None, calls[p].tx \in Txs,
           NEW status \in {"prepared", "committed", "rolled-back"},
           journals' = [journals EXCEPT ![calls[p].tx] = JournalOf(p, status)]
    PROVE  journals'[calls[p].tx] # None /\ journals'[calls[p].tx].status = status
<1>1. JournalOf(p, status) \in Journal
  BY DEF TypeOK, Call, Journal, JournalOf
<1> QED
  BY <1>1, NoneIsNothing DEF TypeOK, JournalOf

\* A journal p writes again only changes its status.
LEMMA JournalMarked ==
    ASSUME TypeOK, NEW p \in Procs, Journaled(p), NEW status,
           journals' = [journals EXCEPT ![calls[p].tx] = JournalOf(p, status)]
    PROVE  journals' = [journals EXCEPT ![calls[p].tx].status = status]
<1> DEFINE x == calls[p].tx
           j == journals[x]
<1>1. j \in Journal /\ j.target = calls[p].target /\ j.before = calls[p].before
      /\ j.after = calls[p].after
  BY DEF Journaled, TypeOK
<1> HIDE DEF j
<1>2. j = [status |-> j.status, target |-> j.target, before |-> j.before, after |-> j.after]
  BY <1>1 DEF Journal
<1>3. JournalOf(p, status) = [j EXCEPT !.status = status]
  BY <1>1, <1>2 DEF JournalOf
<1> QED
  BY <1>3 DEF j

LEMMA StartReverses ==
    ASSUME ReverseInv, NEW p \in Procs, Start(p)
    PROVE  CallReverses(p)'
<1>1. TypeOK /\ UNCHANGED <<files, journals, edits>>
  BY DEF ReverseInv, FileInv, Start, ApplyRead, ApplyStale, UndoCheck, RecoverLoad,
         fileVars, envVars
<1>2. ASSUME NEW x \in Txs, NEW t \in Targets, NEW e \in FileState, NEW n \in PlanBytes,
             ApplyRead(p, x, t, e, n)
      PROVE  CallReverses(p)'
  <2>1. calls'[p].pc = "read" /\ calls'[p].target = t /\ calls'[p].before = files[t]
    BY <1>1, <1>2 DEF ApplyRead, TypeOK
  <2> QED
    BY <1>1, <2>1 DEF CallReverses, RestorePC
<1>3. ASSUME NEW t \in Targets, NEW e \in FileState, NEW n \in PlanBytes,
             ApplyStale(p, t, e, n)
      PROVE  CallReverses(p)'
  <2>1. calls'[p].pc = "err"
    BY <1>1, <1>3 DEF ApplyStale, TypeOK
  <2> QED
    BY <2>1 DEF CallReverses, RestorePC
<1>4. ASSUME NEW x \in Txs, UndoCheck(p, x, journals[x].status)
      PROVE  CallReverses(p)'
  <2>1. /\ calls'[p].pc = "checked" =>
            /\ files[journals[x].target] = journals[x].after
            /\ journals[x].status = "committed"
        /\ calls'[p].pc \in {"checked", "err"} /\ calls'[p].tx = x
        /\ calls'[p].target = journals[x].target /\ calls'[p].after = journals[x].after
    BY <1>1, <1>4 DEF UndoCheck, Loaded, TypeOK
  <2> QED
    BY <1>1, <2>1 DEF CallReverses, RestorePC
<1>5. ASSUME NEW x \in Txs, NEW recorded \in BOOLEAN, RecoverLoad(p, x, recorded)
      PROVE  CallReverses(p)'
  <2>1. /\ calls'[p].pc \in {"loaded", "err"} /\ calls'[p].tx = x
        /\ calls'[p].pc = "loaded" => journals[x].status \in {"prepared", "committed"}
    BY <1>1, <1>5 DEF RecoverLoad, Awaiting, Loaded, TypeOK
  <2> QED
    BY <1>1, <2>1 DEF CallReverses, RestorePC
<1> QED
  BY <1>2, <1>3, <1>4, <1>5 DEF Start

LEMMA StepReverses ==
    ASSUME ReverseInv, NEW p \in Procs, Step(p)
    PROVE  CallReverses(p)'
<1> USE DEF ApplyPC, RestorePC, ResultPC, Journaling
<1>1. CASE ApplyBackup(p)
  BY <1>1, StepFinds DEF ApplyBackup, At, CallReverses
<1>2. CASE ApplyPrepare(p)
  <2>1. /\ calls[p].pc = "backed" /\ Goto(p, "prepared") /\ UNCHANGED files
        /\ journals' = [journals EXCEPT ![calls[p].tx] = JournalOf(p, "prepared")]
    BY <1>2 DEF ApplyPrepare, At
  <2>2. journals'[calls[p].tx].status = "prepared"
    BY <2>1, StepFinds, JournalWritten
  <2> QED
    BY <2>1, <2>2, StepFinds DEF CallReverses
<1>3. CASE ApplyPersist(p)
  <2>1. files'[calls[p].target] = calls[p].after
    BY <1>3, StepFinds DEF ApplyPersist, TypeOK
  <2> QED
    BY <1>3, <2>1, StepFinds DEF ApplyPersist, At, CallReverses
<1>4. CASE ApplyCommit(p) \/ SaveRolledBack(p)
  BY <1>4, StepFinds DEF ApplyCommit, SaveRolledBack, CallReverses
<1>5. CASE RecoverClassify(p)
  <2>1. /\ calls[p].pc = "loaded" /\ UNCHANGED <<files, journals>>
        /\ \/ Goto(p, "restored") /\ files[calls[p].target] = calls[p].before
           \/ Goto(p, "checked") /\ files[calls[p].target] = calls[p].after
           \/ Goto(p, "err")
    BY <1>5 DEF RecoverClassify, Disposition, At, fileVars
  <2> QED
    BY <2>1, StepFinds DEF CallReverses
<1>6. CASE RestoreBefore(p)
  <2>1. /\ calls[p].pc = "checked" /\ UNCHANGED journals
        /\ \/ /\ Goto(p, "restored")
              /\ files' = [files EXCEPT ![calls[p].target] = calls[p].before]
           \/ Goto(p, "err")
    BY <1>6 DEF RestoreBefore, BackupVerifies, BeforeBytes
  <2>2. CASE Goto(p, "err")
    BY <2>2, StepFinds DEF CallReverses
  <2>3. CASE Goto(p, "restored")
    <3>1. files'[calls[p].target] = calls[p].before
      BY <2>1, <2>3, StepFinds DEF TypeOK
    <3> QED
      BY <2>1, <2>3, <3>1, StepFinds DEF CallReverses
  <2> QED
    BY <2>1, <2>2, <2>3
<1> QED
  BY <1>1, <1>2, <1>3, <1>4, <1>5, <1>6 DEF Step

\* A user who does not race the calls disturbs none of them.
LEMMA EnvironmentReverses ==
    ASSUME ReverseInv, ~RacingEdits, NEW p \in Procs,
           \/ Return(p) \/ IoError(p) \/ TargetUnseen(p) \/ Crash(p)
           \/ \E t \in Targets, c \in FileState : Edit(t, c)
           \/ \E x \in Txs : DamageBackup(x)
           \/ UNCHANGED vars
    PROVE  CallReverses(p)'
<1>1. TypeOK /\ CallReverses(p)
  BY DEF ReverseInv, FileInv
<1>2. CASE Return(p) \/ Crash(p)
  BY <1>1, <1>2 DEF Return, Crash, TypeOK, CallReverses
<1>3. CASE IoError(p)
  BY <1>1, <1>3, GotoCall DEF IoError, CallReverses, RestorePC, ResultPC
<1>6. CASE TargetUnseen(p)
  <2>1. /\ calls[p] # None /\ calls[p].pc \in {"loaded", "checked"}
        /\ Goto(p, "unseen") /\ UNCHANGED <<files, journals>>
    BY <1>6 DEF TargetUnseen, fileVars
  <2>2. calls'[p] # None /\ calls'[p].pc = "unseen" /\ calls'[p].tx = calls[p].tx
    BY <1>1, <2>1, GotoCall DEF RestorePC
  <2> QED
    BY <1>1, <2>1, <2>2 DEF CallReverses, RestorePC
<1>4. ASSUME NEW t \in Targets, NEW c \in FileState, Edit(t, c)
      PROVE  CallReverses(p)'
  <2>1. /\ UNCHANGED <<journals, calls>>
        /\ \A u \in Targets \ {t} : files'[u] = files[u]
        /\ ~Inside(p, t)
    BY <1>1, <1>4 DEF Edit, TypeOK
  <2>2. calls[p] # None => calls[p].target \in Targets
    BY <1>1 DEF TypeOK, Call
  <2> QED
    BY <1>1, <2>1, <2>2 DEF CallReverses, Inside, ResultPC, RestorePC
<1>5. CASE (\E x \in Txs : DamageBackup(x)) \/ UNCHANGED vars
  BY <1>1, <1>5 DEF DamageBackup, vars, CallReverses
<1> QED
  BY <1>2, <1>3, <1>4, <1>5, <1>6

LEMMA ReverseInvStep ==
    ASSUME OneProcess, ~RacingEdits, ReverseInv, [Next]_vars
    PROVE  ReverseInv'
<1>1. FileInv'
  BY FileInvStep DEF ReverseInv
<1>2. ASSUME NEW p \in Procs PROVE CallReverses(p)'
  BY StartReverses, StepReverses, EnvironmentReverses
     DEF OneProcess, Next, Environment
<1> QED
  BY <1>1, <1>2 DEF ReverseInv

\* Only p's call counts; it can read its target before the step and after it.
LEMMA UnseenStays ==
    ASSUME OneProcess, NEW p \in Procs, calls'[p] = None \/ calls'[p].pc # "unseen",
           calls[p] = None \/ calls[p].pc # "unseen"
    PROVE  UNCHANGED Unseen
BY DEF OneProcess, Unseen

\* A step of a call is a step of the reversible replacement, or none.
LEMMA StepMaps ==
    ASSUME OneProcess, ReverseInv, NEW p \in Procs, Step(p)
    PROVE  Reversible!Next \/ UNCHANGED <<files, journals, edits, Unseen>>
<1> DEFINE x == calls[p].tx
           t == calls[p].target
<1>0. TypeOK
  BY DEF ReverseInv, FileInv
<1>7. CASE SaveRolledBack(p) /\ calls[p].pc = "unseen"
  <2>1. /\ UNCHANGED <<files, edits>> /\ Goto(p, "done")
        /\ journals' = [journals EXCEPT ![x] = JournalOf(p, "rolled-back")]
    BY <1>7 DEF SaveRolledBack, envVars
  <2>2. Journaled(p) /\ journals[x].status # "rolled-back"
    BY <1>7, StepFinds DEF CallReverses, Journaling, RestorePC
  <2>3. journals' = [journals EXCEPT ![x].status = "rolled-back"]
    BY <1>0, <2>1, <2>2, JournalMarked
  <2>4. calls'[p].pc = "done"
    BY <2>1, StepFinds DEF ResultPC
  <2>5. x \in Unseen /\ Unseen' = Unseen \ {x}
    BY <1>7, <2>2, <2>4, StepFinds DEF OneProcess, Unseen, Journaled
  <2>6. Reversible!Abandon(x)
    BY <2>1, <2>2, <2>3, <2>5 DEF Journaled, Reversible!Abandon, Reversible!Opened,
                                  Reversible!Closed, Reversible!Mark
  <2> QED
    BY <2>2, <2>6 DEF Reversible!Next, Journaled
<1>8. SUFFICES ASSUME ~(SaveRolledBack(p) /\ calls[p].pc = "unseen")
      PROVE  Reversible!Next \/ UNCHANGED <<files, journals, edits, Unseen>>
  BY <1>7
<1>9. UNCHANGED Unseen
  <2>1. /\ calls[p].pc # "unseen"
        /\ \E pc \in (ApplyPC \union RestorePC \union ResultPC) \ {"unseen"} : Goto(p, pc)
    BY <1>8 DEF Step, ApplyBackup, ApplyPrepare, ApplyPersist, ApplyCommit, RecoverClassify,
           Disposition, RestoreBefore, SaveRolledBack, At, ApplyPC, RestorePC, ResultPC
  <2>2. PICK pc \in (ApplyPC \union RestorePC \union ResultPC) \ {"unseen"} : Goto(p, pc)
    BY <2>1
  <2>3. calls'[p].pc = pc
    BY <2>2, StepFinds
  <2> QED
    BY <2>1, <2>2, <2>3, UnseenStays
<1>1. CASE ApplyBackup(p) \/ RecoverClassify(p)
  BY <1>1, <1>9 DEF ApplyBackup, RecoverClassify, fileVars, envVars
<1>2. CASE ApplyPrepare(p)
  <2>1. /\ calls[p].pc = "backed" /\ UNCHANGED <<files, edits>>
        /\ journals' = [journals EXCEPT ![x] = JournalOf(p, "prepared")]
    BY <1>2 DEF ApplyPrepare, At, envVars
  <2>2. x \in Txs /\ journals[x] = None /\ t \in Targets /\ calls[p].after \in PlanBytes
        /\ files[t] = calls[p].before
    BY <2>1, StepFinds DEF CallReverses, Call
  <2>3. Reversible!Open(x, t, calls[p].after)
    BY <1>9, <2>1, <2>2 DEF Reversible!Open, Reversible!Opened, JournalOf
  <2> QED
    BY <2>2, <2>3 DEF Reversible!Next
<1>3. CASE ApplyPersist(p)
  <2>1. /\ calls[p].pc = "prepared" /\ UNCHANGED <<journals, edits>>
        /\ files' = [files EXCEPT ![t] = calls[p].after]
    BY <1>3 DEF ApplyPersist, At, envVars
  <2>2. Journaled(p) /\ journals[x].status = "prepared" /\ files[t] = calls[p].before
    BY <2>1, StepFinds DEF CallReverses, Journaling
  <2>3. Reversible!Install(x)
    BY <1>9, <2>1, <2>2 DEF Journaled, Reversible!Install, Reversible!Opened, Reversible!Holds,
                      Reversible!Put
  <2> QED
    BY <2>2, <2>3 DEF Reversible!Next, Journaled
<1>4. CASE ApplyCommit(p)
  <2>1. /\ calls[p].pc = "persisted" /\ UNCHANGED <<files, edits>>
        /\ journals' = [journals EXCEPT ![x] = JournalOf(p, "committed")]
    BY <1>4 DEF ApplyCommit, At, envVars
  <2>2. Journaled(p) /\ journals[x].status = "prepared" /\ files[t] = calls[p].after
    BY <2>1, StepFinds DEF CallReverses, Journaling
  <2>3. journals' = [journals EXCEPT ![x].status = "committed"]
    BY <1>0, <2>1, <2>2, JournalMarked
  <2>4. Reversible!Settle(x)
    BY <1>9, <2>1, <2>2, <2>3 DEF Journaled, Reversible!Settle, Reversible!Opened,
                            Reversible!Holds, Reversible!Mark
  <2> QED
    BY <2>2, <2>4 DEF Reversible!Next, Journaled
<1>5. CASE RestoreBefore(p)
  <2>1. /\ calls[p].pc = "checked" /\ UNCHANGED <<journals, edits>>
        /\ files' = [files EXCEPT ![t] = calls[p].before] \/ UNCHANGED files
    BY <1>5 DEF RestoreBefore, BackupVerifies, BeforeBytes, envVars
  <2>2. Journaled(p) /\ journals[x].status # "rolled-back" /\ files[t] = calls[p].after
    BY <2>1, StepFinds DEF CallReverses, Journaling, RestorePC
  <2>3. Reversible!Restore(x) \/ UNCHANGED files
    BY <1>9, <2>1, <2>2 DEF Journaled, Reversible!Restore, Reversible!Opened, Reversible!Closed,
                      Reversible!Holds, Reversible!Put
  <2> QED
    BY <1>9, <2>1, <2>2, <2>3 DEF Reversible!Next, Journaled
<1>6. CASE SaveRolledBack(p)
  <2>1. /\ calls[p].pc = "restored" /\ UNCHANGED <<files, edits>>
        /\ journals' = [journals EXCEPT ![x] = JournalOf(p, "rolled-back")]
    BY <1>6, <1>8 DEF SaveRolledBack, envVars
  <2>2. Journaled(p) /\ journals[x].status # "rolled-back" /\ files[t] = calls[p].before
    BY <2>1, StepFinds DEF CallReverses, Journaling, RestorePC
  <2>3. journals' = [journals EXCEPT ![x].status = "rolled-back"]
    BY <1>0, <2>1, <2>2, JournalMarked
  <2>4. Reversible!Close(x)
    BY <1>9, <2>1, <2>2, <2>3 DEF Journaled, Reversible!Close, Reversible!Opened,
                            Reversible!Closed, Reversible!Holds, Reversible!Mark
  <2> QED
    BY <2>2, <2>4 DEF Reversible!Next, Journaled
<1> QED
  BY <1>1, <1>2, <1>3, <1>4, <1>5, <1>6 DEF Step

\* Ending a call, however it stands, ends its transaction's stay in Unseen.
LEMMA EndMaps ==
    ASSUME OneProcess, ReverseInv, NEW p \in Procs, Return(p) \/ IoError(p) \/ Crash(p)
    PROVE  [Reversible!Next]_<<files, journals, edits, Unseen>>
<1> DEFINE x == calls[p].tx
<1>1. /\ TypeOK /\ calls[p] # None /\ CallOK(p) /\ UNCHANGED <<files, journals, edits>>
      /\ calls' = [calls EXCEPT ![p] = None] \/ Goto(p, "err")
  BY DEF ReverseInv, FileInv, Return, IoError, Crash, Idle, fileVars, envVars
<1>2. calls'[p] = None \/ calls'[p].pc = "err"
  BY <1>1, GotoCall DEF TypeOK, ResultPC
<1>3. CASE calls[p].pc # "unseen"
  BY <1>1, <1>2, <1>3, UnseenStays
<1>4. CASE calls[p].pc = "unseen"
  <2>1. x \in Txs /\ Unseen' = Unseen \ {x}
    BY <1>1, <1>2, <1>4 DEF OneProcess, Unseen, CallOK, Journaled, Journaling, RestorePC
  <2>2. Reversible!LookAgain(x)
    BY <1>1, <2>1 DEF Reversible!LookAgain
  <2> QED
    BY <2>1, <2>2 DEF Reversible!Next
<1> QED
  BY <1>3, <1>4

\* A target that cannot be read is a miss of a transaction that found none.
LEMMA UnseenMaps ==
    ASSUME OneProcess, ReverseInv, NEW p \in Procs, TargetUnseen(p)
    PROVE  Reversible!Next
<1> DEFINE x == calls[p].tx
<1>1. /\ TypeOK /\ calls[p] # None /\ CallOK(p) /\ CallReverses(p)
      /\ UNCHANGED <<files, journals, edits>> /\ Goto(p, "unseen")
      /\ calls[p].pc \in {"loaded", "checked"} /\ calls[p].before = None
  BY DEF ReverseInv, FileInv, TargetUnseen, fileVars
<1>2. /\ x \in Txs /\ journals[x] # None /\ journals[x].before = None
      /\ journals[x].status # "rolled-back"
  BY <1>1 DEF CallOK, CallReverses, Journaled, Journaling, RestorePC
<1>3. calls'[p] # None /\ calls'[p].pc = "unseen" /\ calls'[p].tx = x
  BY <1>1, GotoCall DEF RestorePC
<1>4. Unseen' = Unseen \union {x}
  BY <1>1, <1>2, <1>3 DEF OneProcess, Unseen
<1>5. Reversible!Miss(x)
  BY <1>1, <1>2, <1>4 DEF Reversible!Miss, Reversible!Opened, Reversible!Closed
<1> QED
  BY <1>2, <1>5 DEF Reversible!Next

LEMMA StartMaps ==
    ASSUME OneProcess, ReverseInv, NEW p \in Procs, Start(p)
    PROVE  UNCHANGED <<files, journals, edits, Unseen>>
<1>1. TypeOK /\ calls[p] = None /\ UNCHANGED <<files, journals, edits>>
  BY DEF ReverseInv, FileInv, Start, ApplyRead, ApplyStale, UndoCheck, RecoverLoad, Idle,
         fileVars, envVars
<1>2. calls'[p].pc # "unseen"
  BY <1>1 DEF TypeOK, Start, ApplyRead, ApplyStale, UndoCheck, RecoverLoad, Loaded
<1> QED
  BY <1>1, <1>2, UnseenStays

LEMMA NextMaps ==
    ASSUME OneProcess, ReverseInv, [Next]_vars
    PROVE  [Reversible!Next]_<<files, journals, edits, Unseen>>
<1>2. ASSUME NEW t \in Targets, NEW c \in FileState, Edit(t, c)
      PROVE  Reversible!Next
  <2>1. Reversible!UserEdit(t, c)
    BY <1>2 DEF Edit, Reversible!UserEdit, Unseen
  <2> QED
    BY <2>1 DEF Reversible!Next
<1>3. (\E x \in Txs : DamageBackup(x)) \/ UNCHANGED vars
        => UNCHANGED <<files, journals, edits, Unseen>>
  BY DEF DamageBackup, vars, Unseen
<1> QED
  BY <1>2, <1>3, StepMaps, StartMaps, EndMaps, UnseenMaps DEF Next, Environment

\* One process at a time and edits that do not race its calls: wherever errors
\* and crashes stop it, every step on the files is one of the reversible
\* replacement.  A journal closed over the new bytes is one of those steps only
\* where it created a target that could not be read.
THEOREM FilesReversible ==
    ASSUME OneProcess, ~RacingEdits PROVE Spec => Implements
<1>1. Init => ReverseInv
  BY FileInvInit DEF ReverseInv, CallReverses, Init
<1>2. Init => Reversible!Init
  BY DEF Init, Reversible!Init, FileState, Contents, Unseen
<1>3. ReverseInv /\ [Next]_vars => ReverseInv'
  BY ReverseInvStep
<1>4. ReverseInv /\ [Next]_vars => [Reversible!Next]_<<files, journals, edits, Unseen>>
  BY NextMaps
<1> QED
  BY <1>1, <1>2, <1>3, <1>4, PTL DEF Spec, Implements, Reversible!Spec
=============================================================================

------------------------------- MODULE Ledger -------------------------------
(***************************************************************************)
(* The SQLite ledger of mnemo-store: operations, the transactions recorded *)
(* under them, the ownership change each transaction made and the current  *)
(* owner of every managed target.  One SQL transaction is one action.      *)
(* A content hash stands for the content; labels, locators of backups and  *)
(* clock readings are left out.                                            *)
(***************************************************************************)
EXTENDS FiniteSets

CONSTANTS
    Ops,        \* operation ids (fresh UUIDs)
    Txs,        \* file transaction ids (fresh UUIDs)
    Targets,    \* target locators
    Hashes,     \* hashes of the bytes a plan may install
    None        \* SQL NULL, and a row that does not exist

Owner == [owner: Ops, hash: Hashes]

Change == [op: Ops, target: Targets, before: Owner \union {None}, after: Owner]

TransactionStatus == {"committed", "rolled-back"}

ASSUME NoneIsNoRow ==
    None \notin Owner /\ None \notin Change /\ None \notin TransactionStatus

VARIABLES
    operations,     \* status of every operation row
    transactions,   \* status of every transaction row
    changes,        \* the managed_object_changes row of every transaction
    managed         \* the managed_objects row of every target

ledgerVars == <<operations, transactions, changes, managed>>

OperationStatus == {"running", "succeeded", "failed", "rolled-back"}

TypeOK ==
    /\ operations \in [Ops -> OperationStatus \union {None}]
    /\ transactions \in [Txs -> TransactionStatus \union {None}]
    /\ changes \in [Txs -> Change \union {None}]
    /\ managed \in [Targets -> Owner \union {None}]

Init ==
    /\ operations = [o \in Ops |-> None]
    /\ transactions = [x \in Txs |-> None]
    /\ changes = [x \in Txs |-> None]
    /\ managed = [t \in Targets |-> None]

-----------------------------------------------------------------------------
HasTransaction(x) == transactions[x] # None

\* The transactions an operation has recorded.
TransactionsOf(o) == {x \in Txs : changes[x] # None /\ changes[x].op = o}

Live(x) == transactions[x] = "committed"

\* Mutant of SetStatus: the row keeps the status the journal started with.
SetStatusPrepared(x, status) ==
    transactions' = [transactions EXCEPT ![x] = "prepared"]

SetStatus(x, status) == transactions' = [transactions EXCEPT ![x] = status]

\* Mutant of Upsert: INSERT OR IGNORE, an owned target keeps its owner.
InsertOrIgnore(t, owner) ==
    managed' = [managed EXCEPT ![t] = IF @ = None THEN owner ELSE @]

Upsert(t, owner) == managed' = [managed EXCEPT ![t] = owner]

BeginOperation(o) ==
    /\ operations[o] = None
    /\ operations' = [operations EXCEPT ![o] = "running"]
    /\ UNCHANGED <<transactions, changes, managed>>

FinishOperation(o, status) ==
    /\ operations[o] # None
    /\ operations' = [operations EXCEPT ![o] = status]
    /\ UNCHANGED <<transactions, changes, managed>>

(***************************************************************************)
(* The row is inserted with the journal's status, which is always          *)
(* committed: only a journal that apply_file returned is recorded.  An     *)
(* operation writes a target once, because the planner maps every target   *)
(* to one prepared file.                                                   *)
(***************************************************************************)
RecordTransactionWithManagedObject(o, x, t, h) ==
    /\ operations[o] # None
    /\ transactions[x] = None
    /\ \A y \in TransactionsOf(o) : changes[y].target # t
    /\ LET after == [owner |-> o, hash |-> h]
       IN  /\ changes' = [changes EXCEPT ![x] =
                [op |-> o, target |-> t, before |-> managed[t], after |-> after]]
           /\ Upsert(t, after)
    /\ SetStatus(x, "committed")
    /\ UNCHANGED operations

\* Mutant of StillOwns: whoever owns the target now loses it.
AnyOneOwns(x) == managed[changes[x].target] # None

\* The ownership the rollback is about to reverse is still the current one.
StillOwns(x) == managed[changes[x].target] = changes[x].after

\* Mutant of RestoreOwner: only the transaction's status is updated.
KeepOwner(x) == UNCHANGED managed

\* The previous owner's row is put back; without one the row is deleted.
RestoreOwner(x) ==
    managed' = [managed EXCEPT ![changes[x].target] = changes[x].before]

RollbackTransactionAndManagedObject(x) ==
    /\ HasTransaction(x)
    /\ StillOwns(x)
    /\ RestoreOwner(x)
    /\ SetStatus(x, "rolled-back")
    /\ UNCHANGED <<operations, changes>>

RemoveManagedObject(t) ==
    /\ managed[t] # None
    /\ managed' = [managed EXCEPT ![t] = None]
    /\ UNCHANGED <<operations, transactions, changes>>

Next ==
    \/ \E o \in Ops : BeginOperation(o)
    \/ \E o \in Ops, status \in OperationStatus \ {"running"} :
            FinishOperation(o, status)
    \/ \E o \in Ops, x \in Txs, t \in Targets, h \in Hashes :
            RecordTransactionWithManagedObject(o, x, t, h)
    \/ \E x \in Txs : RollbackTransactionAndManagedObject(x)
    \/ \E t \in Targets : RemoveManagedObject(t)

Spec == Init /\ [][Next]_ledgerVars

-----------------------------------------------------------------------------
\* Transaction x installed the ownership record r of target t and stands.
Installed(x, t, r) ==
    Live(x) /\ changes[x].target = t /\ changes[x].after = r

(***************************************************************************)
(* Every managed object was installed by a transaction that has not been   *)
(* rolled back: no order of records, rollbacks and removals leaves a       *)
(* target owned by an undone migration.                                    *)
(***************************************************************************)
OwnerStands ==
    \A t \in Targets :
        managed[t] # None => \E x \in Txs : Installed(x, t, managed[t])

(***************************************************************************)
(* The owner a standing transaction replaced is itself a standing          *)
(* transaction's: whenever the change can be reversed, what it restores    *)
(* was never undone meanwhile.                                             *)
(***************************************************************************)
PredecessorStands ==
    \A x \in Txs :
        Live(x) /\ changes[x].before # None =>
            \E y \in Txs : Installed(y, changes[x].target, changes[x].before)

(***************************************************************************)
(* Ownership is a chain: no two standing transactions replaced the same    *)
(* owner, and the current owner has been replaced by none.  Rolling back   *)
(* in any order cannot hand one owner's target out twice.                  *)
(***************************************************************************)
SameReplaced(x, y) ==
    /\ changes[x].before # None
    /\ changes[x].target = changes[y].target
    /\ changes[x].before = changes[y].before

OwnershipIsAChain ==
    \A x \in Txs : Live(x) =>
        /\ \A y \in Txs : Live(y) /\ SameReplaced(x, y) => x = y
        /\ managed[changes[x].target] # None =>
               changes[x].before # managed[changes[x].target]

-----------------------------------------------------------------------------
(***************************************************************************)
(* What makes the three properties above inductive: a row and its change   *)
(* are written together, the new owner is the recording operation, the     *)
(* replaced owner is another operation, and an operation has at most one   *)
(* transaction per target.                                                 *)
(***************************************************************************)
RowsAreWhole ==
    \A x \in Txs :
        /\ HasTransaction(x) <=> changes[x] # None
        /\ HasTransaction(x) =>
              /\ changes[x].after.owner = changes[x].op
              /\ changes[x].before # None =>
                     changes[x].before.owner # changes[x].op

OneTransactionPerTarget ==
    \A x, y \in Txs :
        /\ HasTransaction(x) /\ HasTransaction(y)
        /\ changes[x].op = changes[y].op
        /\ changes[x].target = changes[y].target
        => x = y

LedgerInv ==
    /\ TypeOK
    /\ RowsAreWhole
    /\ OneTransactionPerTarget
    /\ OwnerStands
    /\ PredecessorStands
    /\ OwnershipIsAChain
=============================================================================

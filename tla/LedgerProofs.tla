---------------------------- MODULE LedgerProofs ----------------------------
(***************************************************************************)
(* LedgerInv is inductive, for any number of operations, transactions and  *)
(* targets.                                                                *)
(***************************************************************************)
EXTENDS Ledger, TLAPS

LEMMA LedgerInvInit == Init => LedgerInv
<1> SUFFICES ASSUME Init PROVE LedgerInv
  OBVIOUS
<1> USE DEF Init
<1>1. TypeOK
  BY DEF TypeOK
<1>2. \A x \in Txs : ~HasTransaction(x) /\ ~Live(x) /\ changes[x] = None
  BY NoneIsNoRow DEF HasTransaction, Live, TransactionStatus
<1>3. RowsAreWhole /\ OneTransactionPerTarget
  BY <1>2 DEF RowsAreWhole, OneTransactionPerTarget
<1>4. OwnerStands /\ PredecessorStands /\ OwnershipIsAChain
  BY <1>2 DEF OwnerStands, PredecessorStands, OwnershipIsAChain
<1> QED
  BY <1>1, <1>3, <1>4 DEF LedgerInv

\* An action that leaves the three ledger tables alone preserves LedgerInv.
LEMMA OperationsOnly ==
    ASSUME LedgerInv, UNCHANGED <<transactions, changes, managed>>, TypeOK'
    PROVE  LedgerInv'
BY DEF LedgerInv, RowsAreWhole, OneTransactionPerTarget, OwnerStands,
       PredecessorStands, OwnershipIsAChain, SameReplaced, Installed, Live,
       HasTransaction

LEMMA RecordPreservesInv ==
    ASSUME LedgerInv, NEW o \in Ops, NEW x \in Txs, NEW t \in Targets,
           NEW h \in Hashes, RecordTransactionWithManagedObject(o, x, t, h)
    PROVE  LedgerInv'
<1> DEFINE after == [owner |-> o, hash |-> h]
           row == [op |-> o, target |-> t, before |-> managed[t], after |-> after]
<1> USE DEF LedgerInv
<1>1. TypeOK /\ after \in Owner /\ row \in Change
  BY DEF TypeOK, Owner, Change
<1>2. /\ transactions' = [transactions EXCEPT ![x] = "committed"]
      /\ changes' = [changes EXCEPT ![x] = row]
      /\ managed' = [managed EXCEPT ![t] = after]
      /\ transactions[x] = None
      /\ \A y \in Txs : changes[y] # None /\ changes[y].op = o =>
                            changes[y].target # t
      /\ UNCHANGED operations
  BY DEF RecordTransactionWithManagedObject, TransactionsOf, Upsert, SetStatus
<1> HIDE DEF after, row
<1>3. /\ changes'[x] = row /\ transactions'[x] = "committed"
      /\ managed'[t] = after
      /\ \A y \in Txs \ {x} :
            changes'[y] = changes[y] /\ transactions'[y] = transactions[y]
      /\ \A u \in Targets \ {t} : managed'[u] = managed[u]
  BY <1>1, <1>2 DEF TypeOK
<1>4. /\ row.op = o /\ row.target = t /\ row.before = managed[t]
      /\ row.after = after /\ after.owner = o
      /\ row # None /\ after # None
  BY <1>1, NoneIsNoRow DEF row, after
<1>5. TypeOK'
  BY <1>1, <1>2 DEF TypeOK, TransactionStatus
<1>6. ASSUME NEW y \in Txs, Live(y)
      PROVE  y # x /\ changes[y] \in Change /\ HasTransaction(y)
  <2>1. HasTransaction(y) /\ y # x
    BY <1>2, <1>6, NoneIsNoRow DEF Live, HasTransaction, TransactionStatus
  <2> QED
    BY <2>1, <1>1 DEF RowsAreWhole, TypeOK
<1>7. ASSUME NEW u \in Targets, managed[u] # None
      PROVE  \E y \in Txs : y # x /\ Installed(y, u, managed[u])
  BY <1>6, <1>7 DEF OwnerStands, Installed
\* The owner that is replaced is another operation's.
<1>8. managed[t] # None => managed[t].owner # o
  <2> SUFFICES ASSUME managed[t] # None PROVE managed[t].owner # o
    OBVIOUS
  <2>1. PICK y \in Txs : Installed(y, t, managed[t])
    BY <1>7
  <2>2. /\ Live(y) /\ changes[y].target = t /\ changes[y].after = managed[t]
        /\ changes[y] # None /\ changes[y].after.owner = changes[y].op
    BY <2>1, <1>6 DEF Installed, RowsAreWhole
  <2> QED
    BY <2>2, <1>2
\* What another transaction replaced on t is not the new owner either.
<1>9. ASSUME NEW y \in Txs, Live(y), changes[y].target = t,
             changes[y].before # None
      PROVE  changes[y].before # after
  <2>1. PICK z \in Txs : Installed(z, t, changes[y].before)
    BY <1>9 DEF PredecessorStands
  <2>2. /\ changes[z].target = t /\ changes[z].after = changes[y].before
        /\ changes[z] # None /\ changes[z].after.owner = changes[z].op
    BY <2>1, <1>6 DEF Installed, RowsAreWhole
  <2> QED
    BY <2>2, <1>2, <1>4
<1>10. RowsAreWhole'
  BY <1>3, <1>4, <1>8, NoneIsNoRow
     DEF RowsAreWhole, HasTransaction, TransactionStatus
<1>11. OneTransactionPerTarget'
  BY <1>1, <1>2, <1>3, <1>4 DEF OneTransactionPerTarget, HasTransaction, RowsAreWhole
<1>12. OwnerStands'
  BY <1>3, <1>4, <1>7 DEF OwnerStands, Installed, Live
<1>13. PredecessorStands'
  <2> SUFFICES ASSUME NEW y \in Txs, Live(y)', changes'[y].before # None
               PROVE  \E z \in Txs : Installed(z, changes[y].target, changes[y].before)'
    BY DEF PredecessorStands
  <2>1. CASE y = x
    BY <2>1, <1>3, <1>4, <1>7 DEF Installed, Live
  <2>2. CASE y # x
    <3>1. Live(y) /\ changes[y].before # None
      BY <2>2, <1>3 DEF Live
    <3>2. PICK z \in Txs : Installed(z, changes[y].target, changes[y].before)
      BY <3>1 DEF PredecessorStands
    <3>3. z # x
      BY <3>2, <1>6 DEF Installed
    <3> QED
      BY <2>2, <3>2, <3>3, <1>3 DEF Installed, Live
  <2> QED
    BY <2>1, <2>2
<1>14. OwnershipIsAChain'
  <2> SUFFICES ASSUME NEW y \in Txs, Live(y)'
               PROVE  /\ \A z \in Txs : Live(z)' /\ SameReplaced(y, z)' => y = z
                      /\ managed'[changes'[y].target] # None =>
                            changes'[y].before # managed'[changes'[y].target]
    BY DEF OwnershipIsAChain
  <2>1. ASSUME NEW z \in Txs \ {x}, Live(z)', changes'[z].target = t
        PROVE  /\ Live(z) /\ changes'[z] = changes[z]
               /\ managed[t] # None => changes[z].before # managed[t]
    <3>1. Live(z) /\ changes'[z] = changes[z]
      BY <2>1, <1>3 DEF Live
    <3> QED
      BY <3>1, <2>1 DEF OwnershipIsAChain
  <2>2. CASE y = x
    <3>1. managed[t] # None => managed[t] # after
      BY <1>8, <1>4
    <3> QED
      BY <2>1, <2>2, <3>1, <1>3, <1>4 DEF SameReplaced
  <2>3. CASE y # x
    <3>1. Live(y) /\ changes'[y] = changes[y] /\ changes[y] \in Change
      BY <2>3, <1>3, <1>6 DEF Live
    <3>2. ASSUME NEW z \in Txs, Live(z)', SameReplaced(y, z)'
          PROVE  y = z
      <4>1. CASE z = x
        BY <4>1, <3>2, <2>1, <2>3, <1>3, <1>4 DEF SameReplaced
      <4>2. CASE z # x
        <5>1. Live(z) /\ SameReplaced(y, z)
          BY <4>2, <3>2, <3>1, <1>3 DEF SameReplaced, Live
        <5> QED
          BY <5>1, <3>1 DEF OwnershipIsAChain
      <4> QED
        BY <4>1, <4>2
    <3>3. ASSUME managed'[changes'[y].target] # None
          PROVE  changes'[y].before # managed'[changes'[y].target]
      <4>1. CASE changes[y].target = t
        BY <4>1, <3>1, <3>3, <1>9, <1>3
      <4>2. CASE changes[y].target # t
        BY <4>2, <3>1, <3>3, <1>3 DEF OwnershipIsAChain, Change
      <4> QED
        BY <4>1, <4>2
    <3> QED
      BY <3>2, <3>3
  <2> QED
    BY <2>2, <2>3
<1> QED
  BY <1>5, <1>10, <1>11, <1>12, <1>13, <1>14

LEMMA RollbackPreservesInv ==
    ASSUME LedgerInv, NEW x \in Txs, RollbackTransactionAndManagedObject(x)
    PROVE  LedgerInv'
<1> DEFINE t == changes[x].target
<1> USE DEF LedgerInv
<1>1. /\ HasTransaction(x) /\ managed[t] = changes[x].after
      /\ managed' = [managed EXCEPT ![t] = changes[x].before]
      /\ transactions' = [transactions EXCEPT ![x] = "rolled-back"]
      /\ UNCHANGED <<operations, changes>>
  BY DEF RollbackTransactionAndManagedObject, StillOwns, RestoreOwner, SetStatus
<1>2. /\ changes[x] \in Change /\ t \in Targets
      /\ changes[x].after # None /\ changes[x].after.owner = changes[x].op
      /\ changes[x].before # None => changes[x].before.owner # changes[x].op
  BY <1>1, NoneIsNoRow DEF TypeOK, RowsAreWhole, Change
<1> HIDE DEF t
<1>3. /\ managed'[t] = changes[x].before
      /\ \A u \in Targets \ {t} : managed'[u] = managed[u]
      /\ transactions'[x] = "rolled-back"
      /\ \A y \in Txs \ {x} : transactions'[y] = transactions[y]
  BY <1>1, <1>2 DEF TypeOK
<1>4. \A y \in Txs : Live(y)' <=> Live(y) /\ y # x
  BY <1>3 DEF Live
<1>5. TypeOK'
  BY <1>1, <1>2 DEF TypeOK, Change, TransactionStatus
<1>6. ASSUME NEW y \in Txs, Live(y)
      PROVE  HasTransaction(y) /\ changes[y] \in Change
             /\ changes[y].after.owner = changes[y].op
  <2>1. HasTransaction(y)
    BY <1>6, NoneIsNoRow DEF Live, HasTransaction, TransactionStatus
  <2> QED
    BY <2>1 DEF RowsAreWhole, TypeOK
\* A transaction that still owns its target has not been rolled back before.
<1>7. Live(x)
  <2>1. PICK y \in Txs : Installed(y, t, changes[x].after)
    BY <1>1, <1>2 DEF OwnerStands
  <2>2. y = x
    BY <2>1, <1>1, <1>2, <1>6 DEF Installed, OneTransactionPerTarget, t
  <2> QED
    BY <2>1, <2>2 DEF Installed
<1>8. RowsAreWhole' /\ OneTransactionPerTarget'
  BY <1>1, <1>3, NoneIsNoRow
     DEF RowsAreWhole, OneTransactionPerTarget, HasTransaction, TransactionStatus
<1>9. OwnerStands'
  <2> SUFFICES ASSUME NEW u \in Targets, managed'[u] # None
               PROVE  \E y \in Txs : Installed(y, u, managed[u])'
    BY DEF OwnerStands
  <2>1. CASE u = t
    <3>1. PICK y \in Txs : Installed(y, t, changes[x].before)
      BY <2>1, <1>3, <1>7 DEF PredecessorStands, t
    <3>2. y # x
      BY <3>1, <1>2, <2>1, <1>3 DEF Installed
    <3> QED
      BY <3>1, <3>2, <2>1, <1>1, <1>3, <1>4 DEF Installed
  <2>2. CASE u # t
    <3>1. PICK y \in Txs : Installed(y, u, managed[u])
      BY <2>2, <1>3 DEF OwnerStands
    <3>2. y # x
      BY <3>1, <2>2 DEF Installed, t
    <3> QED
      BY <3>1, <3>2, <2>2, <1>1, <1>3, <1>4 DEF Installed
  <2> QED
    BY <2>1, <2>2
<1>10. PredecessorStands'
  <2> SUFFICES ASSUME NEW z \in Txs, Live(z)', changes[z].before # None
               PROVE  \E y \in Txs : Installed(y, changes[z].target, changes[z].before)'
    BY <1>1 DEF PredecessorStands
  <2>1. Live(z) /\ z # x
    BY <1>4
  <2>2. PICK y \in Txs : Installed(y, changes[z].target, changes[z].before)
    BY <2>1 DEF PredecessorStands
  <2>3. y # x
    BY <2>1, <2>2, <1>1, <1>2 DEF OwnershipIsAChain, Installed, t
  <2> QED
    BY <2>2, <2>3, <1>1, <1>4 DEF Installed
<1>11. OwnershipIsAChain'
  <2> SUFFICES ASSUME NEW z \in Txs, Live(z)'
               PROVE  /\ \A y \in Txs : Live(y)' /\ SameReplaced(z, y)' => z = y
                      /\ managed'[changes[z].target] # None =>
                            changes[z].before # managed'[changes[z].target]
    BY <1>1 DEF OwnershipIsAChain
  <2>1. Live(z) /\ z # x /\ changes[z] \in Change
    BY <1>4, <1>6
  <2>2. \A y \in Txs : Live(y)' /\ SameReplaced(z, y)' => z = y
    BY <2>1, <1>1, <1>4 DEF OwnershipIsAChain, SameReplaced
  <2>3. ASSUME managed'[changes[z].target] # None
        PROVE  changes[z].before # managed'[changes[z].target]
    <3>1. CASE changes[z].target = t
      BY <3>1, <2>1, <2>3, <1>3, <1>7 DEF OwnershipIsAChain, SameReplaced, t
    <3>2. CASE changes[z].target # t
      BY <3>2, <2>1, <2>3, <1>3 DEF OwnershipIsAChain, Change
    <3> QED
      BY <3>1, <3>2
  <2> QED
    BY <2>2, <2>3
<1> QED
  BY <1>5, <1>8, <1>9, <1>10, <1>11

LEMMA RemovePreservesInv ==
    ASSUME LedgerInv, NEW t \in Targets, RemoveManagedObject(t)
    PROVE  LedgerInv'
<1> USE DEF LedgerInv
<1>1. /\ managed'[t] = None
      /\ \A u \in Targets \ {t} : managed'[u] = managed[u]
      /\ UNCHANGED <<operations, transactions, changes>>
      /\ TypeOK'
  BY DEF RemoveManagedObject, TypeOK
<1>2. RowsAreWhole' /\ OneTransactionPerTarget' /\ PredecessorStands'
  BY <1>1 DEF RowsAreWhole, OneTransactionPerTarget, PredecessorStands,
              HasTransaction, Installed, Live
<1>3. OwnerStands'
  BY <1>1 DEF OwnerStands, Installed, Live
<1>4. OwnershipIsAChain'
  <2>1. \A x \in Txs : Live(x) => changes[x].target \in Targets
    BY NoneIsNoRow DEF Live, TypeOK, RowsAreWhole, HasTransaction, Change,
                       TransactionStatus
  <2> QED
    BY <1>1, <2>1 DEF OwnershipIsAChain, SameReplaced, Live
<1> QED
  BY <1>1, <1>2, <1>3, <1>4

LEMMA LedgerInvStep == LedgerInv /\ [Next]_ledgerVars => LedgerInv'
<1> SUFFICES ASSUME LedgerInv, [Next]_ledgerVars PROVE LedgerInv'
  OBVIOUS
<1>1. ASSUME NEW o \in Ops, BeginOperation(o) PROVE LedgerInv'
  BY <1>1, OperationsOnly DEF BeginOperation, LedgerInv, TypeOK, OperationStatus
<1>2. ASSUME NEW o \in Ops, NEW status \in OperationStatus, FinishOperation(o, status)
      PROVE  LedgerInv'
  BY <1>2, OperationsOnly DEF FinishOperation, LedgerInv, TypeOK
<1>3. CASE UNCHANGED ledgerVars
  BY <1>3, OperationsOnly DEF ledgerVars, LedgerInv, TypeOK
<1> QED
  BY <1>1, <1>2, <1>3, RecordPreservesInv, RollbackPreservesInv, RemovePreservesInv
     DEF Next

\* In every reachable ledger, whatever operations ran in whatever order, the
\* tables are well typed, every owner and every replaced owner was installed
\* by a standing transaction, and ownership is a chain.
THEOREM LedgerSafety == Spec => []LedgerInv
BY LedgerInvInit, LedgerInvStep, PTL DEF Spec

THEOREM LedgerTypes == Spec => []TypeOK
BY LedgerSafety, PTL DEF LedgerInv

\* No history leaves a target owned by a migration that was rolled back.
THEOREM OwnersStand == Spec => []OwnerStands
BY LedgerSafety, PTL DEF LedgerInv

\* What a reversal would restore was never undone meanwhile.
THEOREM PredecessorsStand == Spec => []PredecessorStands
BY LedgerSafety, PTL DEF LedgerInv

\* No two standing transactions replaced the same owner.
THEOREM ChainOfOwners == Spec => []OwnershipIsAChain
BY LedgerSafety, PTL DEF LedgerInv
=============================================================================

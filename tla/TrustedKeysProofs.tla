-------------------------- MODULE TrustedKeysProofs --------------------------
(***************************************************************************)
(* TrustedKeys for any number of commands and keys: rotations move trust   *)
(* and never multiply or lose it.                                          *)
(***************************************************************************)
EXTENDS TrustedKeys, TLAPS

\* What one command does, with the arguments it was given.
Does(p) ==
    \/ \E k \in Keys, label \in Labels : Add(p, k, label)
    \/ AddReadBack(p)
    \/ \E k \in Keys : RevokeRead(p, k)
    \/ RevokeDelete(p)
    \/ \E k, new \in Keys, label \in Labels : RotateBegin(p, k, new, label)
    \/ RotateWrite(p)
    \/ RotateCommit(p)
    \/ \E k \in Keys : ApplyOpen(p, k)
    \/ ApplyCheck(p)
    \/ ApplyWrite(p)
    \/ TimeOut(p)
    \/ Crash(p)

\* Next, command by command.
LEMMA NextCases ==
    ASSUME Next
    PROVE  LedgerCommit \/ \E p \in Procs : Does(p)
  BY DEF Next, Start, Continue, Does

LEMMA CrashesCounted ==
    ASSUME TypeOK, Next
    PROVE  crashes' \in Nat
  BY DEF Next, Crash, TypeOK

-----------------------------------------------------------------------------
(* Types *)

LEMMA DoesTypes ==
    ASSUME TypeOK, Called, NEW p \in Procs, Does(p), crashes' \in Nat
    PROVE  TypeOK'
<1> USE DEF TypeOK, Go, Return, Call, Commits, tableVars
<1>1. moved \union {q \in Procs : pc[q] = "begun"} \subseteq Procs
  OBVIOUS
<1>2. ASSUME NEW k \in Keys, NEW label \in Labels, Add(p, k, label) PROVE TypeOK'
  BY <1>1, <1>2 DEF Add, Arg
<1>3. CASE AddReadBack(p)
  BY <1>1, <1>3 DEF AddReadBack
<1>4. ASSUME NEW k \in Keys, RevokeRead(p, k) PROVE TypeOK'
  BY <1>1, <1>4 DEF RevokeRead, RowOf, Trusted, Arg, Row
<1>5. CASE RevokeDelete(p)
  BY <1>1, <1>5 DEF RevokeDelete
<1>6. ASSUME NEW k \in Keys, NEW new \in Keys, NEW label \in Labels, RotateBegin(p, k, new, label)
      PROVE  TypeOK'
  BY <1>1, <1>6 DEF RotateBegin, Replaceable, RowOf, Trusted, Arg, Row
<1>7. CASE RotateWrite(p)
  BY <1>1, <1>7 DEF RotateWrite
<1>8. CASE RotateCommit(p)
  BY <1>1, <1>8 DEF RotateCommit, Called, Row
<1>9. ASSUME NEW k \in Keys, ApplyOpen(p, k) PROVE TypeOK'
  BY <1>1, <1>9 DEF ApplyOpen, Arg
<1>10. CASE ApplyCheck(p)
  BY <1>1, <1>10 DEF ApplyCheck
<1>11. CASE ApplyWrite(p)
  BY <1>1, <1>11 DEF ApplyWrite
<1>12. CASE TimeOut(p)
  BY <1>1, <1>12 DEF TimeOut
<1>13. CASE Crash(p)
  BY <1>1, <1>13 DEF Crash
<1> QED
  BY <1>2, <1>3, <1>4, <1>5, <1>6, <1>7, <1>8, <1>9, <1>10, <1>11, <1>12, <1>13 DEF Does

LEMMA LedgerCommitTypes ==
    ASSUME TypeOK, LedgerCommit, crashes' \in Nat
    PROVE  TypeOK'
  BY DEF TypeOK, LedgerCommit, Commits, tableVars

-----------------------------------------------------------------------------
(* The lock and the arguments *)

LEMMA DoesHeld ==
    ASSUME TypeOK, Held, NEW p \in Procs, Does(p)
    PROVE  Held'
<1> USE DEF TypeOK, Held, Go, Return
<1>1. ASSUME lock' = lock, pc[p] # "written", \E l : pc' = [pc EXCEPT ![p] = l] /\ l # "written"
      PROVE  Held'
  BY <1>1
<1>2. CASE RotateWrite(p)
  BY <1>2, NoneIsApart DEF RotateWrite
<1>3. CASE RotateCommit(p)
  BY <1>3, NoneIsApart DEF RotateCommit
<1>4. CASE Crash(p)
  BY <1>4, NoneIsApart DEF Crash
<1>5. CASE \E k \in Keys, label \in Labels : Add(p, k, label)
  BY <1>1, <1>5 DEF Add
<1>6. CASE AddReadBack(p) \/ RevokeDelete(p) \/ ApplyWrite(p) \/ TimeOut(p) \/ ApplyCheck(p)
  BY <1>1, <1>6 DEF AddReadBack, RevokeDelete, ApplyWrite, TimeOut, ApplyCheck
<1>7. CASE \E k \in Keys : RevokeRead(p, k) \/ ApplyOpen(p, k)
  BY <1>1, <1>7 DEF RevokeRead, ApplyOpen
<1>8. CASE \E k, new \in Keys, label \in Labels : RotateBegin(p, k, new, label)
  BY <1>1, <1>8 DEF RotateBegin
<1> QED
  BY <1>2, <1>3, <1>4, <1>5, <1>6, <1>7, <1>8 DEF Does

LEMMA DoesCalled ==
    ASSUME TypeOK, Called, NEW p \in Procs, Does(p)
    PROVE  Called'
<1> USE DEF TypeOK, Called, Go, Return, Call
<1>1. CASE \E k \in Keys, label \in Labels : Add(p, k, label)
  BY <1>1 DEF Add, Arg
<1>2. CASE AddReadBack(p) \/ RevokeDelete(p) \/ ApplyWrite(p) \/ TimeOut(p) \/ ApplyCheck(p)
  BY <1>2 DEF AddReadBack, RevokeDelete, ApplyWrite, TimeOut, ApplyCheck
<1>3. CASE \E k \in Keys : RevokeRead(p, k) \/ ApplyOpen(p, k)
  BY <1>3 DEF RevokeRead, ApplyOpen, Arg
<1>4. CASE \E k, new \in Keys, label \in Labels : RotateBegin(p, k, new, label)
  BY <1>4 DEF RotateBegin, Replaceable, Trusted, RowOf, Row, Arg
<1>5. CASE RotateWrite(p)
  BY <1>5 DEF RotateWrite
<1>6. CASE RotateCommit(p) \/ Crash(p)
  BY <1>6 DEF RotateCommit, Crash
<1> QED
  BY <1>1, <1>2, <1>3, <1>4, <1>5, <1>6 DEF Does

-----------------------------------------------------------------------------
(* Snapshots *)

\* A commit of p leaves no snapshot of another command standing.
LEMMA CommitEndsSnapshots ==
    ASSUME TypeOK, Held, NEW p \in Procs, lock \in {None, p}, Commits,
           \A q \in Procs \ {p} : pc'[q] = pc[q], pc'[p] \notin {"begun", "written"}
    PROVE  SnapshotsStand'
  BY NoneIsApart DEF TypeOK, Held, Commits, SnapshotsStand

\* A command that leaves the table alone leaves the other snapshots alone.
LEMMA QuietSnapshots ==
    ASSUME TypeOK, SnapshotsStand, NEW p \in Procs, UNCHANGED tableVars,
           moved \ {p} \subseteq moved',
           \A q \in Procs \ {p} : pc'[q] = pc[q] /\ arg'[q] = arg[q] /\ read'[q] = read[q],
           pc'[p] \in {"begun", "written"} => SnapshotStands(p)'
    PROVE  SnapshotsStand'
<1> SUFFICES ASSUME NEW q \in Procs,
                    pc'[q] = "written" \/ (pc'[q] = "begun" /\ q \notin moved')
             PROVE  SnapshotStands(q)'
  BY DEF SnapshotsStand
<1>1. CASE q # p
  BY <1>1 DEF SnapshotsStand, SnapshotStands, Replaceable, Trusted, tableVars
<1> QED
  BY <1>1

LEMMA DoesSnapshots ==
    ASSUME TypeOK, Held, SnapshotsStand, NEW p \in Procs, Does(p)
    PROVE  SnapshotsStand'
<1> USE DEF TypeOK, Go, Return, Call
<1>1. CASE \E k \in Keys, label \in Labels : Add(p, k, label)
  BY <1>1, CommitEndsSnapshots DEF Add
<1>2. CASE RevokeDelete(p)
  BY <1>2, CommitEndsSnapshots DEF RevokeDelete
<1>3. CASE RotateCommit(p)
  <2>1. lock = p
    BY <1>3 DEF RotateCommit, Held
  <2> QED
    BY <1>3, <2>1, CommitEndsSnapshots DEF RotateCommit
<1>4. CASE AddReadBack(p) \/ ApplyWrite(p) \/ TimeOut(p) \/ ApplyCheck(p) \/ Crash(p)
  BY <1>4, QuietSnapshots DEF AddReadBack, ApplyWrite, TimeOut, ApplyCheck, Crash
<1>5. CASE \E k \in Keys : RevokeRead(p, k) \/ ApplyOpen(p, k)
  BY <1>5, QuietSnapshots DEF RevokeRead, ApplyOpen
<1>6. CASE \E k, new \in Keys, label \in Labels : RotateBegin(p, k, new, label)
  <2>1. PICK k \in Keys, new \in Keys, label \in Labels : RotateBegin(p, k, new, label)
    BY <1>6
  <2>2. CASE Replaceable(k, new)
    <3>1. /\ arg'[p].key = k /\ arg'[p].new = new
          /\ read'[p].decision = decision[k]
          /\ UNCHANGED tableVars
      BY <2>1, <2>2 DEF RotateBegin, RowOf
    <3>2. SnapshotStands(p)'
      BY <2>2, <3>1 DEF SnapshotStands, Replaceable, Trusted, tableVars
    <3> QED
      BY <2>1, <2>2, <3>2, QuietSnapshots DEF RotateBegin
  <2>3. CASE ~Replaceable(k, new)
    BY <2>1, <2>3, QuietSnapshots DEF RotateBegin
  <2> QED
    BY <2>2, <2>3
<1>7. CASE RotateWrite(p)
  <2>1. p \notin moved => SnapshotStands(p)
    BY <1>7 DEF RotateWrite, SnapshotsStand
  <2>2. pc'[p] = "written" => SnapshotStands(p)'
    BY <1>7, <2>1 DEF RotateWrite, SnapshotStands, Replaceable, Trusted, tableVars
  <2> QED
    BY <1>7, <2>2, QuietSnapshots DEF RotateWrite
<1> QED
  BY <1>1, <1>2, <1>3, <1>4, <1>5, <1>6, <1>7 DEF Does

-----------------------------------------------------------------------------
(* Decisions *)

DecisionsApart == DecisionsCounted /\ OneKeyPerDecision

LEMMA QuietDecisions ==
    ASSUME DecisionsApart, UNCHANGED tableVars
    PROVE  DecisionsApart'
  BY DEF DecisionsApart, DecisionsCounted, OneKeyPerDecision, Trusted, tableVars

LEMMA AddDecisions ==
    ASSUME TypeOK, DecisionsApart, NEW p \in Procs, NEW k \in Keys, NEW label \in Labels,
           Add(p, k, label)
    PROVE  DecisionsApart'
<1> USE DEF TypeOK, DecisionsApart, DecisionsCounted, OneKeyPerDecision, Trusted
<1>1. trusted' = [trusted EXCEPT ![k] = label]
  BY DEF Add
<1>2. CASE trusted[k] # None
  BY <1>1, <1>2 DEF Add
<1>3. CASE trusted[k] = None
  <2>1. decisions' = decisions + 1 /\ decision' = [decision EXCEPT ![k] = decisions + 1]
    BY <1>3 DEF Add
  <2> QED
    BY <1>1, <1>3, <2>1
<1> QED
  BY <1>2, <1>3

LEMMA RotateDecisions ==
    ASSUME TypeOK, Called, SnapshotsStand, DecisionsApart, NEW p \in Procs, RotateCommit(p)
    PROVE  DecisionsApart'
<1> DEFINE old == arg[p].key
           new == arg[p].new
<1>1. old \in Keys /\ new \in Keys
  BY DEF RotateCommit, Called, Arg
<1>2. /\ old # new /\ Trusted(old) /\ ~Trusted(new)
      /\ decision[old] = read[p].decision
  BY DEF RotateCommit, SnapshotsStand, SnapshotStands, Replaceable
<1>3. /\ trusted' = [trusted EXCEPT ![old] = None, ![new] = arg[p].label]
      /\ decision' = [decision EXCEPT ![old] = 0, ![new] = decision[old]]
      /\ decisions' = decisions
  BY <1>2 DEF RotateCommit
<1> HIDE DEF old, new
<1> QED
  BY <1>1, <1>2, <1>3
  DEF TypeOK, DecisionsApart, DecisionsCounted, OneKeyPerDecision, Trusted

LEMMA DoesDecisions ==
    ASSUME TypeOK, Called, SnapshotsStand, DecisionsApart, NEW p \in Procs, Does(p)
    PROVE  DecisionsApart'
<1>1. CASE \E k \in Keys, label \in Labels : Add(p, k, label)
  BY <1>1, AddDecisions
<1>2. CASE RotateCommit(p)
  BY <1>2, RotateDecisions
<1>3. CASE RevokeDelete(p)
  BY <1>3
  DEF TypeOK, DecisionsApart, DecisionsCounted, OneKeyPerDecision, Trusted, RevokeDelete
<1>4. CASE UNCHANGED tableVars
  BY <1>4, QuietDecisions
<1> QED
  BY <1>1, <1>2, <1>3, <1>4
  DEF Does, AddReadBack, RevokeRead, RotateBegin, RotateWrite, ApplyOpen, ApplyCheck,
      ApplyWrite, TimeOut, Crash

-----------------------------------------------------------------------------
(* The invariant *)

LEMMA TrustInvInit == Init => TrustInv
<1> SUFFICES ASSUME Init PROVE TrustInv
  OBVIOUS
<1>1. TypeOK /\ Held /\ Called
  BY NoneIsApart DEF Init, TypeOK, Held, Called
<1>2. SnapshotsStand /\ DecisionsCounted /\ OneKeyPerDecision
  BY DEF Init, SnapshotsStand, DecisionsCounted, OneKeyPerDecision, Trusted
<1> QED
  BY <1>1, <1>2 DEF TrustInv

LEMMA TrustInvNext == TrustInv /\ [Next]_vars => TrustInv'
<1> SUFFICES ASSUME TrustInv, [Next]_vars PROVE TrustInv'
  OBVIOUS
<1> USE DEF TrustInv, DecisionsApart
<1>1. CASE LedgerCommit /\ Next
  <2>1. TypeOK'
    BY <1>1, LedgerCommitTypes, CrashesCounted DEF Next
  <2>2. Held' /\ Called'
    BY <1>1 DEF LedgerCommit, Held, Called
  <2>3. SnapshotsStand'
    BY <1>1, NoneIsApart DEF TypeOK, Held, LedgerCommit, Commits, SnapshotsStand
  <2>4. DecisionsApart'
    BY <1>1, QuietDecisions DEF LedgerCommit
  <2> QED
    BY <2>1, <2>2, <2>3, <2>4
<1>2. ASSUME NEW p \in Procs, Does(p), Next PROVE TrustInv'
  <2>1. crashes' \in Nat
    BY <1>2, CrashesCounted
  <2>2. TypeOK' /\ Held' /\ Called'
    BY <1>2, <2>1, DoesTypes, DoesHeld, DoesCalled
  <2>3. SnapshotsStand' /\ DecisionsApart'
    BY <1>2, DoesSnapshots, DoesDecisions
  <2> QED
    BY <2>2, <2>3
<1>3. CASE UNCHANGED vars
  <2>1. TypeOK' /\ Held' /\ Called'
    BY <1>3 DEF vars, tableVars, TypeOK, Held, Called
  <2>2. SnapshotsStand' /\ DecisionsApart'
    BY <1>3, QuietDecisions
    DEF vars, tableVars, SnapshotsStand, SnapshotStands, Replaceable, Trusted
  <2> QED
    BY <2>1, <2>2
<1> QED
  BY <1>1, <1>2, <1>3, NextCases

\* Every reachable state is well-typed.
THEOREM TrustTypes == Spec => []TypeOK
<1>1. TrustInv => TypeOK
  BY DEF TrustInv
<1> QED
  BY <1>1, TrustInvInit, TrustInvNext, PTL DEF Spec

\* Rotations never multiply trust: no two trusted keys rest on one decision.
THEOREM TrustIsNotMultiplied == Spec => []OneKeyPerDecision
<1>1. TrustInv => OneKeyPerDecision
  BY DEF TrustInv
<1> QED
  BY <1>1, TrustInvInit, TrustInvNext, PTL DEF Spec

-----------------------------------------------------------------------------
(* What a step may do to a decision *)

LEMMA EndedByRevocation ==
    ASSUME TrustInv, Next, NEW k \in Keys, Trusted(k), ~RestsNext(decision[k])
    PROVE  \E p \in Procs : RevokeDelete(p) /\ arg[p].key = k
<1> USE DEF TrustInv, TypeOK, RestsNext, Trusted
<1>1. ~(trusted'[k] # None /\ decision'[k] = decision[k])
  OBVIOUS
<1>2. ~UNCHANGED tableVars
  BY <1>1 DEF tableVars
<1>3. PICK p \in Procs : Does(p)
  BY <1>2, NextCases DEF LedgerCommit
<1>4. ASSUME NEW j \in Keys, NEW label \in Labels, Add(p, j, label) PROVE FALSE
  <2>1. trusted'[k] # None
    BY <1>4, NoneIsApart DEF Add
  <2>2. decision'[k] = decision[k]
    BY <1>4 DEF Add
  <2> QED
    BY <1>1, <2>1, <2>2
<1>5. ASSUME RotateCommit(p) PROVE FALSE
  <2> DEFINE old == arg[p].key
             new == arg[p].new
  <2>1. old \in Keys /\ new \in Keys /\ arg[p].label # None
    BY <1>5, NoneIsApart DEF RotateCommit, Called, Arg
  <2>2. /\ old # new /\ trusted[new] = None
        /\ decision[old] = read[p].decision
    BY <1>5 DEF RotateCommit, SnapshotsStand, SnapshotStands, Replaceable
  <2>3. /\ trusted' = [trusted EXCEPT ![old] = None, ![new] = arg[p].label]
        /\ decision' = [decision EXCEPT ![old] = 0, ![new] = decision[old]]
    BY <1>5, <2>2 DEF RotateCommit
  <2> HIDE DEF old, new
  <2>4. k # new
    BY <2>2
  <2>5. k = old
    BY <1>1, <2>1, <2>3, <2>4
  <2>6. trusted'[new] # None /\ decision'[new] = decision[k]
    BY <2>1, <2>3, <2>5
  <2> QED
    BY <2>1, <2>6
<1>6. RevokeDelete(p)
  <2>1. ~AddReadBack(p) /\ ~RotateWrite(p) /\ ~ApplyCheck(p) /\ ~ApplyWrite(p)
    BY <1>2 DEF AddReadBack, RotateWrite, ApplyCheck, ApplyWrite
  <2>2. ~TimeOut(p) /\ ~Crash(p) /\ ~\E j \in Keys : RevokeRead(p, j) \/ ApplyOpen(p, j)
    BY <1>2 DEF TimeOut, Crash, RevokeRead, ApplyOpen
  <2>3. ~\E j, new \in Keys, label \in Labels : RotateBegin(p, j, new, label)
    BY <1>2 DEF RotateBegin
  <2> QED
    BY <1>3, <1>4, <1>5, <2>1, <2>2, <2>3 DEF Does
<1>7. arg[p].key = k
  BY <1>1, <1>6 DEF RevokeDelete
<1> QED
  BY <1>6, <1>7

\* Nobody loses a trusted signer without revoking one.
THEOREM TrustEndsByRevocation == Spec => DecisionsEndByRevocation
<1>1. TrustInv /\ [Next]_vars =>
        [\A k \in Keys :
            Trusted(k) /\ ~RestsNext(decision[k]) =>
                \E p \in Procs : RevokeDelete(p) /\ arg[p].key = k]_vars
  BY EndedByRevocation
<1> QED
  BY <1>1, TrustInvInit, TrustInvNext, PTL DEF Spec, DecisionsEndByRevocation
=============================================================================

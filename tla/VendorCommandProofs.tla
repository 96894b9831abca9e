-------------------------- MODULE VendorCommandProofs --------------------------
(***************************************************************************)
(* VendorCommand for every output limit and whatever the child writes: the *)
(* child does not outlive the report, and no cut output is accepted.       *)
(***************************************************************************)
EXTENDS VendorCommand, TLAPS

-----------------------------------------------------------------------------
(* The inductive invariant *)

\* What the runner knows of the child at each of its steps.
ChildAt ==
    /\ pc = "start" => child = "none"
    /\ pc \in {"size", "wait", "kill"} => child \in {"running", "exited"}
    /\ pc = "reap" => child = "exited" \/ (child = "running" /\ "kill" \in failed)
    /\ pc = "recheck" => child = "reaped"
    /\ pc = "read" => Ended

ReportAtEnd == report # None => pc = "end"

\* An exited child writes no more, its helper may.
ExitMeasured ==
    child \in {"exited", "reaped"} => exitSize \in Sizes /\ exitSize <= size["stdout"]

\* What the list accepts was within its limit when the child had exited.
CompletedInLimit ==
    verdict = "completed" =>
        /\ pc \in {"read", "end"} /\ child = "reaped"
        /\ runner = "list" => exitSize <= Limit

\* Only a child that was waited for is accepted.
AcceptedCompleted == report = "accepted" => verdict = "completed"

Inv ==
    /\ TypeOK /\ ChildAt /\ ReportAtEnd /\ ExitMeasured /\ CompletedInLimit
    /\ AcceptedCompleted /\ ChildEnded /\ AcceptedIsWhole

-----------------------------------------------------------------------------
(* The runner's steps *)

LEMMA SpawnHolds ==
    ASSUME Inv, Spawn
    PROVE  Inv'
<1> USE DEF Inv, Spawn, Keep
<1>1. CASE child' = "running" /\ Continue(Poll)
  BY <1>1, NoneIsNoReport DEF Continue, Poll, Goto, TypeOK, ChildAt, ReportAtEnd, ExitMeasured,
       CompletedInLimit, AcceptedCompleted, ChildEnded, Ended, AcceptedIsWhole
<1>2. CASE child' = child /\ runner = "list" /\ Propagate
  BY <1>2, NoneIsNoReport DEF Propagate, Goto, TypeOK, ChildAt, ReportAtEnd, ExitMeasured,
       CompletedInLimit, AcceptedCompleted, ChildEnded, Ended, AcceptedIsWhole
<1>3. CASE child' = child /\ Decide("spawn_failed", "read")
  BY <1>3, NoneIsNoReport DEF Decide, Goto, TypeOK, Verdicts, ChildAt, ReportAtEnd, ExitMeasured,
       CompletedInLimit, AcceptedCompleted, ChildEnded, Ended, AcceptedIsWhole
<1> QED
  BY <1>1, <1>2, <1>3

\* Without both files the list gives up while the child may still run.
LEMMA CheckSizeHolds ==
    ASSUME Inv, CheckSize
    PROVE  Inv'
<1> USE DEF Inv, CheckSize, Keep, childVars
<1>1. CASE gone # None /\ runner = "list" /\ Propagate
  BY <1>1, NoneIsNoReport DEF Propagate, Goto, TypeOK, ChildAt, ReportAtEnd, ExitMeasured,
       CompletedInLimit, AcceptedCompleted, ChildEnded, Ended, AcceptedIsWhole
<1>2. CASE Decide("limit", "kill")
  BY <1>2, NoneIsNoReport DEF Decide, Goto, TypeOK, Verdicts, ChildAt, ReportAtEnd, ExitMeasured,
       CompletedInLimit, AcceptedCompleted, ChildEnded, Ended, AcceptedIsWhole
<1>3. CASE Continue("wait")
  BY <1>3, NoneIsNoReport DEF Continue, Goto, TypeOK, ChildAt, ReportAtEnd, ExitMeasured,
       CompletedInLimit, AcceptedCompleted, ChildEnded, Ended, AcceptedIsWhole
<1> QED
  BY <1>1, <1>2, <1>3 DEF Measure

LEMMA TryWaitHolds ==
    ASSUME Inv, TryWait
    PROVE  Inv'
<1> USE NoneIsNoReport DEF Inv, TryWait, Keep, Goto, TypeOK, Verdicts, ChildAt, ReportAtEnd,
        ExitMeasured, CompletedInLimit, AcceptedCompleted, ChildEnded, Ended, AcceptedIsWhole
<1>1. CASE child = "exited" /\ runner = "probe"
  BY <1>1 DEF Decide
<1>2. CASE child = "exited" /\ runner # "probe"
  BY <1>2 DEF Continue
<1>3. CASE child # "exited" /\ late
  BY <1>3 DEF Decide
<1>4. CASE child # "exited" /\ ~late
  BY <1>4 DEF Continue, Poll
<1> QED
  BY <1>1, <1>2, <1>3, <1>4

\* What is within the limit together is within it in stdout alone.
LEMMA MeasuredInLimit ==
    ASSUME TypeOK, gone = None, ~TooMuch
    PROVE  size["stdout"] <= Limit
<1>1. size["stdout"] \in Nat /\ size["stderr"] \in Nat
  BY SizesCrossTheLimit DEF TypeOK, Streams, Sizes
<1> QED
  BY <1>1, SizesCrossTheLimit DEF TooMuch

LEMMA RecheckHolds ==
    ASSUME Inv, Recheck
    PROVE  Inv'
<1> USE DEF Inv, Recheck, Keep, childVars
<1>1. CASE gone # None /\ runner = "list" /\ Propagate
  BY <1>1, NoneIsNoReport DEF Propagate, Goto, TypeOK, ChildAt, ReportAtEnd, ExitMeasured,
       CompletedInLimit, AcceptedCompleted, ChildEnded, Ended, AcceptedIsWhole
<1>2. CASE Decide("limit", "read")
  BY <1>2, NoneIsNoReport DEF Decide, Goto, TypeOK, Verdicts, ChildAt, ReportAtEnd, ExitMeasured,
       CompletedInLimit, AcceptedCompleted, ChildEnded, Ended, AcceptedIsWhole
<1>3. CASE (gone = None \/ runner # "list") /\ ~TooMuch /\ Decide("completed", "read")
  <2>1. child = "reaped" /\ exitSize \in Sizes /\ exitSize <= size["stdout"]
    BY DEF ChildAt, ExitMeasured
  <2>2. ASSUME runner = "list" PROVE exitSize <= Limit
    <3>1. gone = None
      BY <1>3, <2>2
    <3>2. size["stdout"] <= Limit
      BY <1>3, <3>1, MeasuredInLimit
    <3>3. exitSize \in Nat /\ size["stdout"] \in Nat /\ Limit \in Nat
      BY <2>1, SizesCrossTheLimit DEF Sizes, TypeOK, Streams
    <3> QED
      BY <2>1, <3>2, <3>3
  <2> QED
    BY <1>3, <2>1, <2>2, NoneIsNoReport DEF Decide, Goto, TypeOK, Verdicts, ChildAt,
       ReportAtEnd, ExitMeasured, CompletedInLimit, AcceptedCompleted, ChildEnded, Ended, AcceptedIsWhole
<1> QED
  BY <1>1, <1>2, <1>3 DEF Measure

LEMMA KillHolds ==
    ASSUME Inv, Kill
    PROVE  Inv'
<1> USE NoneIsNoReport DEF Inv, Kill, Keep, Continue, Goto, TypeOK, ChildAt, ReportAtEnd,
        CompletedInLimit, AcceptedCompleted, ChildEnded, Ended, AcceptedIsWhole
<1>1. CASE child = "running" /\ Dies
  <2>1. size["stdout"] \in Sizes /\ size["stdout"] <= size["stdout"]
    BY SizesCrossTheLimit DEF Sizes, Streams
  <2> QED
    BY <1>1, <2>1 DEF Dies, ExitMeasured
<1>2. CASE child # "running" /\ UNCHANGED <<child, success, exitSize>>
  BY <1>2 DEF ExitMeasured
<1> QED
  BY <1>1, <1>2

LEMMA ReapHolds ==
    ASSUME Inv, Reap
    PROVE  Inv'
  BY NoneIsNoReport DEF Inv, Reap, Keep, Continue, Goto, TypeOK, ChildAt, ReportAtEnd,
     ExitMeasured, CompletedInLimit, AcceptedCompleted, ChildEnded, Ended, AcceptedIsWhole

\* A failed call leaves the child as it is, and is remembered.
LEMMA CallFailsHolds ==
    ASSUME Inv, CallFails
    PROVE  Inv'
<1> USE NoneIsNoReport DEF Inv, CallFails, Fails, Keep, childVars, Goto, TypeOK, Verdicts,
        ChildAt, ReportAtEnd, ExitMeasured, CompletedInLimit, AcceptedCompleted, ChildEnded,
        Ended, AcceptedIsWhole
<1>1. CASE TryWaitFails
  <2>1. CASE runner = "list"
    BY <1>1, <2>1 DEF TryWaitFails, Propagate
  <2>2. CASE runner # "list"
    BY <1>1, <2>2 DEF TryWaitFails, Decide
  <2> QED
    BY <2>1, <2>2
<1>2. CASE KillFails
  <2>1. CASE runner = "list"
    BY <1>2, <2>1 DEF KillFails, Propagate
  <2>2. CASE runner # "list"
    BY <1>2, <2>2 DEF KillFails, Continue
  <2> QED
    BY <2>1, <2>2
<1>3. CASE WaitFails
  BY <1>3 DEF WaitFails, Continue
<1> QED
  BY <1>1, <1>2, <1>3

\* The parser gets all of stdout, or what is cut lies behind the child's exit.
LEMMA CutKeeps ==
    ASSUME Inv, verdict = "completed", runner # "probe",
           runner = "inventory" => Cut(size["stdout"]) <= Limit
    PROVE  Cut(size["stdout"]) \in Sizes /\ Cut(size["stdout"]) >= exitSize
<1>1. /\ exitSize \in Nat /\ size["stdout"] \in Nat /\ Limit \in Nat /\ MaxSize \in Nat
      /\ exitSize <= size["stdout"] /\ size["stdout"] <= MaxSize /\ Limit <= MaxSize
  BY SizesCrossTheLimit DEF Inv, CompletedInLimit, ExitMeasured, TypeOK, Sizes, Streams
<1>2. CASE runner = "inventory"
  BY <1>1, <1>2 DEF Cut, Sizes
<1>3. CASE runner = "list"
  <2>1. exitSize <= Limit
    BY <1>3 DEF Inv, CompletedInLimit
  <2> QED
    BY <1>1, <1>3, <2>1 DEF Cut, Sizes
<1> QED
  BY <1>2, <1>3 DEF Inv, TypeOK, Runners

LEMMA CutInSizes ==
    ASSUME TypeOK
    PROVE  Cut(size["stdout"]) \in Sizes
  BY SizesCrossTheLimit DEF TypeOK, Cut, Sizes, Streams

LEMMA ReadOutputHolds ==
    ASSUME Inv, ReadOutput
    PROVE  Inv'
<1> USE DEF Inv, Keep, childVars, Goto
<1>1. Ended /\ pc' = "end" /\ child' = child /\ verdict' = verdict
  BY DEF ReadOutput, ChildAt, Propagate
<1>2. UNCHANGED <<runner, success, helper, size, gone, exitSize, failed, late>>
  BY DEF ReadOutput
<1>3. ChildAt' /\ ReportAtEnd' /\ ChildEnded'
  BY <1>1, <1>2 DEF ChildAt, ReportAtEnd, ChildEnded, Ended
<1>4. ExitMeasured' /\ CompletedInLimit' /\ AcceptedCompleted'
  BY <1>1, <1>2, NoneIsNoReport
     DEF ReadOutput, Accepts, Propagate, ExitMeasured, CompletedInLimit, AcceptedCompleted
<1>5. TypeOK'
  <2>1. seen' \in Sizes \union {None} /\ report' \in {"accepted", "rejected", "error", None}
    BY CutInSizes DEF ReadOutput, Propagate, TypeOK
  <2> QED
    BY <1>1, <1>2, <2>1 DEF TypeOK
<1>6. AcceptedIsWhole'
  <2> SUFFICES ASSUME report' = "accepted", runner # "probe"
               PROVE  seen' >= exitSize
    BY <1>2 DEF AcceptedIsWhole
  <2>1. /\ verdict = "completed" /\ seen' = Cut(size["stdout"])
        /\ runner = "inventory" => Cut(size["stdout"]) <= Limit
    BY NoneIsNoReport DEF ReadOutput, Accepts, Propagate
  <2> QED
    BY <2>1, CutKeeps
<1> QED
  BY <1>3, <1>4, <1>5, <1>6

LEMMA RunnerHolds ==
    ASSUME Inv, Runner
    PROVE  Inv'
  BY SpawnHolds, CheckSizeHolds, TryWaitHolds, RecheckHolds, KillHolds, ReapHolds,
     ReadOutputHolds DEF Runner

-----------------------------------------------------------------------------
(* The vendor's steps *)

\* What the report rests on after a step of a process that is not mnemo.
LEMMA EnvironmentHolds ==
    ASSUME Inv, Environment, TypeOK', ExitMeasured',
           \/ child' = child /\ exitSize' = exitSize
           \/ child = "running" /\ child' = "exited",
           gone' = gone \/ gone = None
    PROVE  Inv'
<1> USE DEF Inv, Environment
<1>1. ChildAt' /\ ReportAtEnd'
  BY DEF ChildAt, ReportAtEnd, Ended
<1>2. CompletedInLimit' /\ AcceptedCompleted'
  BY DEF CompletedInLimit, AcceptedCompleted
<1>3. ChildEnded'
  BY DEF ChildEnded, Ended
<1>4. AcceptedIsWhole'
  BY NoneIsNoReport DEF AcceptedIsWhole, AcceptedCompleted, CompletedInLimit
<1> QED
  BY <1>1, <1>2, <1>3, <1>4

LEMMA ChildWritesHolds ==
    ASSUME Inv, NEW s \in Streams, ChildWrites(s)
    PROVE  Inv'
<1>1. size[s] \in Nat /\ size[s] < MaxSize /\ size' = [size EXCEPT ![s] = size[s] + 1]
  BY SizesCrossTheLimit DEF Inv, TypeOK, Sizes, ChildWrites
<1>2. size' \in [Streams -> Sizes] /\ size["stdout"] \in Nat /\ size'["stdout"] >= size["stdout"]
  BY <1>1, SizesCrossTheLimit DEF Inv, TypeOK, Sizes, Streams
<1>3. TypeOK'
  BY <1>2 DEF Inv, TypeOK, ChildWrites, Environment
<1>4. ExitMeasured'
  <2> SUFFICES ASSUME child \in {"exited", "reaped"}
               PROVE  exitSize \in Sizes /\ exitSize <= size'["stdout"]
    BY DEF ExitMeasured, ChildWrites
  <2>1. exitSize \in Sizes /\ exitSize \in Nat /\ exitSize <= size["stdout"]
    BY SizesCrossTheLimit DEF Inv, ExitMeasured, Sizes
  <2>2. size'["stdout"] \in Nat
    BY <1>2, SizesCrossTheLimit DEF Sizes, Streams
  <2> QED
    BY <1>2, <2>1, <2>2
<1> QED
  BY <1>3, <1>4, EnvironmentHolds DEF ChildWrites

LEMMA ChildExitsHolds ==
    ASSUME Inv, ChildExits
    PROVE  Inv'
<1>1. TypeOK'
  BY DEF Inv, TypeOK, ChildExits, Environment, Streams
<1>2. ExitMeasured'
  BY SizesCrossTheLimit DEF Inv, TypeOK, ChildExits, ExitMeasured, Sizes, Streams
<1> QED
  BY <1>1, <1>2, EnvironmentHolds DEF ChildExits

LEMMA VendorHolds ==
    ASSUME Inv, Vendor
    PROVE  Inv'
<1>1. ASSUME NEW s \in Streams, ChildUnlinks(s) PROVE Inv'
  BY <1>1, EnvironmentHolds DEF ChildUnlinks, Environment, Inv, TypeOK, ExitMeasured
<1>2. CASE ChildForks
  BY <1>2, EnvironmentHolds DEF ChildForks, Environment, Inv, TypeOK, ExitMeasured
<1>3. CASE HelperExits
  <2>1. UNCHANGED <<runner, pc, verdict, seen, report, child, success, size, gone, exitSize,
                 failed, late>>
    BY <1>3 DEF HelperExits, Environment
  <2>2. helper' \in BOOLEAN
    BY <1>3 DEF HelperExits
  <2>3. TypeOK' /\ ExitMeasured'
    BY <2>1, <2>2 DEF Inv, TypeOK, ExitMeasured
  <2> QED
    BY <1>3, <2>1, <2>3, EnvironmentHolds DEF HelperExits
<1> QED
  BY <1>1, <1>2, <1>3, ChildWritesHolds, ChildExitsHolds DEF Vendor

LEMMA DeadlineHolds ==
    ASSUME Inv, DeadlinePasses
    PROVE  Inv'
  BY EnvironmentHolds DEF DeadlinePasses, Environment, childVars, Inv, TypeOK, ExitMeasured

-----------------------------------------------------------------------------
LEMMA InitHolds ==
    ASSUME Init
    PROVE  Inv
<1>1. 0 \in Sizes
  BY SizesCrossTheLimit DEF Sizes
<1>2. size \in [Streams -> Sizes]
  BY <1>1 DEF Init
<1>3. TypeOK
  BY <1>2 DEF Init, TypeOK
<1> QED
  BY <1>3, NoneIsNoReport DEF Init, Inv, ChildAt, ReportAtEnd, ExitMeasured, CompletedInLimit,
     AcceptedCompleted, ChildEnded, Ended, AcceptedIsWhole

LEMMA NextHolds ==
    ASSUME Inv, [Next]_vars
    PROVE  Inv'
<1>1. CASE UNCHANGED vars
  BY <1>1 DEF vars, childVars, Inv, TypeOK, ChildAt, ReportAtEnd, ExitMeasured,
     CompletedInLimit, AcceptedCompleted, ChildEnded, Ended, AcceptedIsWhole
<1> QED
  BY <1>1, RunnerHolds, CallFailsHolds, VendorHolds, DeadlineHolds DEF Next

LEMMA Invariant == Spec => []Inv
<1>1. Init => Inv
  BY InitHolds
<1>2. Inv /\ [Next]_vars => Inv'
  BY NextHolds
<1> QED
  BY <1>1, <1>2, PTL DEF Spec

(***************************************************************************)
(* The variables of the three runners stay in their types: every child     *)
(* that was waited for left an exit status, and the sizes are sizes.       *)
(***************************************************************************)
THEOREM TypeCorrect == Spec => []TypeOK
<1>1. Inv => TypeOK
  BY DEF Inv
<1> QED
  BY <1>1, Invariant, PTL

(***************************************************************************)
(* For every limit and every child: when the caller has its report, the    *)
(* child has exited and been waited for, except after a failed call: it is *)
(* a zombie after a failed wait, and runs only after an error of the       *)
(* list's poll or when both kill and wait failed.                          *)
(***************************************************************************)
THEOREM NoChildOutlivesTheReport == Spec => []ChildEnded
<1>1. Inv => ChildEnded
  BY DEF Inv
<1> QED
  BY <1>1, Invariant, PTL

(***************************************************************************)
(* For every limit and every child: inventory and list accept no less than *)
(* what the child had written to stdout when it exited.                    *)
(***************************************************************************)
THEOREM NothingCutIsAccepted == Spec => []AcceptedIsWhole
<1>1. Inv => AcceptedIsWhole
  BY DEF Inv
<1> QED
  BY <1>1, Invariant, PTL
=============================================================================

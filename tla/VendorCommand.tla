---------------------------- MODULE VendorCommand ----------------------------
(***************************************************************************)
(* The bounded runs of a vendor executable: the version probe and the      *)
(* plugin inventory of mnemo-adapter-common and the native discovery list  *)
(* of mnemo-core.  Each polls a child that writes into a scratch directory *)
(* until it exits, is too late or has written too much.  They differ in    *)
(* what an error of a poll does and in how the output is read.  The calls  *)
(* on the child, kill, try_wait and wait, may fail too.                    *)
(*                                                                         *)
(* An invocation is one behaviour.  The child, a helper process it leaves  *)
(* behind and the clock move between any two steps of the runner.  Sizes   *)
(* are abstract units; the parsers are left out.                           *)
(***************************************************************************)
EXTENDS Naturals

CONSTANTS
    None,
    Limit,      \* PROBE_, PLUGIN_INVENTORY_ and VENDOR_OUTPUT_LIMIT
    MaxSize,    \* bound on what is written to each stream
    MayUnlink   \* may the child remove an output file from its TMPDIR?

ASSUME NoneIsNoReport == None \notin {"accepted", "rejected", "error", "completed"}
ASSUME SizesCrossTheLimit == Limit \in Nat /\ MaxSize \in Nat /\ MaxSize > Limit

VARIABLES
    runner,
    pc,
    child,      \* the process the runner started
    success,    \* its exit status
    helper,     \* does a process it started still write?
    size,       \* of the two output files
    gone,       \* an output file that was removed
    failed,     \* the calls on the child that returned an error
    late,       \* has the deadline passed?
    verdict,    \* ProbeExecution, FixedCommandResult
    seen,       \* bytes of stdout handed to the parser
    report,     \* what the caller got
    exitSize    \* stdout when the child exited (history)

childVars == <<child, success, helper, size, gone, exitSize>>
vars == <<runner, pc, childVars, failed, late, verdict, seen, report>>

Runners == {"probe", "inventory", "list"}
Streams == {"stdout", "stderr"}
Sizes == 0..MaxSize
Verdicts == {"completed", "timed_out", "limit", "spawn_failed"}

TypeOK ==
    /\ runner \in Runners
    /\ pc \in {"start", "size", "wait", "recheck", "kill", "reap", "read", "end"}
    /\ child \in {"none", "running", "exited", "reaped"}
    /\ success \in BOOLEAN /\ helper \in BOOLEAN /\ late \in BOOLEAN
    /\ size \in [Streams -> Sizes]
    /\ gone \in Streams \union {None}
    /\ failed \subseteq {"kill", "try_wait", "wait"}
    /\ verdict \in Verdicts \union {None}
    /\ seen \in Sizes \union {None}
    /\ report \in {"accepted", "rejected", "error", None}
    /\ exitSize \in Sizes \union {None}

Init ==
    /\ runner \in Runners
    /\ pc = "start" /\ child = "none"
    /\ success \in BOOLEAN
    /\ helper = FALSE /\ late = FALSE
    /\ size = [s \in Streams |-> 0]
    /\ gone = None /\ failed = {} /\ verdict = None /\ seen = None
    /\ report = None /\ exitSize = None

-----------------------------------------------------------------------------
Goto(l) == pc' = l

Keep == UNCHANGED <<runner, late>>

Fails(call) == failed' = failed \union {call} /\ UNCHANGED childVars /\ Keep

\* The runner has an answer; the caller reads the output and cleans up.
Decide(v, l) == verdict' = v /\ Goto(l) /\ UNCHANGED <<seen, report>>

\* The error is returned with ? and the child, if any, is left as it is.
Propagate ==
    /\ report' = "error"
    /\ Goto("end")
    /\ UNCHANGED <<verdict, seen>>

Continue(l) == Goto(l) /\ UNCHANGED <<verdict, seen, report>>

Poll == IF runner = "probe" THEN "wait" ELSE "size"

Spawn ==
    /\ pc = "start"
    /\ \/ /\ child' = "running"
          /\ Continue(Poll)
       \/ /\ UNCHANGED child
          /\ IF runner = "list" THEN Propagate ELSE Decide("spawn_failed", "read")
    /\ UNCHANGED <<success, helper, size, gone, exitSize, failed>> /\ Keep

TooMuch == gone = None /\ size["stdout"] + size["stderr"] > Limit

\* Without both files there is no size: inventory goes on, list gives up.
Measure(exceeded, within) ==
    IF gone # None /\ runner = "list" THEN Propagate
    ELSE IF TooMuch THEN exceeded ELSE within

CheckSize ==
    /\ pc = "size"
    /\ Measure(Decide("limit", "kill"), Continue("wait"))
    /\ UNCHANGED <<childVars, failed>> /\ Keep

TryWait ==
    /\ pc = "wait"
    /\ IF child = "exited"
       THEN /\ child' = "reaped"
            /\ IF runner = "probe" THEN Decide("completed", "read")
                                   ELSE Continue("recheck")
       ELSE /\ UNCHANGED child
            /\ IF late THEN Decide("timed_out", "kill") ELSE Continue(Poll)
    /\ UNCHANGED <<success, helper, size, gone, exitSize, failed>> /\ Keep

\* Without an answer the list gives up, and the others kill what they started.
TryWaitFails ==
    /\ pc = "wait"
    /\ Fails("try_wait")
    /\ IF runner = "list" THEN Propagate ELSE Decide("spawn_failed", "kill")

\* Mutant of Recheck: what the child wrote last is not measured.
TrustExit ==
    /\ pc = "recheck"
    /\ Decide("completed", "read")
    /\ UNCHANGED <<childVars, failed>> /\ Keep

Recheck ==
    /\ pc = "recheck"
    /\ Measure(Decide("limit", "read"), Decide("completed", "read"))
    /\ UNCHANGED <<childVars, failed>> /\ Keep

\* Mutant of Dies: a child that a signal ended has no exit code.
DiesByNumber == child' = "exited" /\ success' = None /\ exitSize' = size["stdout"]

Dies == child' = "exited" /\ success' = FALSE /\ exitSize' = size["stdout"]

\* Mutant of Kill: the child is only waited for.
WaitOnly ==
    /\ pc = "kill"
    /\ Continue("reap")
    /\ UNCHANGED <<childVars, failed>> /\ Keep

\* Only the child is killed, not what it started.
Kill ==
    /\ pc = "kill"
    /\ IF child = "running" THEN Dies ELSE UNCHANGED <<child, success, exitSize>>
    /\ Continue("reap")
    /\ UNCHANGED <<helper, size, gone, failed>> /\ Keep

\* The list returns the error, the others wait for the child all the same.
KillFails ==
    /\ pc = "kill"
    /\ Fails("kill")
    /\ IF runner = "list" THEN Propagate ELSE Continue("reap")

\* Mutant of Reap: the killed child is not waited for.
LeaveZombie ==
    /\ pc = "reap"
    /\ Continue("read")
    /\ UNCHANGED <<childVars, failed>> /\ Keep

\* wait blocks until the child has exited.
Reap ==
    /\ pc = "reap" /\ child = "exited"
    /\ child' = "reaped"
    /\ Continue("read")
    /\ UNCHANGED <<success, helper, size, gone, exitSize, failed>> /\ Keep

\* Its error is ignored.
WaitFails ==
    /\ pc = "reap"
    /\ Fails("wait")
    /\ Continue("read")

-----------------------------------------------------------------------------
(* Reading the output and reporting *)

\* The probe also opens stderr, unless stdout filled its limit.
Readable ==
    /\ gone # "stdout"
    /\ runner = "probe" /\ size["stdout"] < Limit => gone # "stderr"

\* Mutant of Cut: the inventory stops reading at its limit.
CutAll(n) == IF n > Limit THEN Limit ELSE n

\* The inventory reads one byte more, and rejects what is longer than its limit.
Cut(n) == IF runner = "inventory" \/ n <= Limit THEN n ELSE Limit

Accepts == verdict = "completed" /\ success

ReadOutput ==
    /\ pc = "read"
    /\ LET read == Cut(size["stdout"])
           ok == Readable /\ (runner = "inventory" => read <= Limit)
       IN  IF verdict = "completed" /\ runner = "list" /\ ~Readable
           THEN Propagate
           ELSE /\ seen' = IF Accepts /\ ok THEN read ELSE None
                /\ report' = IF Accepts /\ ok THEN "accepted" ELSE "rejected"
                /\ Goto("end")
                /\ UNCHANGED verdict
    /\ UNCHANGED <<childVars, failed>> /\ Keep

-----------------------------------------------------------------------------
(* The vendor's processes and the clock *)

Environment == UNCHANGED <<runner, pc, failed, verdict, seen, report>>

ChildWrites(s) ==
    /\ child = "running" \/ helper
    /\ size[s] < MaxSize
    /\ size' = [size EXCEPT ![s] = @ + 1]
    /\ UNCHANGED <<child, success, helper, gone, exitSize, late>> /\ Environment

ChildForks ==
    /\ child = "running" /\ ~helper
    /\ helper' = TRUE
    /\ UNCHANGED <<child, success, size, gone, exitSize, late>> /\ Environment

HelperExits ==
    /\ helper
    /\ helper' = FALSE
    /\ UNCHANGED <<child, success, size, gone, exitSize, late>> /\ Environment

ChildUnlinks(s) ==
    /\ MayUnlink /\ gone = None
    /\ child = "running" \/ helper
    /\ gone' = s
    /\ UNCHANGED <<child, success, helper, size, exitSize, late>> /\ Environment

ChildExits ==
    /\ child = "running"
    /\ child' = "exited" /\ exitSize' = size["stdout"]
    /\ UNCHANGED <<success, helper, size, gone, late>> /\ Environment

DeadlinePasses ==
    /\ child # "none" /\ ~late
    /\ late' = TRUE
    /\ UNCHANGED childVars /\ Environment

Runner ==
    \/ Spawn \/ CheckSize \/ TryWait \/ Recheck \/ Kill \/ Reap \/ ReadOutput

\* A call on the child returns an error.
CallFails == TryWaitFails \/ KillFails \/ WaitFails

Vendor ==
    \/ \E s \in Streams : ChildWrites(s) \/ ChildUnlinks(s)
    \/ ChildForks \/ HelperExits \/ ChildExits

Next == Runner \/ CallFails \/ Vendor \/ DeadlinePasses

\* The poll sleeps 20 ms and goes on, and time passes; the child owes nothing, and
\* no call need fail.
Spec == Init /\ [][Next]_vars /\ WF_vars(Runner) /\ WF_vars(DeadlinePasses)

-----------------------------------------------------------------------------
(***************************************************************************)
(* The timeout and the output limit end the child: whatever it wrote,      *)
(* forked or removed, it has exited and been waited for when the caller    *)
(* gets its report.  The exceptions are failed calls.  A child that wait   *)
(* failed for is left as a zombie, and still runs only if kill failed too. *)
(* Any error of the list's poll, of measuring, try_wait or kill, leaves    *)
(* the child running without timeout and limit.                            *)
(***************************************************************************)
Ended ==
    \/ child \in {"none", "reaped"}
    \/ "wait" \in failed /\ (child = "exited" \/ "kill" \in failed)

ChildEnded ==
    report # None =>
        \/ Ended
        \/ runner = "list" /\ report = "error" /\ (gone # None \/ failed # {})

(***************************************************************************)
(* The parser of the inventory and of the list never sees a cut output:    *)
(* what is accepted is at least everything the child had written to stdout *)
(* when it exited, also if it wrote in the last moment, left a helper that *)
(* goes on writing, or removed the file that is measured.                  *)
(***************************************************************************)
AcceptedIsWhole ==
    report = "accepted" /\ runner # "probe" => seen >= exitSize

(***************************************************************************)
(* Every invocation reports, also if the child writes or hangs for ever.   *)
(* Only probe and inventory wait as long as a child they failed to kill.   *)
(***************************************************************************)
Reported == <>(report # None \/ (runner # "list" /\ "kill" \in failed))
=============================================================================

--------------------------- MODULE ReversibleFiles ---------------------------
(***************************************************************************)
(* What the file transactions of mnemo-store promise, without processes,   *)
(* backups, crashes or the steps inside a call: a target moves only        *)
(* between the two states one transaction names, a transaction commits     *)
(* with the new state in place, and it is rolled back with the old state   *)
(* in place.                                                               *)
(*                                                                         *)
(* The promise has one exception: a transaction that created its target    *)
(* may be closed as rolled back with the new state in place when the       *)
(* target could not be read, which the code takes for an absent file.      *)
(***************************************************************************)
EXTENDS Naturals

CONSTANTS Txs, Targets, FileState, PlanBytes, None

VARIABLES
    content,    \* content of every target
    txns,       \* the transactions opened so far
    edits,      \* how often the user has edited a target
    unseen      \* transactions being rolled back that could not read the target

Txn == [status: {"prepared", "committed", "rolled-back"},
        target: Targets, before: FileState, after: PlanBytes]

Init ==
    /\ content \in [Targets -> FileState]
    /\ txns = [x \in Txs |-> None]
    /\ edits = 0
    /\ unseen = {}

Opened(x) == txns[x] # None
Holds(x, state) == content[txns[x].target] = state
Closed(x) == txns[x].status = "rolled-back"
Mark(x, status) == txns' = [txns EXCEPT ![x].status = status]
Put(x, state) == content' = [content EXCEPT ![txns[x].target] = state]

Open(x, t, new) ==
    /\ ~Opened(x)
    /\ txns' = [txns EXCEPT ![x] = [status |-> "prepared", target |-> t,
                                    before |-> content[t], after |-> new]]
    /\ UNCHANGED <<content, edits, unseen>>

Install(x) ==
    /\ Opened(x) /\ txns[x].status = "prepared" /\ Holds(x, txns[x].before)
    /\ Put(x, txns[x].after)
    /\ UNCHANGED <<txns, edits, unseen>>

Settle(x) ==
    /\ Opened(x) /\ txns[x].status = "prepared" /\ Holds(x, txns[x].after)
    /\ Mark(x, "committed")
    /\ UNCHANGED <<content, edits, unseen>>

Restore(x) ==
    /\ Opened(x) /\ ~Closed(x) /\ Holds(x, txns[x].after)
    /\ Put(x, txns[x].before)
    /\ UNCHANGED <<txns, edits, unseen>>

Close(x) ==
    /\ Opened(x) /\ ~Closed(x) /\ Holds(x, txns[x].before)
    /\ Mark(x, "rolled-back")
    /\ UNCHANGED <<content, edits, unseen>>

\* The target of a transaction that found none cannot be read.
Miss(x) ==
    /\ Opened(x) /\ ~Closed(x) /\ txns[x].before = None
    /\ unseen' = unseen \union {x}
    /\ UNCHANGED <<content, txns, edits>>

\* It is closed whatever the target holds ...
Abandon(x) ==
    /\ x \in unseen /\ Opened(x) /\ ~Closed(x)
    /\ Mark(x, "rolled-back")
    /\ unseen' = unseen \ {x}
    /\ UNCHANGED <<content, edits>>

\* ... or an error stops the rollback, and the next one looks again.
LookAgain(x) ==
    /\ unseen' = unseen \ {x}
    /\ UNCHANGED <<content, txns, edits>>

UserEdit(t, c) ==
    /\ content' = [content EXCEPT ![t] = c]
    /\ edits' = edits + 1
    /\ UNCHANGED <<txns, unseen>>

Next ==
    \/ \E x \in Txs, t \in Targets, new \in PlanBytes : Open(x, t, new)
    \/ \E x \in Txs : Install(x) \/ Settle(x) \/ Restore(x) \/ Close(x)
    \/ \E x \in Txs : Miss(x) \/ Abandon(x) \/ LookAgain(x)
    \/ \E t \in Targets, c \in FileState : UserEdit(t, c)

Spec == Init /\ [][Next]_<<content, txns, edits, unseen>>
=============================================================================

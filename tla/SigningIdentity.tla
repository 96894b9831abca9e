--------------------------- MODULE SigningIdentity ---------------------------
(***************************************************************************)
(* load_or_create_signing_key of mnemo-store: every command that signs     *)
(* loads the device identity, and the first one creates it.  Processes     *)
(* race without a lock; the file is created, written and synced in         *)
(* separate steps, and a power loss undoes what was not synced.            *)
(* Permissions and the parent directory are left out.                      *)
(***************************************************************************)
EXTENDS Naturals, FiniteSets

CONSTANTS
    Procs,      \* processes that need the identity
    Keys,       \* seeds the random source may draw
    Torn,       \* a file with fewer than 32 bytes
    None,
    MaxFaults, MaxPower     \* errors and process crashes, power losses

ASSUME NoneIsNoKey == None \notin Keys \union {Torn} /\ Torn \notin Keys

VARIABLES
    content,        \* device-signing-key.bin
    contentSynced, entrySynced,     \* sync_all and sync_directory returned
    pc, seed,       \* of every process
    result,         \* what the last load returned to every process
    handed,         \* every key ever returned (history)
    early,          \* those another process read and no sync followed (history)
    faults, power

fileVars == <<content, contentSynced, entrySynced>>
boundVars == <<faults, power>>
keyVars == <<handed, early>>
vars == <<fileVars, pc, seed, result, keyVars, boundVars>>

PC == {"idle", "drawn", "exists", "created", "written", "synced"}

TypeOK ==
    /\ content \in Keys \union {Torn, None}
    /\ contentSynced \in BOOLEAN /\ entrySynced \in BOOLEAN
    /\ pc \in [Procs -> PC]
    /\ seed \in [Procs -> Keys \union {None}]
    /\ result \in [Procs -> Keys \union {None, "err"}]
    /\ handed \subseteq Keys /\ early \subseteq handed
    /\ faults \in Nat /\ power \in Nat

Init ==
    /\ content = None /\ contentSynced = FALSE /\ entrySynced = FALSE
    /\ pc = [p \in Procs |-> "idle"]
    /\ seed = [p \in Procs |-> None]
    /\ result = [p \in Procs |-> None]
    /\ handed = {} /\ early = {}
    /\ faults = 0 /\ power = 0

-----------------------------------------------------------------------------
Goto(p, l) == pc' = [pc EXCEPT ![p] = l]

Hand(p, k) ==
    /\ result' = [result EXCEPT ![p] = k]
    /\ handed' = handed \union {k}
    /\ seed' = [seed EXCEPT ![p] = None]
    /\ Goto(p, "idle")

Refuse(p) ==
    /\ result' = [result EXCEPT ![p] = "err"]
    /\ seed' = [seed EXCEPT ![p] = None]
    /\ Goto(p, "idle")
    /\ UNCHANGED handed

Synced == contentSynced /\ entrySynced

\* Mutant of Parse: the length of the file is not checked.
ParseAny(p) == Hand(p, content) /\ UNCHANGED early

\* signing_key_from_bytes of what the file holds now.
Parse(p) ==
    IF content = Torn
    THEN Refuse(p) /\ UNCHANGED early
    ELSE /\ Hand(p, content)
         /\ early' = IF Synced THEN early ELSE early \union {content}

Load(p) ==
    /\ pc[p] = "idle" /\ result[p] \notin Keys
    /\ IF content = None
       THEN /\ \E k \in Keys : seed' = [seed EXCEPT ![p] = k]
            /\ Goto(p, "drawn")
            /\ UNCHANGED <<result, keyVars>>
       ELSE Parse(p)
    /\ UNCHANGED <<fileVars, boundVars>>

\* Mutant of Create: an existing file is truncated instead of refused.
CreateTruncated(p) ==
    /\ pc[p] = "drawn"
    /\ content' = Torn /\ contentSynced' = FALSE
    /\ Goto(p, "created")
    /\ UNCHANGED <<entrySynced, seed, result, keyVars, boundVars>>

\* create_new: exactly one process creates the file.
Create(p) ==
    /\ pc[p] = "drawn"
    /\ IF content = None
       THEN content' = Torn /\ Goto(p, "created")
       ELSE Goto(p, "exists") /\ UNCHANGED content
    /\ UNCHANGED <<contentSynced, entrySynced, seed, result, keyVars, boundVars>>

\* Mutant of Reread: the creation is tried again.
RetryCreate(p) ==
    /\ pc[p] = "exists"
    /\ Goto(p, "drawn")
    /\ UNCHANGED <<fileVars, seed, result, keyVars, boundVars>>

Reread(p) ==
    /\ pc[p] = "exists"
    /\ Parse(p)
    /\ UNCHANGED <<fileVars, boundVars>>

WriteSeed(p) ==
    /\ pc[p] = "created"
    /\ content' = seed[p]
    /\ Goto(p, "written")
    /\ UNCHANGED <<contentSynced, entrySynced, seed, result, keyVars, boundVars>>

\* Mutant of SyncFile: the key is used as soon as it is written.
UseUnsynced(p) ==
    /\ pc[p] = "written"
    /\ Hand(p, seed[p])
    /\ UNCHANGED <<fileVars, early, boundVars>>

SyncFile(p) ==
    /\ pc[p] = "written"
    /\ contentSynced' = TRUE
    /\ Goto(p, "synced")
    /\ UNCHANGED <<content, entrySynced, seed, result, keyVars, boundVars>>

SyncDirectory(p) ==
    /\ pc[p] = "synced"
    /\ entrySynced' = TRUE
    /\ Hand(p, seed[p])
    /\ early' = early \ {content}
    /\ UNCHANGED <<content, contentSynced, boundVars>>

-----------------------------------------------------------------------------
\* An error or a crash of one process: what it wrote stays.
Fail(p) ==
    /\ pc[p] # "idle" /\ faults < MaxFaults
    /\ faults' = faults + 1
    /\ Refuse(p)
    /\ UNCHANGED <<fileVars, early, power>>

\* What may be on disk after the machine stopped.
Survives(after) ==
    \/ after = content
    \/ after = None /\ ~entrySynced
    \/ after = Torn /\ content # None /\ ~contentSynced

PowerLoss ==
    /\ power < MaxPower
    /\ power' = power + 1
    /\ \E after \in Keys \union {Torn, None} :
        /\ Survives(after)
        /\ content' = after
        /\ entrySynced' = (after # None) /\ contentSynced' = (after # None)
    /\ pc' = [p \in Procs |-> "idle"]
    /\ seed' = [p \in Procs |-> None]
    /\ result' = [p \in Procs |-> None]
    /\ UNCHANGED <<keyVars, faults>>

Step(p) ==
    \/ Load(p) \/ Create(p) \/ Reread(p) \/ WriteSeed(p)
    \/ SyncFile(p) \/ SyncDirectory(p)

Next == (\E p \in Procs : Step(p) \/ Fail(p)) \/ PowerLoss

Spec == Init /\ [][Next]_vars

\* Nothing in a load waits, and a command that failed is run again.
FairSpec == Spec /\ \A p \in Procs : WF_vars(Step(p))

-----------------------------------------------------------------------------
(***************************************************************************)
(* A key that was ever handed out is the one the file holds: no package is *)
(* signed with an identity that the next command no longer has, whatever   *)
(* the order of the first commands and wherever one of them stops.  Only a *)
(* power loss takes a key away, and only one that another process read     *)
(* and that its creator had not synced yet.                                *)
(***************************************************************************)
HandedKeysLast ==
    /\ power = 0 => handed \subseteq {content}
    /\ handed \ early \subseteq {content}

\* The creator of the file stopped before it wrote the seed.  Nothing repairs
\* the file then: every later load refuses it.
Abandoned == content = Torn /\ \A p \in Procs : pc[p] # "created"

(***************************************************************************)
(* "Load or create the local Ed25519 device identity": a process that      *)
(* keeps trying gets a key, also if it read the file half-written, unless  *)
(* a creator stopped half-way for good.                                    *)
(***************************************************************************)
EveryoneIsServed == \A p \in Procs : <>(result[p] \in Keys \/ Abandoned)
=============================================================================

----------------------------- MODULE Integration -----------------------------
(***************************************************************************)
(* The integration commands: mnemo installs its own Skill for a host as a  *)
(* file transaction of its own operation, and uninstalls it by removing    *)
(* the file and forgetting its owner.  Undo and recovery are those of      *)
(* Migration.                                                              *)
(*                                                                         *)
(* Uninstall hashes the file, asks the ledger for its owner and removes    *)
(* the file by name, in three steps: the user may save the Skill between   *)
(* them, and the ledger may wait for its lock.                             *)
(***************************************************************************)
EXTENDS Migration

\* The Skill text compiled into the running version of mnemo.
Templates == PlanBytes

-----------------------------------------------------------------------------
(* install *)

InstallStart(p, o, t, template) ==
    /\ Free(p)
    /\ files[t] = None
    /\ L!BeginOperation(o)
    /\ Begin(p, "install", o,
             {[target |-> t, expected |-> None, new |-> template]}, {}, "next")
    /\ UNCHANGED <<storeVars, origin, stops>>

InstallWrite(p, w, x) ==
    /\ Runs(p, "install", "next")
    /\ w \in cli[p].plan /\ NextTx(x)
    /\ \/ /\ FT!ApplyRead(p, x, w.target, w.expected, w.new)
          /\ origin' = [origin EXCEPT ![x] = cli[p].op]
       \/ /\ FT!ApplyStale(p, w.target, w.expected, w.new)
          /\ UNCHANGED origin
    /\ cli' = [cli EXCEPT ![p].pc = "call", ![p].plan = @ \ {w}]
    /\ UNCHANGED <<ledgerVars, stops>>

\* The error leaves the operation running.
InstallError(p) ==
    /\ Runs(p, "install", "call") /\ CallIs(p, "err")
    /\ FT!Return(p)
    /\ Exit(p)
    /\ UNCHANGED <<ledgerVars, origin, stops>>

InstallRecord(p) ==
    /\ Runs(p, "install", "call") /\ CallIs(p, "done")
    /\ RecordCall(p)
    /\ FT!Return(p)
    /\ Proceed(p, "next")
    /\ UNCHANGED <<origin, stops>>

InstallRecordError(p) ==
    /\ Runs(p, "install", "call") /\ CallIs(p, "done")
    /\ LedgerFails
    /\ RecordCall(p) \/ UNCHANGED ledgerVars
    /\ FT!Return(p)
    /\ cli' = [cli EXCEPT ![p].pc = "rollback", ![p].txs = {calls[p].tx}]
    /\ UNCHANGED origin

InstallUndo(p) ==
    /\ Runs(p, "install", "rollback")
    /\ \E x \in cli[p].txs : FT!UndoCheck(p, x, "committed")
    /\ Proceed(p, "reverting")
    /\ UNCHANGED <<ledgerVars, origin, stops>>

\* Only the file is reversed, and whether that succeeded is not asked.
InstallUndone(p) ==
    /\ Runs(p, "install", "reverting") /\ FT!Return(p)
    /\ \/ L!FinishOperation(cli[p].op, "rolled-back") /\ UNCHANGED stops
       \/ LedgerFails /\ UNCHANGED ledgerVars
    /\ Exit(p)
    /\ UNCHANGED origin

InstallEnd(p) ==
    /\ Runs(p, "install", "next") /\ cli[p].plan = {}
    /\ \/ L!FinishOperation(cli[p].op, "succeeded") /\ UNCHANGED stops
       \/ LedgerFails /\ UNCHANGED ledgerVars
    /\ Exit(p)
    /\ UNCHANGED <<storeVars, origin>>

-----------------------------------------------------------------------------
(* uninstall *)

\* integration_status: the file is hashed once, and not read again.
UninstallRead(p, t, template) ==
    /\ Free(p)
    /\ files[t] # None
    /\ Begin(p, "uninstall", None,
             {[target |-> t, expected |-> files[t], new |-> template]}, {}, "hashed")
    /\ UNCHANGED <<storeVars, ledgerVars, origin, stops>>

\* Mutant of Uninstallable: a Skill the user edited is removed too.
Managed(w) == managed[w.target] # None

\* The hash is that of the Skill mnemo installed and this version would install.
Uninstallable(w) ==
    /\ managed[w.target] # None /\ w.expected = managed[w.target].hash
    /\ w.expected = w.new

UninstallCheck(p) ==
    /\ Runs(p, "uninstall", "hashed")
    /\ \E w \in cli[p].plan :
            IF Uninstallable(w) THEN Proceed(p, "checked") ELSE Exit(p)
    /\ UNCHANGED <<storeVars, ledgerVars, origin, stops>>

\* fs::remove_file: whatever the path holds by now.
UninstallRemove(p) ==
    /\ Runs(p, "uninstall", "checked")
    /\ \E w \in cli[p].plan :
            /\ files[w.target] # None
            /\ files' = [files EXCEPT ![w.target] = None]
    /\ Proceed(p, "removed")
    /\ UNCHANGED <<journals, backups, calls, user, edits, faults, damage,
                   ledgerVars, origin, stops>>

\* The file is gone already or cannot be removed: an error, and the owner stays.
UninstallError(p) ==
    /\ Runs(p, "uninstall", "checked")
    /\ Exit(p)
    /\ UNCHANGED <<storeVars, ledgerVars, origin, stops>>

\* Mutant of UninstallForget: the ownership row is left behind.
UninstallExit(p) ==
    /\ Runs(p, "uninstall", "removed")
    /\ Exit(p)
    /\ UNCHANGED <<storeVars, ledgerVars, origin, stops>>

UninstallForget(p) ==
    /\ Runs(p, "uninstall", "removed")
    /\ \/ /\ \E w \in cli[p].plan : L!RemoveManagedObject(w.target)
          /\ UNCHANGED stops
       \/ LedgerFails /\ UNCHANGED ledgerVars
    /\ Exit(p)
    /\ UNCHANGED <<storeVars, origin>>

Install(p) ==
    \/ \E o \in Ops, t \in Targets, template \in Templates :
            InstallStart(p, o, t, template)
    \/ \E x \in Txs : ~Free(p) /\ \E w \in cli[p].plan : InstallWrite(p, w, x)
    \/ InstallError(p) \/ InstallRecord(p) \/ InstallRecordError(p)
    \/ InstallUndo(p) \/ InstallUndone(p) \/ InstallEnd(p)

Uninstall(p) ==
    \/ \E t \in Targets, template \in Templates : UninstallRead(p, t, template)
    \/ UninstallCheck(p) \/ UninstallRemove(p) \/ UninstallError(p)
    \/ UninstallForget(p)

IntegrationNext ==
    \/ \E p \in Procs :
            Install(p) \/ Uninstall(p) \/ Undo(p) \/ Recover(p) \/ Crash(p)
    \/ InStore /\ \E p \in Procs : FT!Step(p) \/ FT!IoError(p) \/ FT!TargetUnseen(p)
    \/ InStore /\ \E t \in Targets, c \in FT!FileState : FT!Edit(t, c)

IntegrationSpec == Init /\ [][IntegrationNext]_vars

-----------------------------------------------------------------------------
(* Safety *)

(***************************************************************************)
(* A Skill the user wrote or edited is never removed or replaced: mnemo    *)
(* installs only where there is nothing and uninstalls only what it        *)
(* installed.  One save is lost: the file an uninstall removes is not read *)
(* again, so a Skill saved after the uninstall hashed it goes with it,     *)
(* where README.md:112 says "user-edited or unmanaged files are            *)
(* preserved".                                                             *)
(***************************************************************************)
SavedSinceHashed(p, t) ==
    /\ Runs(p, "uninstall", "checked")
    /\ \E w \in cli[p].plan : w.target = t /\ w.expected # files[t]

UserSkillKept ==
    [][\A t \in Targets :
        files[t] \in UserBytes /\ files'[t] # files[t] /\ edits' = edits
            => \E p \in Procs : SavedSinceHashed(p, t)]_vars

(***************************************************************************)
(* Ownership without a file is never silent: if mnemo owns a Skill that is *)
(* not there and nobody edited the path, a command was stopped half-way,   *)
(* or a journal was rolled back whose ledger row still stands.             *)
(***************************************************************************)
HalfUndone(x) == JournalIs(x, "rolled-back") /\ L!Live(x)

OwnedMeansInstalled ==
    \A t \in Targets :
        (/\ managed[t] # None /\ files[t] = None
         /\ edits = 0 /\ \A p \in Procs : Free(p))
        => stops + faults > 0 \/ \E x \in Txs : HalfUndone(x)

=============================================================================

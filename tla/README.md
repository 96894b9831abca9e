# MnemoPort in TLA+

MnemoPort moves an agent's memory (rules, Skills, MCP servers, prompts) from one
coding product to another. The `mnemo` command reads a product's files, packages
them, plans what to write into another product's files, applies the plan and can
undo it. It is run by hand: each command is a short process, several may run at
once, nothing is locked, and a command may be stopped anywhere.

This directory models the part of the program where order, failure and
concurrency matter: the ownership ledger, the journaled file transactions and
their recovery, the commands built on the two, the way of a user's files through
export, package and plan, the planning of a migration, the trust in signers, the
creation of the device identity and the bounded runs of vendor executables. The
models are translated from the code; `PROJECT.json` maps each definition to its lines.

## 1. The system

Paths are relative to `src/crates`. "Store" is `mnemo-store/src/lib.rs`, "core"
`mnemo-core/src/lib.rs`, "CLI" `mnemo-cli/src/main.rs`, "common"
`adapters/common/src/lib.rs`.

| Component | State it keeps | Operations | What makes it correct |
|---|---|---|---|
| Operation ledger (Store 50-450) | SQLite: `operations`, `transactions` with their ownership change, `managed_objects` | `begin_operation`, `finish_operation`, `record_transaction_with_managed_object`, `rollback_transaction_and_managed_object`, `remove_managed_object` | An owner was never undone; ownership is restored exactly once, in any order of rollbacks |
| File transactions (Store 609-1160) | per transaction `journal.json` and `before.bin`; the target files | `apply_file`, `undo_file` | The user's bytes survive; a target is always explained by a journal; a replacement is atomic and reversible |
| Recovery (Store 838-960) | none of its own: journals without a ledger row | `scan_recovery_candidates`, `rollback_recoverable_transaction` | Everything interrupted can be closed; nothing recorded is touched |
| Migration commands (CLI 1096-1110, 1365-1500) | an operation in the ledger, committed transactions in memory | `apply` with `rollback_all`, `undo`, `recovery rollback` | What a status or an ownership row says is true of the files |
| Integration commands (CLI 1207-1310) | the installed Skill, its row and owner | `integration install`, `uninstall` | The user's Skill is never touched, but for a save an uninstall has not seen; ownership without a file is explained |
| Device identity (Store 1181-1220) | `device-signing-key.bin` | `load_or_create_signing_key` | One identity, which lasts |
| Bounded vendor commands (common 735-830, 985-1181; core 1060-1165) | a child process and its output files | version probe, plugin inventory, native discovery list | The child ends unless a system call fails; a cut output is never parsed; a report is always made |
| Planner (core 140-302, 433-661, common 245-455, CLI 657-726, 983-1080) | files of the assets prepared so far; the saved plan | rendering, MCP merge, deduplication, decision per target, comparison of plans, `verify` | No asset is lost silently, nothing of the user is replaced, planning again finds nothing to do |
| Trusted keys (Store 451-606, CLI 700-740, 794-836) | SQLite `trusted_keys` | `trust add`, `revoke`, `rotate`; the check of `apply` | A rotation moves trust, never multiplies or loses it |
| Adapters (`adapters/*`) | none; each reads the user's files and names the files of its product | `extract_at`, `render_target`, `render_mcp_target` | What one product reads arrives where the other finds it |
| Bundle and workspaces (core 305-432, 1295-1760) | assets with their objects, workspace descriptors, the workspace map | `extract_workspaces`, `package_assets_with_workspaces`, `unpack_bundle`, `resolve_workspace_mappings` | No asset takes the place of another; both sides validate alike; assets of nested workspaces do not replace each other |
| Package format (`mnemo-package`) | a signed archive, wrapped or not | `build`, `verify`, encryption | What opens was packaged under its signature |
| Security scan (`mnemo-security`) | none | `scan_and_redact`, portable paths | Nothing that runs, is not text or scans as a credential is applied unreviewed |
| Handoff (core 1250-1295) | a capsule | `create_handoff` | Like any asset |
| Plugin inventory parsers (common 1183-1465) | none | parse the list of a product | Reject what they do not know |
| Schema, CLI output, test kit | none | | |

How they interact. `apply` asks for the trust of the signer, plans again and
compares, begins an operation, and then for each file calls `apply_file` and
records the transaction in the ledger. The journal and the ledger are durable
**separately**: SQLite's transaction covers rows and ownership, the file system
holds journal, backup and target, and a command may stop, or get an error, between
any two of them. Undo reverses the file first and the ledger second. Recovery looks for
journals the ledger does not know. Nothing calls back and nothing waits for
another process, so there are no deadlocks; what is hard is interleaving without
locks, stopping half-way, and comparing states by content hash alone.

## 2. Modules

| Module | Models | State and actions |
|---|---|---|
| `Ledger` | the SQLite tables | `operations`, `transactions`, `changes` (the `managed_change` of a row), `managed`; one action per statement group that SQLite commits together |
| `LedgerProofs` | | inductive invariant `LedgerInv` and its theorems |
| `FileTransaction` | `apply_file`, `undo_file`, recovery of one transaction | `files`, `journals`, `backups`, and `calls`: per process the call it is in with the journal in memory and the last checkpoint. A durable write is a step (backup, journal, rename, journal). `IoError`, `TargetUnseen` (a read that fails and counts as an absent file), `Crash`, `Edit` and `DamageBackup` are the environment |
| `FileTransactionProofs` | | `FileInv`, `KeepInv`, `ReverseInv` and their theorems, the refinement of `ReversibleFiles` among them |
| `ReversibleFiles` | what file transactions promise | abstract: a target moves only between the two states a transaction names, and a transaction is closed in one of them, unless it created its target and could not see it |
| `Migration` | the commands apply, undo, recovery | instantiates `FileTransaction` and `Ledger`; `cli` is the program counter of each command, with the loop variables of `apply_prepared`, `rollback_all` and `undo_migration` |
| `Integration` | install, uninstall | extends `Migration`, whose undo and recovery also act on installations; an uninstall hashes the file, asks the ledger, removes the file and forgets the owner in four steps |
| `SigningIdentity` | the key file | `content`, what was synced, and a program counter per process |
| `VendorCommand` | three runners of vendor executables | program counter of the poll loop, the child, a helper it leaves behind, the sizes of the two output files, the deadline, and the system calls that failed |
| `MigrationProofs` | | for `Migration` and `Integration`: inductive invariants `MigrationInv`, `SkillInv` and, for one command at a time, `OutcomeInv`, `OwnInv` and `InstalledInv`, and their theorems; the theorems of `FileTransactionProofs` carried over |
| `SigningIdentityProofs`, `VendorCommandProofs` | | inductive invariants and theorems of the two |
| `TrustedKeys` | `trust add`, `revoke`, `rotate`, and the check of `apply` | `trusted`, SQLite's write `lock`, and per process the step, the arguments, the row it read and whether its snapshot `moved`; one action per statement or commit. `TimeOut`, `Crash` and `LedgerCommit` are the environment; `decision` is history |
| `TrustedKeysProofs` | | inductive invariant `TrustInv` and its theorems |
| `Adapters` | the four products | operators only: the looks of each collector in their order, and the place of each rendered asset |
| `Collect` | `extract_workspaces` | extends `Adapters`; `disk`, the pass, the look, what is still `todo`, the Skill being read, and the assets; one action per look, per file read and per pass. `Edit` is the user |
| `Bundle` | validation, packaging, unpacking, workspace maps | extends `Collect`; operators only |
| `Package` | `build`, `verify`, sealing and opening | operators only: an archive is a set of numbered records |
| `Exchange` | `export`, `handoff`, `inspect`, `plan` up to the rendered files | extends `Bundle` and `Package`; the `file` at the output path, the `opened` bundle, the `planned` files. `Damage`, `WriteError` and `OtherVersion` are the transport, the disk and another version of the program |
| `ExchangeProofs` | | inductive invariants `Inv` over a file from the collector to the plan and `CalmInv` over an export nobody disturbs, and their theorems |
| `Planner` | `plan`, `apply` and `verify` up to the decisions they take, with native discovery | `prepared` and `skipped` while assets are rendered, `observed` hashes, `known` owners of the second preparation, the `saved` plan, what `verify` has `copied` for the product; one action per read of a target or of the ledger, per asset, per copy and per end of a command; `Edit`, `OtherApply`, `OtherUndo` are everyone else |
| `PlannerProofs` | | inductive invariants `Inv` over the two preparations and `ConvInv` over what an apply leaves, and their theorems |
| `MCLedger`, `MCFileTransaction`, `MCMigration`, `MCIntegration`, `MCPlanner`, `MCExchange` | | symmetry sets, the packages of `Planner`, the scenes of `Exchange` |

Names follow the code: a checkpoint is one of `ApplyCheckpoint`, a disposition
one of `RecoveryDisposition`, statuses are those of the schema.

Abstractions, and why they are sound for the properties:

- SHA-256 is injective, so a content stands for its hash. Users and plans write
  different bytes (`UserAndPlanDiffer`); a plan may write the same bytes twice.
- Planning and `begin_operation` are one step: apply plans again inside the same
  process and compares. The window in which a file may change after planning is
  there, because `apply_file` reads each file in a step of its own.
- `Migration` plans with the `Preserve` policy, the only one the CLI uses; the
  other two have no caller. One write per target, as deduplication in `Planner` has it.
- `Planner` takes a document for its named entries and its formatting (a JSON
  document is formatted anew by each merge, TOML keeps its bytes), and a text for
  one entry. Its `ApplyPrepared` writes every file in one step or none, because
  `Migration` has the journals, the failures and the rollback of that step. The
  package, the product and its version stay the same between plan, apply and
  verify, so the comparisons of those in `verify` always succeed.
- In `Planner` `verify` compares the targets, copies the user's document (`UserToml`), copies the workspace's
  (`WorkspaceToml`) and hears the product's list in four steps, and everyone else acts in between. The list may be
  any part of the copy; `VendorCommand` has the child that makes it. Only Codex servers are asked for: the Skill list
  of Qoder has the same protocol. A read that fails counts as an absent file (core 531, 631): for a reader that is as if the file
  had been removed, so `Edit` stands for it.
- In `Adapters`, `Collect` and `Exchange` a text is its value and its *marks*: `secret` (redacted), `active`,
  `binary` (not UTF-8), `private` (an e-mail address, disposition "review"), `key` (the body of a private key, of which the scanner knows
  only the first line), `residue` (the redaction leaves something that scans as a credential) and `spanning` (the JSON
  form scans as a credential although the text does not). Overlapping findings become one mark. A
  document is its set of MCP servers. A path is a root and its segments. The directories of the exporting side are apart from each
  other; a workspace is mapped to any directory, which may lie in another or be a root of the product. Names on disk are portable and
  there are no links. Sizes, headers and settings
  files that are only inventoried are left out, and `tree_size` is part of `EnterSkill`.
- In `Package` a digest is the content and a signature is the key with what it signs: SHA-256
  and ed25519 are trusted. The order of archive records follows the paths in the code and
  is any order in the model. age and zstd give back what they were given or fail.
- `TrustedKeys` has a public key stand for its fingerprint. SQLite in WAL mode is modelled
  from its documentation: a read begins a snapshot, the first write takes the lock or
  fails when the snapshot is not the latest, a statement outside a transaction commits alone.
- Transaction ids are numbered in order of creation; the code orders them by time.
- Left out because no command reaches them: `record_transaction`,
  `set_transaction_status`, `record_managed_object`, `undo_file` with `force`,
  `rollback_prepared_transaction`.
- Left out as data: permissions, symlink checks, temporary files, timestamps,
  JSON, wording. A torn `before.bin` is left out because no journal names it.

## 3. Properties and runs

Each property is named in the module with the code behaviour it is about. For each,
`PROJECT.json` names a mutant of the code that breaks it.

### Runs that pass

| Run | Question | Bounds |
|---|---|---|
| `ledger` | Do records, rollbacks and removals in any order keep `OwnerStands`, `PredecessorStands`, `OwnershipIsAChain`? | 3 operations, 4 transactions, 2 targets, 1 hash |
| `file_concurrent` | Two processes without a lock: `BackupsComplete`, `TargetsExplained`, `UserBytesKept` | 2 processes, 2 transactions, 1 target, 2 user and 2 plan contents; 1 edit, 1 I/O error or crash, 1 damaged backup |
| `migration_one` | One command at a time: `OutcomesAreTrue`, `OwnersHoldTheirBytes`, `RowsFollowJournals` | 2 operations, 3 transactions, 2 targets, 1 I/O error or crash inside a call, 1 ledger error or crash between calls, 1 edit |
| `migration_recovery` | `RecoveryCloses` under fairness, and `FilesAreReversible`: the files change as `ReversibleFiles` says | 2 operations, 2 transactions, 2 faults, 1 stop, 1 edit, 1 damage |
| `integration` | `UserSkillKept`, `OwnedMeansInstalled` | 3 operations, 2 versions of mnemo, 1 edit between any two steps of a command, 1 fault, 1 stop |
| `identity` | `HandedKeysLast`, `EveryoneIsServed` | 3 processes, 2 keys, 1 error or crash, 1 power loss |
| `trust` | `OneKeyPerDecision`, `DecisionsEndByRevocation`, and `EveryCommandEnds` under fairness | 2 commands at once, 3 keys, 1 label, 3 decisions, 1 crash, any number of other commits |
| `exchange` | `OpenedIsPublished`, `UndamagedOpens`, `CleanExports`, `OncePerSource`, `CredentialsAndCodeHeldBack`, `AssetsArrive` | scenes: every look of every collector planned for every platform; two workspaces and a Skill under two edits; a package with two faults on its way, in the clear and wrapped; assets that meet in a file; two workspaces mapped apart, one into the other, and into a root of the product; texts with an e-mail address and a private key; what export refuses, over the command line and over files; packages at and above the limit; capsules |
| `planner` | `EveryAssetAccounted`, `Converges`, `UserContentStays`, `ServersStay`, `NoFalseAlarm` | packages of one or two assets (servers that differ, agree or collide, one in quarantine, equal and different texts) for a JSON document and two TOML documents (a server in the user's and the workspace's scope) that may be absent, foreign or hold an entry; 2 edits and 1 step of another command anywhere |
| `vendor` | `ChildEnded`, `AcceptedIsWhole`, `Reported` for each runner | limit 2, up to 4 units per stream: at, below and above the limit, with a stream that alone exceeds it; `try_wait`, `kill` and `wait` may fail |

Why the bounds are enough. Two transactions of one target are needed to have an owner
replaced and restored, three to have a chain of them rolled back in another order, and four let
a chain and a removal meet; the ledger run has four. The file protocol
relates one target to its transactions, and transactions meet only on a common
target, so two processes and two transactions on one target meet in every way two calls can; the
theorems lift both to any number. Plans with two writes are needed for a rollback
of one file after a failure of another, and `migration_one` has two targets and a
transaction to spare for a second command. One fault of each kind is enough to stop
a command anywhere; recovery itself may be stopped too, hence two faults in
`migration_recovery`. Two assets meet on a target in every way a pair can, and
two edits are enough to change a file and change it back, which is how a check of a hash
is passed with stale bytes; a third edit can hit plan and apply alike (see below). `exchange` puts each question in a scene of its own, because a place, a platform and a
fault do not depend on each other beyond what one scene has; two faults let
an edit be taken back, and let a write error be followed by a second attempt or a wrapped file
be damaged twice. Trust is handed on along one key at a time: three keys give a rotation chain and two
rotations of one key to different replacements, and two commands meet in every way a statement of one can
fall between two of the other. Three processes let one create the identity while one has lost the
race and one reads.

`CHECK_DEADLOCK FALSE` stands in each cfg but that of `trust`: the bounded environment and a
finite set of ids make each model stop, as a machine on which nobody runs another
command does.

### Runs that find a deviation

Each checks a sentence of the documentation that the code does not keep.

- `undo_same_bytes`: "Undo reverses the managed-object ownership change together
  with the transaction" (`docs/architecture.md:28`). Migration 1 installs bytes A,
  migration 2 installs B, migration 3 installs A again. Undoing 1 passes the content check,
  restores the file and rolls back its journal; then the ledger refuses, because 3 owns the target.
- `recovery_race`: "A committed journal already present in the ledger is never
  treated as an orphan" (Store 884-886). Recovery reads the ledger once and acts later;
  an apply that is still running records the transaction in between.

### Deviations known and not run

Observed with the same models, and kept out of the runs for lack of a sentence
that says otherwise, or because a passing property names the exception:

- Recovery goes by content hash: an import is interrupted before its row is recorded and
  later repeated with success; the file is now owned by the second operation, and
  recovery of the first removes it, because the hash fits (`Unsettled`, the reversed
  journal without a row, in `OwnersHoldTheirBytes`).
- Native discovery after several MCP servers were merged into one document: the prepared
  file gets a combined id (core 485), `expected_codex_mcp_names` (core 917) finds no asset of that id,
  expects nothing, and `verify --level l1` reports `all_assets_discovered` whatever the product
  lists. `docs/product-probes.md:66` says "Structured JSON contains every expected migrated
  MCP name" (line 65), which is not so for these. It is an effect on a report alone, by one comparison, so no property is stated.
- Native discovery compares names: a server of the same name in the other `config.toml` of the
  product counts as found. A change between the comparison of the targets and the copies is reported as a missing server.
- `apply` asks for the trust of the signer (CLI 714) and then plans and writes. A revocation in between does not stop it.
  `TrustedKeys` has the two steps; no property is stated, because the code promises no more than the check.
- `uninstall` hashes the Skill (CLI 1258), opens the ledger and waits for it, compares, and removes the file by name (1294). A Skill
  saved in between is removed and in no backup, where `README.md:112` says "user-edited or unmanaged files are preserved"
  (`SavedSinceHashed` in `UserSkillKept`).
- A target that cannot be read counts as absent (Store 939-945, and `exists` at 1145). Undo and recovery of a transaction that created
  its target then close the journal over the new file, and undo goes on to the ledger, against the sentence of `docs/architecture.md:28` quoted above
  (`Abandoned` in `OwnersHoldTheirBytes`, `unseen` in `ReversibleFiles`).
- Redaction is not final: of `https://ghp_...@host` it makes `https://<redacted:provider-token>@host`, which the rule
  `credential-url` finds when the packager scans again (core 1742-1754). The packager also scans the JSON form of a payload (core 1682-1695), in
  which a line break is no space, and the file names of a Skill. Export then fails as a whole over a file the collectors took
  (`residue`, `spanning` and `SecretNames` in `Accepted`).
- An e-mail address is found with disposition "review" (security 137-142) and nothing asks for one: the text is planned automatically. Of a
  private key, disposition "exclude", the first line is redacted and the body stays (88-94, 182-196).
- `build` counts neither entries nor bytes and `verify` does, so a package above the limits is
  written and nothing opens it (`TooLarge` in `UndamagedOpens`).
- A Skill is read file by file and may be of two moments when the user saves in between; `SKILL.md` may be gone
  after the walk was decided, and the Skill is packaged without it (the exception in `Found`).
- Cursor's user MCP document and handoffs are written but no collector reads them
  (exceptions in `Found`), and a user Skill for Cursor is found only when the configuration
  root is the default.
- Two Skills whose names become the same portable name are merged file by file; the
  second is reported only if a file of both differs.
- One MCP server whose name makes no portable locator fails the whole export.
- A file saved between `apply_file`'s hash check (Store 740) and its rename (787)
  is overwritten and in no backup. Set `RacingEdits = TRUE` in
  `FileConcurrent.cfg` to see it; `UserBytesKept` is claimed for `FALSE`.
- A crash of undo between journal and ledger leaves a committed row and an owner, and no
  command repairs it (`UndoneTogether` with `MaxStops = 1`). `OwnersHoldTheirBytes`
  names it in `Unsettled`, and `Restoring` the crash before the journal is saved.
- The comment "Preconditions checked under the target lock" (`mnemo-schema` 712) has
  no lock behind it; the first item is what follows from that.
- A user who adds an MCP server between the merge and the hash, in plan and again
  in apply, loses it although the plan was approved and compared: the exception in
  `ServersStay`. Without it, TLC finds this with `MaxEdits = 3`.
- An undo that stops at a drifted file cannot be resumed: it would stop at the files
  already undone. Recovery never writes the ledger, so the operation of an interrupted
  apply stays `running`.
- The executable may be replaced between the version probe that admits it and the inventory
  command whose evidence names that version (common 922); an error before that command runs leaves an empty scratch directory.
- An installation whose record commits but reports an error is finished as rolled
  back although its row stands, and whether its undo succeeded is not asked.
- Nothing repairs a key file whose creator stopped before writing 32 bytes
  (`Abandoned` in `EveryoneIsServed`), and a power loss may take back a key that
  another process read before it was synced (`early` in `HandedKeysLast`).
- The native discovery list returns errors of measuring, `try_wait` and `kill` with `?` and leaves its child
  running; the probe and the inventory ignore errors of `kill` and `wait`, and wait as long as a child they could not kill runs
  (the exceptions in `ChildEnded` and `Reported`).

### Fairness

- `Migration!FairSpec`: weak fairness of each command's own steps. A command never
  waits for another, so unless it crashes (no fairness is asked of crashes) it runs on.
  Strong fairness of starting recovery of each listed transaction is the
  operator's part: recovery is a command someone has to run, and the property is what the
  code owes an operator who keeps running it.
- `SigningIdentity!FairSpec`: weak fairness of the steps of a load, which never waits; a
  load that failed is run again by the next command that signs.
- `TrustedKeys!FairSpec`: weak fairness of what a command does next. A statement that finds the
  lock taken gets it or times out after SQLite's busy timeout, so it never waits for ever.
- `VendorCommand!Spec`: weak fairness of the runner, whose poll sleeps 20 ms and goes on,
  and of the deadline, since time passes. Nothing is assumed of the child.

## 4. What is proved

All theorems are checked by TLAPS for every value of the constants, under the
named assumptions of the modules (the null value is no value, user and plan bytes
differ, bounds are natural numbers).

`LedgerProofs`. `LedgerInv` strengthens the three ownership properties with `RowsAreWhole`
(a row and its change are written together; the replaced owner is another
operation, because the code refuses a target the operation already owns) and
`OneTransactionPerTarget`. Without them a rollback could restore an owner that two
standing transactions replaced. Recording, rolling back and removing are one lemma each;
theorems `LedgerTypes`, `OwnersStand`, `PredecessorsStand`, `ChainOfOwners`.

`FileTransactionProofs`. `FileInv` says of each call in progress what is on disk
at its checkpoint (`CallOK`), that a transaction id is used by one new call, that
backups are complete and targets explained. The steps fall into kinds (a call
starts, moves, writes its journal, writes its target, returns; the user edits, a backup is damaged), one
lemma each. `KeepInv` adds that a call about to overwrite a target has, or is about
to keep, the user's bytes; it needs an action property proved on the way, `JournalsStay`:
a journal never changes what it is about. Theorems `FileTypes`, `BackupsAreComplete`,
`TargetsAreExplained`, and `UserBytesAreKept` under `~RacingEdits`.

`FilesReversible` is the refinement: for one process (`OneProcess`) and `~RacingEdits`, every step of a file transaction is a
step of `ReversibleFiles` or a stutter. A call that could not see its target is a state of the abstraction too (`unseen`): it may close its journal
with the new bytes in place, if it created the target. `ReverseInv` adds to `FileInv` what the two renames rest on: at each checkpoint of a call the target holds the state
before or after, as the checkpoint says, because with one process nothing else writes it in between. Two
processes break it: a second apply may replace the file in that gap.

`MigrationProofs`. `MigrationInv` carries `RowsFollowJournals` over the composition, for any number of processes: a
store call belongs to the command that made it, a transaction has no row while
`apply_file` still writes its journal, and only the process that opened a transaction writes any other
journal of it than the rolled-back one. Every action of `Migration` is a step of one component or
both, so the proof has a lemma per kind of step. Theorems `MigrationTypes`, `LedgerFollowsJournals`.

`OutcomesHold` adds what `OutcomesAreTrue` needs when one command runs at a time (`OneAtATime`; with two, one
command undoes what the other still records, so the property is claimed for one). `OutcomeInv`: a
row belongs to the operation that opened the transaction, the operation of a running apply is `running`, what it
has opened and not recorded is the transaction of the call it is in (`Recorded`), and what still stands of
the operation is among what the command has yet to reverse, unless it knows of a reversal that failed (`StillToReverse`).
Errors of the file system, of SQLite before or after its commit, and crashes at every step are all covered.

`OwnersHold` proves `OwnersHoldTheirBytes` for one command at a time. `OwnInv`: transactions are numbered in the order they
are opened (`Numbered`), so the owners of a target form a stack in the order of its live rows, the newest on top (`Stack`), and
a rollback takes the top because an operation writes a target once (`RowsAreUnique`). Each target either has a journal that
excuses it for good (`Excused`: recovery offers it, or its row did not follow) or is explained (`TargetExplained`): it holds its
owner's hash or what a committed transaction of the stack found, and so does the backup each row would bring back, for the owner
below it. The argument needs that `rollback_all` reverses only journals that are committed on disk (`TxsCommitted`) and that
recovery never touches a recorded transaction (`CallKnows`, true of one process; `OrphansAreUnrecorded` shows it false of two).

Every step of a command is a step of the file store or leaves it alone, so what `FileTransactionProofs` proves of the
store holds of the commands, by an instance of that module: `CommandsLeaveEvidence` (complete backups and
explained targets), `CommandsKeepUserBytes`, and `CommandsAreReversible`, the refinement the run `migration_recovery` checks.

`Integration` adds install and uninstall, which take store and ledger through the same steps plus the removal of a
Skill. `IntegrationSafety` has the store's invariants and `IntegrationFollowsJournals` has `MigrationInv` over the larger
next-state relation. `UserSkillsAreKept` (`UserSkillKept`, for any number of processes and `~RacingEdits`) is by `SkillInv`:
every plan and every journal expects no file, and a call that has passed its checks has the user's bytes nowhere
before it; an uninstall that has checked its hash removes what that hash is of, or a save it has not seen.
`OwnedSkillsAreInstalled` (`OwnedMeansInstalled`, one command at a time) is by `InstalledInv`: while there
was no edit, no fault and no stop, no command rolls back (`NoRollback`), and every owner has its file unless the running command has
removed that file and has yet to tell the ledger (`Neat`), or some journal was reversed while its row stands
and nobody is left to settle it (`Stuck`). `Stuck` is needed without any fault: a ledger may refuse a rollback (see `undo_same_bytes`),
and what is installed afterwards must not make the property false again.

`TrustedKeysProofs`. `TrustInv`: the lock is held by exactly the rotation that has written
(`Held`), the snapshot of a rotation that has written or still may is the table (`SnapshotsStand`), and no decision is numbered
above those taken (`DecisionsCounted`). Without the second, a rotation could hand on a
decision that another one had moved. Theorems `TrustTypes`, `TrustIsNotMultiplied` and the action property `TrustEndsByRevocation`.

`SigningIdentityProofs`. The key file has one creator (`OneWriter`: `create_new` fails for the others), who knows what
it has written and synced (`WriterKnows`), and a key handed out is the file's and synced, or was read early
(`HandedIsSynced`). Any number of processes may race, fail and be cut off. Theorems `TypeCorrect`, `HandedKeysStay`.

`VendorCommandProofs`. `ChildAt` says what the runner knows of its child at each step, `ExitMeasured` that the
sizes a runner judges are those at the exit of the child (a helper it leaves behind may write on), and
`CompletedInLimit` that a completed output is below the limit. It assumes that outputs can cross the
limit. Where a runner decides to reap, the child has exited or the kill failed, and where it reads the output the child is
`Ended`: never started, waited for, or left by a failed wait. `failed` keeps the names of the calls that failed. Theorems `TypeCorrect`, `NoChildOutlivesTheReport`, `NothingCutIsAccepted`.

`PlannerProofs`. For every package, every start, and any number of edits by the user and steps of other commands.
`PlannedMentioned` and `RenderedAccounted` account for every asset the loop has passed; `MergeKeeps` says that a merged document has the
entries of the document it read; `ObservedMerged` that the hash taken later is of the document that was merged,
or the target raced; `SavedKeeps` carries both from the plan to the apply; `OwnedInstalled` that the ledger owns only
bytes mnemo installed there. Theorems `TypeCorrect`, `NoAssetIsLost`, and the action properties
`NoConflictIsOverwritten` and `NoServerIsLost`. `VerifyRaisesNoFalseAlarm` (`NoFalseAlarm`): a prepared
document comes from rendered servers (`FromRendered`), nobody has changed the targets since they were compared while `calm` stands, and what
was copied so far has the servers of the documents copied (`CopiedSoFar`). A server that is the only one of its document is then in one of the two TOML documents.

`ApplyingConverges` compares two preparations. `ConvInv` explains every decision by what stands now, not by what stood when it
was taken: an asset that was rendered is contained in its document, so that rendering it again changes nothing (`Contains`), and one that was
skipped would be skipped again (`Refused`), because merging never takes an entry away. A calm apply without manual steps moves
the explanation from the prepared files to the disk (`SettledOnDisk`), and the next preparation repeats it asset by asset
(`Repeats`). It rests on `OneKindPerTarget`: no product has a text where it has its servers. With both in one file the claim is false:
a server that was skipped for a collision would fit once a text has replaced the document.

The module assumes besides that `None` is no value and no planned operation, `Foreign` no document, that packages are sequences of assets,
that a run starts from target contents, that the two TOML documents are targets, and that the product that has them has no other MCP
document (`OneProduct`).

`ExchangeProofs`. For every disk, every set of workspaces, every edit during extraction and any damage on the way.
The invariant follows a file through the command: what the collectors read has portable paths below its root, what export
accepts has one asset per id, sound references and objects for every file, and so passes the validation that unpacking repeats
(`Valid` on both sides); an archive that `verify` accepts is the one that was built, because a signature is over its manifest and
the manifest fixes every object (`Genuine`); what is rendered is in the plan as
rendered or reported (`RenderedArrives`). Theorems `WhatIsOpenedWasPublished`, `UndamagedPackagesOpen` (below the limits `verify` has),
`CredentialsAndCodeAreHeldBack` (a capsule may be active, as `prepare_migration` has it; it never has a secret).

`WhatIsNotReportedArrives` proves both halves of `AssetsArrive`. An asset that is not reported has each of its files and its server in the
plan, in whichever order assets share files. And it is `Found`: `TodoFits` says that a collector takes a file only from where its
look is, so the locator of an asset is a path of its kind, and lemma `RenderedIsFound` goes through the table of places, product by
product and kind by kind, and shows that what `Render` writes is read by a look of the target's collector, as the kind the target
has for it.

`AssetsHaveOneSource` and `ExportsFailForAReason` rest on a second inductive invariant, `CalmInv`. While nobody edits during the extraction, every
asset was made by one look at one place (`Sourced`: `FreshIsSourced`, `FoundIsSourced`), the passes behind it saw the disk as it is (`TreeIsRead`, `EditsAreFaults`),
and the looks of one collector never find one path in two ways (`LooksDiffer`, `FoundAlike`). So two assets of one kind, scope and
locator are one (`OneAsset`), and what was collected from accepted files passes the validation that `package` makes
(`SourcedIsValid`, `CollectedIsPackable`): with no fault, a failed export has a file, a label or a capsule to blame. What is an accepted file
is where the two sets of rules agree, text by text; `residue`, `spanning` and `SecretNames` are where they do not.

The module assumes that scenes name platforms and finite disks (`ScenesAreKnown`), that the command line gives
a directory for every workspace (`SourcesAreGiven`), that places on disk are paths and one name stands for the path of a file
below its Skill (`PathsAreNames`), that the server names of a document are unique, that a capsule was scanned (`CapsuleIsScanned`), that a workspace map gives directories (`MapsAreDirectories`), that the two keys differ
and that the limits are numbers.

Every safety invariant and every action property of the passing runs is stated by a theorem. Only model-checked are the liveness
properties `RecoveryCloses`, `EveryoneIsServed`, `EveryCommandEnds` and `Reported`: they need fairness and `ENABLED`, which the prover
does not handle.

## 5. What is left

The model is as wide as planned and every safety property is proved. Three things stay with the model checker or open:

1. The four liveness properties, for the instances of section 3 only.
2. `OutcomesAreTrue`, `OwnersHoldTheirBytes` and `OwnedMeansInstalled` are proved for one command at a time, and the refinement of
   `ReversibleFiles` for one process, as the runs claim them. With two at once they are not claimed
   (section 4 says what breaks), and the run `recovery_race` shows one such race.
3. What the library code does (the regular expressions, the parsers, the signatures, SQLite) is assumed, not proved.

### Not modelled

- Plugin inventory parsers and the table of admitted versions: pure functions of the bytes
  whose completeness `VendorCommand` checks; they refuse the whole output at the first entry they do not know
  and nothing is kept from it. One thing seen while reading: a Claude plugin listed in
  two scopes counts as a duplicate and fails the inventory.
- Argument parsing, reports and exit codes; formatting of rendered files; detection of installed products.
- Regular expressions of the scanner, JSON and TOML parsing, compression, signatures and
  age encryption: data and library code. Portable paths and case folding appear as the sets
  `BadLabels`, `Unportable` and `SameName`.
- The side-by-side and overwrite policies of the planner and the store operations no command reaches.

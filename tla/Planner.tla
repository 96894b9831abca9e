------------------------------- MODULE Planner -------------------------------
(***************************************************************************)
(* Planning of a migration and what the commands plan, apply and verify    *)
(* make of it: the assets of one package are rendered in order, MCP        *)
(* servers are merged into the document of their target, the targets are   *)
(* hashed, and each gets a decision.  Nothing is locked: the user and      *)
(* other mnemo processes change the targets between any two reads.         *)
(*                                                                         *)
(* A document is its named entries and its formatting; one entry stands    *)
(* for a text file.  apply_prepared is one step here: Migration models     *)
(* its journals, its failures and its rollback.                            *)
(***************************************************************************)
EXTENDS Naturals, Sequences

CONSTANTS
    Targets,                \* target files
    UserToml, WorkspaceToml,  \* the two that are TOML documents
    Names, Values, Ids,     \* entries, their definitions, asset ids
    Packages,               \* sequences of assets
    Foreign,                \* a file that is not the document mnemo expects
    None,
    Start,                  \* what the targets may hold at first
    MaxEdits, MaxOthers     \* bounds on the user and on other processes

Asset == [id: Ids, kind: {"text", "mcp"}, target: Targets,
          name: Names, value: Values, quarantined: BOOLEAN]

Entry == [value: Values, marker: Ids \union {None}]

\* JSON is formatted anew with every merge, TOML keeps the bytes of the user.
Document == [entries: [Names -> Entry \union {None}], style: {"mnemo", "user"}]
FileState == Document \union {Foreign, None}

\* What is planned for a target, and the assets that are in it.
Prepared == [content: Document, from: SUBSET Nat]

Verdicts == {"planned", "applied", "verified", "drift", "discovered", "undiscovered"}

ASSUME NoneIsApart ==
    None \notin Document \union {Foreign} \union Entry \union Ids \union Prepared
            \union Verdicts \union {"plan", "apply", "verify"}
ASSUME ForeignIsApart == Foreign \notin Document
ASSUME PackagesAreSequences == Packages \subseteq Seq(Asset)
ASSUME StartIsKnown == Start \subseteq FileState

\* The documents of servers have file names that no text is rendered to.
ASSUME OneKindPerTarget ==
    \A p \in Packages : \A i, j \in DOMAIN p :
        p[i].target = p[j].target => p[i].kind = p[j].kind

TomlTargets == {UserToml, WorkspaceToml}

ASSUME TomlTargetsAreTargets == TomlTargets \subseteq Targets

\* The product with the TOML documents has no others.
ASSUME OneProduct ==
    \A p \in Packages : \A i, j \in DOMAIN p :
        p[i].target \in TomlTargets /\ p[j].kind = "mcp" => p[j].target \in TomlTargets

VARIABLES
    files, managed,     \* target contents, and those the ledger owns by hash
    package,
    cmd, pc, pass,      \* the command, its step and which preparation it is in
    next,               \* the asset to render next
    prepared,           \* rendered file of every target
    skipped,            \* assets that were left out
    observed,           \* what every target held when it was hashed
    known,              \* ownership the second preparation uses
    saved,              \* the approved plan
    verdict,            \* of the last command
    copied,             \* servers in the product's private copy of its documents
    merged,             \* what the merge read from a target (history)
    raced,              \* targets that changed between merge and hash (history)
    installed,          \* what mnemo ever installed at a target (history)
    calm,               \* nothing changed since the last apply began (history)
    settled,            \* what an apply without manual steps skipped (history)
    edits, others

preparing == <<pass, next, prepared, skipped, observed, known, copied, merged>>
world == <<files, managed, installed, edits, others>>
vars == <<world, package, cmd, pc, preparing, saved, verdict, raced, calm, settled>>

Operation == [kind: {"noop", "write", "manual"}, expected: FileState,
              file: Prepared]
\* Verify is about to copy the user's document, the workspace's, or to list.
Discovering == {"discover", "copied", "list"}
Plan == [Targets -> Operation \union {None}]

ASSUME NoOperationIsNone == None \notin Operation

TypeOK ==
    /\ files \in [Targets -> FileState] /\ managed \in [Targets -> Document \union {None}]
    /\ package \in Packages
    /\ cmd \in {"plan", "apply", "verify", None}
    /\ pc \in {"idle", "render", "lookup", "done"} \union Discovering /\ pass \in {1, 2}
    /\ next \in Nat \ {0} /\ skipped \subseteq DOMAIN package
    /\ prepared \in [Targets -> Prepared \union {None}]
    /\ observed \in [Targets -> FileState] /\ known \in [Targets -> Document \union {None}]
    /\ saved \in Plan \union {None}
    /\ verdict \in Verdicts \union {None}
    /\ copied \subseteq Names
    /\ merged \in [Targets -> FileState] /\ installed \in [Targets -> SUBSET Document]
    /\ raced \in [{"plan", "apply"} -> SUBSET Targets]
    /\ calm \in BOOLEAN
    /\ settled \in (SUBSET DOMAIN package) \union {None}
    /\ edits \in Nat /\ others \in Nat

\* The other targets do not matter to this package.
Mentioned == {package[i].target : i \in DOMAIN package}

McpOnly(t) ==
    \A i \in DOMAIN package : package[i].target = t => package[i].kind = "mcp"

Nothing == [t \in Targets |-> None]

Init ==
    /\ package \in Packages
    /\ files \in [Targets -> Start]
    /\ \A t \in Targets \ Mentioned : files[t] = None
    /\ managed = Nothing
    /\ cmd = None /\ pc = "idle" /\ pass = 1 /\ next = 1
    /\ prepared = Nothing /\ skipped = {}
    /\ observed = Nothing /\ known = Nothing /\ merged = Nothing
    /\ copied = {}
    /\ saved = None /\ verdict = None
    /\ raced = [c \in {"plan", "apply"} |-> {}]
    /\ installed = [t \in Targets |-> {}]
    /\ calm = FALSE /\ settled = None
    /\ edits = 0 /\ others = 0

-----------------------------------------------------------------------------
(* Rendering *)

Empty == [entries |-> [n \in Names |-> None], style |-> "mnemo"]

Toml(a) == a.target \in TomlTargets

\* Mutant of Agrees: an equal server counts as a collision.
NeverAgrees(a, entry) == FALSE

\* merge_mcp_json compares definitions; merge_mcp_toml also wants its marker.
Agrees(a, entry) ==
    entry.value = a.value /\ (Toml(a) => entry.marker = a.id)

Mergeable(a, doc) ==
    doc # Foreign /\ (doc.entries[a.name] # None => Agrees(a, doc.entries[a.name]))

EntryOf(a) == [value |-> a.value,
               marker |-> IF a.kind = "mcp" /\ Toml(a) THEN a.id ELSE None]

Put(a, doc) ==
    [entries |-> [doc.entries EXCEPT ![a.name] =
                    IF @ # None /\ Agrees(a, @) THEN @ ELSE EntryOf(a)],
     style |-> IF Toml(a) THEN doc.style ELSE "mnemo"]

\* Mutant of Base: a second server is merged into the file as it is on disk.
BaseOnDisk(a) == IF files[a.target] = None THEN Empty ELSE files[a.target]

\* What an MCP server is merged into: what the plan already made, or the file.
Base(a) ==
    IF prepared[a.target] # None THEN prepared[a.target].content
    ELSE IF files[a.target] = None THEN Empty ELSE files[a.target]

Skip(i) == skipped' = skipped \union {i} /\ UNCHANGED <<prepared, merged>>

Prepare(a, doc, from) ==
    /\ prepared' = [prepared EXCEPT ![a.target] = [content |-> doc, from |-> from]]
    /\ UNCHANGED skipped

From(t) == IF prepared[t] = None THEN {} ELSE prepared[t].from

RenderMcp(a, i) ==
    IF Mergeable(a, Base(a))
    THEN /\ Prepare(a, Put(a, Base(a)), From(a.target) \union {i})
         /\ merged' = [merged EXCEPT ![a.target] =
                IF prepared[a.target] = None THEN files[a.target] ELSE @]
    ELSE Skip(i)

\* Mutant of RenderText: the later asset wins.
LastTextWins(a, i) ==
    Prepare(a, Put(a, Empty), {i}) /\ UNCHANGED merged

\* The first asset of a target wins; one with other bytes is skipped.
RenderText(a, i) ==
    IF prepared[a.target] = None
    THEN Prepare(a, Put(a, Empty), {i}) /\ UNCHANGED merged
    ELSE IF prepared[a.target].content = Put(a, Empty)
         THEN UNCHANGED <<prepared, skipped, merged>>
         ELSE Skip(i)

Render ==
    /\ pc = "render" /\ next <= Len(package)
    /\ LET a == package[next] IN
        IF a.quarantined THEN Skip(next)
        ELSE IF a.kind = "mcp" THEN RenderMcp(a, next) ELSE RenderText(a, next)
    /\ next' = next + 1
    /\ UNCHANGED <<world, package, cmd, pc, pass, observed, known, copied, saved,
                   verdict, raced, calm, settled>>

-----------------------------------------------------------------------------
(* Hashing the targets and deciding *)

Planned(t) == prepared[t] # None

Observe ==
    /\ pc = "render" /\ next > Len(package)
    /\ observed' = [t \in Targets |-> IF Planned(t) THEN files[t] ELSE None]
    /\ raced' = [c \in DOMAIN raced |->
            IF c = cmd THEN {t \in Mentioned : McpOnly(t) /\ merged[t] # files[t]}
            ELSE raced[c]]
    /\ pc' = IF pass = 1 THEN "lookup" ELSE "done"
    /\ UNCHANGED <<world, package, cmd, pass, next, prepared, skipped, known,
                   copied, merged, saved, verdict, calm, settled>>

\* Mutant of Decide: a file mnemo once installed is updated, edited or not.
DecideByOwner(desired, current, owned) ==
    CASE current = None -> "write"
      [] current = desired -> "noop"
      [] OTHER -> IF owned # None THEN "write" ELSE "manual"

\* resolve_file_conflict with the Preserve policy.
Decide(desired, current, owned) ==
    CASE current = None -> "write"
      [] current = desired -> "noop"
      [] OTHER -> IF owned = current THEN "write" ELSE "manual"

BuildFilePlan ==
    [t \in Targets |->
        IF Planned(t)
        THEN [kind |-> Decide(prepared[t].content, observed[t], known[t]),
              expected |-> observed[t], file |-> prepared[t]]
        ELSE None]

Reset ==
    /\ next' = 1 /\ prepared' = Nothing /\ skipped' = {}
    /\ observed' = Nothing /\ merged' = Nothing /\ copied' = {}

\* Targets of the first preparation that the ledger owns are planned again.
PrepareWithOwnership ==
    /\ pc = "lookup"
    /\ LET owned == [t \in Targets |-> IF Planned(t) THEN managed[t] ELSE None] IN
        IF owned = Nothing
        THEN pc' = "done" /\ UNCHANGED preparing
        ELSE pc' = "render" /\ pass' = 2 /\ known' = owned /\ Reset
    /\ UNCHANGED <<world, package, cmd, saved, verdict, raced, calm, settled>>

-----------------------------------------------------------------------------
(* The commands *)

Command(c) ==
    /\ pc = "idle"
    /\ c # "plan" => saved # None
    /\ cmd' = c /\ pc' = "render" /\ verdict' = None
    /\ UNCHANGED preparing
    /\ IF c = "apply"
       THEN calm' = TRUE /\ settled' = IF calm THEN settled ELSE None
       ELSE UNCHANGED <<calm, settled>>
    /\ UNCHANGED <<world, package, saved, raced>>

Exit(v) ==
    /\ pc' = "idle" /\ cmd' = None /\ verdict' = v
    /\ pass' = 1 /\ known' = Nothing /\ Reset

SavePlan ==
    /\ pc = "done" /\ cmd = "plan"
    /\ saved' = BuildFilePlan
    /\ Exit("planned")
    /\ UNCHANGED <<world, package, raced, calm, settled>>

Of(plan, kind) == {t \in Targets : plan[t] # None /\ plan[t].kind = kind}
Writes(plan) == Of(plan, "write")
Manual(plan) == Of(plan, "manual")

\* Mutant of Drifted: apply trusts the approved plan.
NeverDrifted == FALSE

Drifted == BuildFilePlan # saved

\* apply_file refuses a target that changed since it was hashed.
Stale(plan) == \E t \in Writes(plan) : files[t] # plan[t].expected

Refuse ==
    /\ pc = "done" /\ cmd = "apply"
    /\ Drifted \/ Stale(BuildFilePlan)
    /\ Exit("drift")
    /\ UNCHANGED <<world, package, saved, raced, calm, settled>>

ApplyPrepared ==
    /\ pc = "done" /\ cmd = "apply"
    /\ ~Drifted /\ ~Stale(BuildFilePlan)
    /\ LET written == Writes(BuildFilePlan) IN
        /\ files' = [t \in Targets |->
                IF t \in written THEN prepared[t].content ELSE files[t]]
        /\ managed' = [t \in Targets |->
                IF t \in written THEN prepared[t].content ELSE managed[t]]
        /\ installed' = [t \in Targets |-> installed[t] \union
                IF t \in written THEN {prepared[t].content} ELSE {}]
    /\ settled' = IF Manual(BuildFilePlan) = {} THEN skipped ELSE None
    /\ Exit("applied")
    /\ UNCHANGED <<package, saved, raced, calm, edits, others>>

\* Level L0 compares every target; level L1 goes on to ask the product.
Verify ==
    /\ pc = "done" /\ cmd = "verify"
    /\ IF \A t \in Targets : Planned(t) => files[t] = prepared[t].content
       THEN \/ Exit("verified")
            \/ pc' = "discover" /\ UNCHANGED <<cmd, verdict, preparing>>
       ELSE Exit("drift")
    /\ UNCHANGED <<world, package, saved, raced, calm, settled>>

\* expected_codex_mcp_names: a document of several servers has an id of its own.
Expected ==
    {package[i].name : i \in {j \in DOMAIN package :
        package[j].kind = "mcp" /\ From(package[j].target) = {j}}}

\* copy_if_present: the product reads a private copy of its documents.
ServersIn(t) ==
    {n \in Names : files[t] \in Document /\ files[t].entries[n] # None}

Quiet == UNCHANGED <<world, package, saved, raced, calm, settled>>

\* Mutant of CopyIfPresent: the workspace's document takes the user's place.
CopyOver(t) == copied' = ServersIn(t)

CopyIfPresent(t) == copied' = copied \union ServersIn(t)

\* A document that is there and cannot be read ends the verification.
Copy(t, step) ==
    /\ \/ Exit("undiscovered")
       \/ /\ CopyIfPresent(t)
          /\ pc' = step /\ UNCHANGED <<cmd, verdict>>
          /\ UNCHANGED <<pass, next, prepared, skipped, observed, known, merged>>
    /\ Quiet

\* Only Codex, which has the TOML documents, is ever asked, and only if its
\* version is admitted; everything else is for the user to look at.
VerifyAssetDiscovery ==
    /\ pc = "discover"
    /\ IF \E t \in TomlTargets : Planned(t)
       THEN Copy(UserToml, "copied")
       ELSE Exit("undiscovered") /\ Quiet

CopyWorkspaceDocument == pc = "copied" /\ Copy(WorkspaceToml, "list")

\* The command may fail, or list what it likes of the copy.
VerifyCodexMcp ==
    /\ pc = "list"
    /\ \/ Exit("undiscovered")
       \/ \E listed \in SUBSET copied :
            Exit(IF Expected \subseteq listed THEN "discovered" ELSE "undiscovered")
    /\ Quiet

-----------------------------------------------------------------------------
(* The user and other mnemo processes *)

Environment ==
    /\ calm' = FALSE
    /\ UNCHANGED <<package, cmd, pc, preparing, saved, verdict, raced, settled>>

\* A read that fails counts as an absent file: to the reader it is as if the
\* user had taken the file away and then put it back.
Edit(t, c) ==
    /\ edits < MaxEdits /\ edits' = edits + 1
    /\ files[t] # c
    /\ files' = [files EXCEPT ![t] = c]
    /\ UNCHANGED <<managed, installed, others>> /\ Environment

\* Another migration installs a file.
OtherApply(t, c) ==
    /\ others < MaxOthers /\ others' = others + 1
    /\ files[t] \in {None, managed[t]}
    /\ files' = [files EXCEPT ![t] = c]
    /\ managed' = [managed EXCEPT ![t] = c]
    /\ installed' = [installed EXCEPT ![t] = @ \union {c}]
    /\ UNCHANGED edits /\ Environment

\* The migration that installed a file is undone.
OtherUndo(t) ==
    /\ others < MaxOthers /\ others' = others + 1
    /\ managed[t] # None /\ files[t] = managed[t]
    /\ files' = [files EXCEPT ![t] = None]
    /\ managed' = [managed EXCEPT ![t] = None]
    /\ UNCHANGED <<edits, installed>> /\ Environment

Rendered == {c \in Start : c \in Document /\ c.style = "mnemo"}

Mnemo ==
    \/ \E c \in {"plan", "apply", "verify"} : Command(c)
    \/ Render \/ Observe \/ PrepareWithOwnership
    \/ SavePlan \/ Refuse \/ ApplyPrepared \/ Verify \/ VerifyAssetDiscovery
    \/ CopyWorkspaceDocument \/ VerifyCodexMcp

Next ==
    \/ Mnemo
    \/ \E t \in Mentioned : \E c \in Start \union installed[t] : Edit(t, c)
    \/ \E t \in Mentioned : \E c \in Rendered : OtherApply(t, c)
    \/ \E t \in Mentioned : OtherUndo(t)

Spec == Init /\ [][Next]_vars

-----------------------------------------------------------------------------
Applies == verdict # "applied" /\ verdict' = "applied"

(***************************************************************************)
(* "Conflicts are never silently overwritten": apply replaces nothing but  *)
(* bytes that mnemo itself installed at that target, whatever the user and *)
(* other migrations do between the reads of planning and applying.         *)
(***************************************************************************)
UserContentStays ==
    [][Applies => \A t \in Targets :
        files'[t] # files[t] => files[t] = None \/ files[t] \in installed[t]]_vars

(***************************************************************************)
(* The document an MCP server is merged into is read again for its hash.   *)
(* A server added in between is not lost: the plan merged without it       *)
(* expects another file or is refused when apply plans again.  Only a user *)
(* who hits that moment in both plan and apply loses it.                   *)
(***************************************************************************)
ServersStay ==
    [][Applies => \A t \in Targets :
        (McpOnly(t) /\ files[t] \in Document) =>
            \/ t \in raced["plan"] \intersect raced["apply"]
            \/ \A n \in Names : files[t].entries[n] # None =>
                    files'[t].entries[n] = files[t].entries[n]]_vars

(***************************************************************************)
(* No asset is dropped without a word: when a preparation is complete,     *)
(* every asset is in the file planned for its target or is reported as     *)
(* skipped, in whatever order assets of one target come.                   *)
(***************************************************************************)
EveryAssetAccounted ==
    pc = "done" => \A i \in DOMAIN package \ skipped :
        LET a == package[i] IN
            /\ prepared[a.target] # None
            /\ prepared[a.target].content.entries[a.name] # None
            /\ prepared[a.target].content.entries[a.name].value = a.value

(***************************************************************************)
(* Applying is idempotent: after an apply without manual steps and without *)
(* changes by others, the same package skips the same assets and plans     *)
(* nothing to write, and verify finds what it expects.                     *)
(***************************************************************************)
Converges ==
    calm /\ settled # None /\ pc = "done" =>
        /\ skipped = settled
        /\ \A t \in Targets : Planned(t) => files[t] = prepared[t].content

(***************************************************************************)
(* Verify does not fail by its own doing.  It compares the targets, copies *)
(* one document and then the other, and asks the product; if nobody        *)
(* touched a target since the apply, every server it is going to expect is *)
(* in the copy the product lists, wherever it was rendered to.             *)
(***************************************************************************)
NoFalseAlarm ==
    pc = "list" /\ calm => Expected \subseteq copied
=============================================================================

------------------------------- MODULE Adapters -------------------------------
(***************************************************************************)
(* What the four product adapters read and write: for every platform the   *)
(* places its collector looks at, in the order of the code, and the place  *)
(* where an asset of any platform is rendered.                             *)
(*                                                                         *)
(* A place is one of three roots and the segments of a path below it.      *)
(***************************************************************************)
EXTENDS Sequences, SequencesExt

CONSTANTS
    Manual,         \* the adapter leaves the asset to the user
    SameName        \* titles that portable_name maps to one name

Platforms == {"claude-code", "codex", "cursor", "qoder"}
Kinds == {"instruction", "prompt", "skill", "mcp", "handoff"}

Place(root, at) == [root |-> root, at |-> at]

ScopeOf(root) == IF root = "workspace" THEN "workspace" ELSE "user"

\* One call of a collector: how it reads, where, and what it finds there.
Look(how, root, at, kind) == [how |-> how, root |-> root, at |-> at, kind |-> kind]

Text(root, name) == Look("text", root, <<name>>, "instruction")
Skills(root, at) == Look("skills", root, at, "skill")

\* Below a workspace the product has a directory of its own, its root is one.
Below(hidden, root) == IF root = "workspace" THEN <<hidden>> ELSE <<>>

\* collect_scope of Claude Code and of Qoder: the same looks but for the texts.
CollectScope(root, texts, hidden) ==
    LET below == Below(hidden, root)
        used == IF root = "workspace" THEN texts ELSE SubSeq(texts, 1, 1) IN
    [i \in DOMAIN used |-> Look("text", root, used[i], "instruction")]
    \o <<Look("markdown", root, below \o <<"rules">>, "instruction"),
         Look("markdown", root, below \o <<"commands">>, "prompt"),
         Skills(root, below \o <<"skills">>)>>
    \o IF root = "workspace" THEN <<Look("json", root, <<".mcp.json">>, "mcp")>> ELSE <<>>

CollectClaude(root) ==
    CollectScope(root,
        <<<<"CLAUDE.md">>, <<"CLAUDE.local.md">>, <<".claude", "CLAUDE.md">>>>, ".claude")

CollectQoder(root) ==
    CollectScope(root, <<<<"AGENTS.md">>, <<"AGENTS.local.md">>>>, ".qoder")

CollectCodex ==
    <<Text("config", "AGENTS.override.md"), Text("workspace", "AGENTS.override.md"),
      Text("config", "AGENTS.md"), Text("workspace", "AGENTS.md"),
      Skills("config", <<"skills">>),
      Skills("home", <<".agents", "skills">>),
      Skills("workspace", <<".agents", "skills">>),
      Look("toml", "config", <<"config.toml">>, "mcp"),
      Look("toml", "workspace", <<".codex", "config.toml">>, "mcp")>>

CollectCursor ==
    <<Skills("config", <<"skills">>),
      Skills("home", <<".agents", "skills">>),
      Text("workspace", ".cursorrules"),
      Look("markdown", "workspace", <<".cursor", "rules">>, "instruction"),
      Skills("workspace", <<".cursor", "skills">>),
      Skills("workspace", <<".agents", "skills">>),
      Look("json", "workspace", <<".cursor", "mcp.json">>, "mcp")>>

Collector(platform) ==
    CASE platform = "codex" -> CollectCodex
      [] platform = "cursor" -> CollectCursor
      [] platform = "claude-code" -> CollectClaude("config") \o CollectClaude("workspace")
      [] platform = "qoder" -> CollectQoder("config") \o CollectQoder("workspace")

-----------------------------------------------------------------------------
PortableName(title) == IF title \in SameName THEN "same-name" ELSE title

\* Mutant of Rooted: user assets all go below the root of the product.
RootedConfig(user, a) == IF a.scope = "user" THEN "config" ELSE "workspace"

Rooted(user, a) == IF a.scope = "user" THEN user ELSE "workspace"

\* is_exact_instruction_path: an instruction goes back to where it came from.
IsExact(platform, at) ==
    \/ \E i \in DOMAIN Collector(platform) :
        LET look == Collector(platform)[i] IN
        look.kind = "instruction" /\
            IF look.how = "text" THEN at = look.at ELSE IsStrictPrefix(look.at, at)

Instruction(platform, a, otherwise) ==
    IF a.platform = platform /\ IsExact(platform, a.locator) THEN a.locator ELSE otherwise

RenderHandoff(a) == Place("workspace", <<".mnemoport", "handoffs", "short-id">>)

RenderScoped(platform, hidden, a) ==
    LET root == Rooted("config", a)
        below == Below(hidden, root)
        name == PortableName(a.title) IN
    CASE a.kind = "instruction" ->
            Place(root, Instruction(platform, a, below \o <<"rules", "mnemoport", name>>))
      [] a.kind = "prompt" -> Place(root, below \o <<"commands", name>>)
      [] a.kind = "skill" -> Place(root, below \o <<"skills", name>>)
      [] a.kind = "mcp" ->
            IF a.scope = "workspace" THEN Place(root, <<".mcp.json">>) ELSE Manual
      [] a.kind = "handoff" -> RenderHandoff(a)

RenderClaude(a) == RenderScoped("claude-code", ".claude", a)
RenderQoder(a) == RenderScoped("qoder", ".qoder", a)

RenderCodex(a) ==
    LET name == PortableName(a.title) IN
    CASE a.kind = "instruction" -> Place(Rooted("config", a), <<"AGENTS.md">>)
      [] a.kind = "skill" -> Place(Rooted("home", a), <<".agents", "skills", name>>)
      [] a.kind = "prompt" ->
            Place(Rooted("home", a), <<".agents", "skills", name, "SKILL.md">>)
      [] a.kind = "mcp" ->
            Place(Rooted("config", a), (IF a.scope = "workspace" THEN <<".codex">> ELSE <<>>)
                                       \o <<"config.toml">>)
      [] a.kind = "handoff" -> RenderHandoff(a)

RenderCursor(a) ==
    LET name == PortableName(a.title) IN
    CASE a.kind = "instruction" ->
            IF a.scope = "workspace"
            THEN Place("workspace", Instruction("cursor", a,
                    <<".cursor", "rules", "mnemoport", name>>))
            ELSE Manual
      [] a.kind = "skill" -> Place(Rooted("home", a), <<".cursor", "skills", name>>)
      [] a.kind = "prompt" ->
            Place(Rooted("home", a), <<".cursor", "skills", name, "SKILL.md">>)
      [] a.kind = "mcp" ->
            Place(Rooted("config", a), (IF a.scope = "workspace" THEN <<".cursor">> ELSE <<>>)
                                       \o <<"mcp.json">>)
      [] a.kind = "handoff" -> RenderHandoff(a)

\* render_target and render_mcp_target
Render(platform, a) ==
    CASE platform = "codex" -> RenderCodex(a)
      [] platform = "cursor" -> RenderCursor(a)
      [] platform = "claude-code" -> RenderClaude(a)
      [] platform = "qoder" -> RenderQoder(a)

\* Codex and Cursor have no prompts; they become Skills.
KindAt(platform, kind) ==
    IF kind = "prompt" /\ platform \in {"codex", "cursor"} THEN "skill" ELSE kind

\* The root of Cursor's configuration is .cursor in the home unless it is moved.
SamePlace(platform, place) ==
    IF platform = "cursor" /\ place.root = "home" /\ place.at[1] = ".cursor"
    THEN Place("config", Tail(place.at)) ELSE place

\* What lies where the collector looks, or below.
Finds(look, at) ==
    CASE look.how = "markdown" -> IsStrictPrefix(look.at, at)
      [] look.how = "skills" ->
            IsPrefix(look.at, at) /\ Len(at) \in {Len(look.at) + 1, Len(look.at) + 2}
      [] OTHER -> look.at = at

\* Does the collector of the platform read this place as an asset of the kind?
Reads(platform, kind, place) ==
    \E i \in DOMAIN Collector(platform) :
        LET look == Collector(platform)[i]
            p == SamePlace(platform, place) IN
        look.kind = kind /\ look.root = p.root /\ Finds(look, p.at)
=============================================================================

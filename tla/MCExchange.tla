------------------------------ MODULE MCExchange ------------------------------
(* Exchange on scenes: what a user may have, and what may happen to it. *)
EXTENDS Exchange

CONSTANTS lab1, lab2, lab3, dir1, dir2, dst1, dst2, txt1, txt2, pass1, odd, token

Txt(t, marks) == [text |-> t, marks |-> marks, servers |-> None]
Server(name, t) == [name |-> name, value |-> t, refs |-> TRUE, literal |-> FALSE, secret |-> FALSE]
Doc(servers) == [text |-> txt1, marks |-> {}, servers |-> servers]

One == <<[label |-> lab1, path |-> dir1]>>
Two == Append(One, [label |-> lab2, path |-> dir2])
Current == <<[label |-> None, path |-> dir1]>>

Scene(from, files, sources, targets) ==
    [from |-> from, disk |-> files, sources |-> sources, targets |-> targets,
     faults |-> 0, edits |-> {}, wrap |-> Plain]

WsPlace(root, at) == Place(IF root = "workspace" THEN dir1 ELSE root, at)

\* What one look of a collector finds.
FilesAt(look) ==
    CASE look.how = "text" -> WsPlace(look.root, look.at) :> Txt(txt1, {})
      [] look.how = "markdown" -> WsPlace(look.root, look.at \o <<"note">>) :> Txt(txt1, {"active"})
                                @@ WsPlace(look.root, look.at \o <<"Note">>) :> Txt(txt1, {"secret"})
      [] look.how = "skills" -> WsPlace(look.root, look.at \o <<"tool", "SKILL.md">>) :> Txt(txt1, {})
                                @@ WsPlace(look.root, look.at \o <<"tool", "help.md">>) :> Txt(txt2, {})
                                @@ WsPlace(look.root, look.at \o <<"loose">>) :> Txt(txt2, {})
      [] OTHER -> WsPlace(look.root, look.at) :> Doc({Server("one", txt1)})

\* Every look of every platform, planned for every platform.
Looks ==
    UNION {{Scene(platform, FilesAt(Collector(platform)[i]), sources, Platforms) :
                i \in DOMAIN Collector(platform), sources \in {One, Current}} :
            platform \in Platforms}

Home(name) == Place("config", <<name>>)
Rule(name) == Place("config", <<"rules", name>>)
Tool(name, f) == Place("config", <<"skills", name, f>>)
Project(dir, name) == Place(dir, <<name>>)

\* Two workspaces are read while the user edits what both have and a Skill.
Edited ==
    [Scene("claude-code",
        Home("CLAUDE.md") :> Txt(txt1, {"secret"})
        @@ Tool("tool", "SKILL.md") :> Txt(txt1, {}) @@ Tool("tool", "help.md") :> Txt(txt2, {})
        @@ Tool("tool", "icon.png") :> Txt(txt1, {"binary"})
        @@ Project(dir1, "CLAUDE.md") :> Txt(txt1, {}) @@ Project(dir2, "CLAUDE.md") :> Txt(txt1, {})
        @@ Project(dir2, ".mcp.json") :> Doc({Server("one", txt1)}), Two, {"codex"})
     EXCEPT !.faults = 2,
            !.edits = {[place |-> Home("CLAUDE.md"), content |-> c] :
                            c \in {None, Txt(txt1, {"redacted"}), Txt(txt2, {"secret"})}}
                      \union {[place |-> Tool("tool", f), content |-> c] :
                            f \in {"SKILL.md", "help.md"}, c \in {None, Txt(txt1, {"active"})}}
                      \union {[place |-> Project(dir2, ".mcp.json"), content |-> Doc({})]}]

\* A package on its way, in the clear or for a passphrase.
Sent(wrap) ==
    [Scene("codex",
        Home("AGENTS.md") :> Txt(txt1, {"active"})
        @@ Project(dir1, "AGENTS.md") :> Txt(txt2, {}) @@ Home("config.toml") :> Doc({Server("one", txt1)}),
        One, {"claude-code"})
     EXCEPT !.faults = 2, !.wrap = wrap]

\* Assets that want the same file of the target.
Meeting ==
    {Scene("claude-code", Rule("rule a") :> Txt(txt1, {}) @@ Rule("rule A") :> Txt(t, {}),
           Current, {"codex", "qoder"}) : t \in {txt1, txt2}}
    \union {Scene("claude-code",
                Tool("rule a", "SKILL.md") :> Txt(txt1, {}) @@ Tool("rule A", "SKILL.md") :> Txt(txt2, {})
                @@ Tool("rule A", "help.md") :> Txt(txt2, {})
                @@ Place("config", <<"commands", "rule a">>) :> Txt(txt1, {}), Current, {"codex", "cursor"})}
    \union {Scene("codex",
                Home("config.toml") :> Doc({Server("one", txt1)})
                @@ Place(dir1, <<".codex", "config.toml">>) :> Doc({Server("one", txt2), Server("two", txt1)})
                @@ Place(dir2, <<".codex", "config.toml">>) :> Doc({Server("one", t)}),
                Two, Platforms) : t \in {txt1, txt2}}

\* What export refuses.
Refusals ==
    {Scene("claude-code", Home("CLAUDE.md") :> Txt(txt1, {}), sources, {"qoder"}) :
        sources \in {Append(One, [label |-> lab1, path |-> dir2]),
                     Append(One, [label |-> lab2, path |-> dir1]),
                     <<[label |-> lab3, path |-> dir1]>>}}
    \union {Scene("claude-code", files, One, {"qoder"}) :
        files \in {Home("CLAUDE.md") :> Txt(txt1, {"binary"}),
                   Tool("tool", "SKILL.md") :> Txt(txt1, {})
                        @@ Tool("tool", "icon.png") :> Txt(txt1, {"secret"}),
                   Home("CLAUDE.md") :> Txt(txt1, {"secret", "residue"}),
                   Home("CLAUDE.md") :> Txt(txt1, {"spanning"}),
                   Tool("tool", "SKILL.md") :> Txt(txt1, {"secret", "residue"}),
                   Tool("tool", "SKILL.md") :> Txt(txt1, {}) @@ Tool("tool", token) :> Txt(txt2, {}),
                   Project(dir1, ".mcp.json") :> Doc(None),
                   Project(dir1, ".mcp.json") :> Doc({[Server("one", txt1) EXCEPT !.literal = TRUE]}),
                   Project(dir1, ".mcp.json") :> Doc({[Server("one", txt1) EXCEPT !.secret = TRUE]}),
                   Project(dir1, ".mcp.json") :> Doc({Server(odd, txt1)})}}

\* Two workspaces with a text that is read in two places, for directories apart
\* and for one in the other, and what is planned without a review.
Nested ==
    {Scene("claude-code",
        Project(dir1, "CLAUDE.md") :> Txt(txt1, {"private"})
        @@ Place(dir1, <<".claude", "CLAUDE.md">>) :> Txt(txt1, {"secret", "key"})
        @@ Project(dir2, "CLAUDE.md") :> Txt(t, marks) @@ Project(dir2, ".mcp.json") :> Doc({Server("one", txt1)})
        @@ Tool("tool", "SKILL.md") :> Txt(txt2, {"spanning"}),
        Two, {"claude-code", "codex"}) :
            <<t, marks>> \in {<<txt1, {"private"}>>, <<txt1, {"secret", "key"}>>, <<txt2, {}>>}}

\* As many records as a package may have, and more.
Many ==
    {Scene("claude-code",
        [p \in {Rule(n) : n \in names} |-> Txt(IF p = Rule("a") THEN txt1 ELSE txt2, {})],
        One, {"qoder"}) : names \in {{"a", "b", "c", "d"}, {"a", "b", "c", "d", "e"}}}

Capsules == {[Scene(None, <<>>, Current, Platforms) EXCEPT !.wrap = w] : w \in {Plain, pass1}}

MCScenes ==
    Looks \union {Edited, Sent(Plain), Sent(pass1)} \union Meeting \union Nested \union Refusals
    \union Many \union Capsules

\* Apart, the same, one in the other, and one in the product's own root.
MCMaps ==
    {MissingMap, <<>>, lab1 :> Place(dst1, <<>>)}
    \union {lab1 :> Place(dst1, <<>>) @@ lab2 :> dir :
                dir \in {Place(dst2, <<>>), Place(dst1, <<>>), Place(dst1, <<".claude">>),
                        Place("config", <<>>)}}

MCCapsule == [text |-> txt1, marks |-> {"active"}, secret |-> FALSE]
=============================================================================

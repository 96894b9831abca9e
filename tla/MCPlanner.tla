------------------------------ MODULE MCPlanner ------------------------------
(* Planner on packages of one or two assets for a JSON and two TOML documents. *)
EXTENDS Planner

CONSTANTS json, toml, project, n1, n2, v1, v2, i1, i2

AssetFor(id, kind, t, n, v) ==
    [id |-> id, kind |-> kind, target |-> t, name |-> n, value |-> v,
     quarantined |-> FALSE]

\* Two servers, a collision of names, a server that comes twice, and one alone.
Servers(t, second) ==
    {<<AssetFor(i1, "mcp", t, n1, v1), AssetFor(i2, "mcp", t, s[1], s[2])>> : s \in second}
    \union {<<AssetFor(i1, "mcp", t, n1, v1)>>}

\* One name in the document of the user and in that of the workspace.
InBothScopes ==
    {<<AssetFor(i1, "mcp", toml, n1, v1), AssetFor(i2, "mcp", project, n1, v1)>>}

\* The same text twice, two texts for one target, and a server in quarantine.
Texts ==
    LET first == AssetFor(i1, "text", json, n1, v1) IN
    {<<first, AssetFor(i2, "text", json, n1, v)>> : v \in {v1, v2}}
    \union {<<[first EXCEPT !.quarantined = TRUE, !.kind = "mcp"], AssetFor(i2, "mcp", json, n2, v1)>>}

\* A TOML entry of the user never agrees, so the value of n2 matters to JSON only.
MCPackages ==
    Servers(json, {n1, n2} \X {v1, v2}) \union Servers(toml, {<<n1, v1>>, <<n1, v2>>, <<n2, v2>>})
    \union InBothScopes \union Texts

Doc(n, v, marker, style) ==
    [entries |-> [m \in {n1, n2} |->
        IF m = n THEN [value |-> v, marker |-> marker] ELSE None],
     style |-> style]

MCStart ==
    {None, Foreign, Doc(n2, v2, None, "user"), Doc(n1, v1, None, "mnemo"),
     Doc(n2, v2, None, "mnemo")}
=============================================================================

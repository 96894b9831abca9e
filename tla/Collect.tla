------------------------------- MODULE Collect -------------------------------
(***************************************************************************)
(* extract_workspaces: the collectors of one platform read the user's      *)
(* files once for every selected workspace.  A collector looks whether     *)
(* something is there and reads it later, a Skill file by file, and the    *)
(* user goes on editing.  Nothing is locked and nothing is read twice in   *)
(* one pass.                                                               *)
(*                                                                         *)
(* A file is its text, the marks the scanner gives it, and the set of its  *)
(* MCP servers when it is a document that has the key, or None.            *)
(***************************************************************************)
EXTENDS Adapters, Naturals, FiniteSets

CONSTANTS
    None,
    Scenes,     \* what is on the disk, which platform and which workspaces
    DataFiles   \* files of a Skill that is_text_path does not know

VARIABLES
    scene,
    disk,       \* what the user has at every place
    pc,         \* step of the exporting and the importing command
    pass, row,  \* workspace and look of the collector
    todo,       \* what the look found and has not read yet
    tree,       \* a Skill that is being read
    fresh,      \* assets of this pass
    found,      \* assets of the passes before
    faults,     \* edits and other faults so far
    edited      \* places the user changed meanwhile (history)

reading == <<pass, row, todo, tree, fresh, found>>
collectVars == <<scene, disk, pc, reading, faults, edited>>

\* What the scanner finds, or would find.  An e-mail address is "private".  Of
\* a "key" it knows the first line only.  "residue" is left for another scan by
\* the redaction: of https://token@host the token becomes <redacted:rule>, and
\* the colon makes a user and a password of it.  A text is "spanning" if its
\* JSON form has a credential where the text has none: the escape of a line
\* break is no space.
Marks == {"secret", "redacted", "active", "binary", "private", "key", "residue", "spanning"}

IsContent(c) ==
    /\ c = [text |-> c.text, marks |-> c.marks, servers |-> c.servers]
    /\ c.marks \subseteq Marks
    /\ c.servers # None =>
        /\ IsFiniteSet(c.servers)
        /\ \A s, t \in c.servers : s.name = t.name => s = t

\* The products the program knows, and files a user can have.
ASSUME ScenesAreKnown ==
    \A s \in Scenes :
        /\ s.from \in Platforms \union {None}
        /\ s.targets \subseteq Platforms
        /\ IsFiniteSet(DOMAIN s.sources) /\ IsFiniteSet(DOMAIN s.disk)
        /\ \A p \in DOMAIN s.disk : s.disk[p] = None \/ IsContent(s.disk[p])
        /\ \A e \in s.edits : e.content = None \/ IsContent(e.content)

\* The command line: a directory for every workspace, without --workspace the
\* current one, and no workspace to name for a handoff.
ASSUME SourcesAreGiven ==
    \A s \in Scenes :
        /\ DOMAIN s.sources = 1..Len(s.sources) /\ Len(s.sources) \in Nat \ {0}
        /\ s.sources[1].label = None => Len(s.sources) = 1
        /\ s.from = None => s.sources[1].label = None

IsPath(at) == at \in Seq(Range(at))

\* Paths are names, and one name stands for the path of a file below its Skill.
ASSUME PathsAreNames ==
    \A s \in Scenes : \A p \in DOMAIN s.disk :
        /\ p = Place(p.root, p.at) /\ IsPath(p.at)
        /\ s.from # None => \A i \in DOMAIN Collector(s.from) :
            LET look == Collector(s.from)[i] IN
            look.how = "skills" /\ IsStrictPrefix(look.at, p.at) => Len(p.at) <= Len(look.at) + 2

\* A place of the source: below a user root or below one of the workspaces.
At(root, at) == Place(IF root = "workspace" THEN scene.sources[pass].path ELSE root, at)

There(place) == place \in DOMAIN disk /\ disk[place] # None

InitCollect ==
    /\ scene \in Scenes
    /\ disk = scene.disk
    /\ pass = 1 /\ row = 1 /\ todo = {} /\ tree = None
    /\ fresh = {} /\ found = {}
    /\ faults = 0 /\ edited = {}

-----------------------------------------------------------------------------
(* Assets *)

\* scan_and_redact; a text that is not UTF-8 has no scan.
Scannable(text) == "binary" \notin text.marks

Redact(text) ==
    IF "secret" \in text.marks
    THEN [text EXCEPT !.marks = (@ \ {"secret", "residue"}) \union {"redacted"}
                                \union IF "residue" \in @ THEN {"secret"} ELSE {}]
    ELSE text

\* Mutant of Sensitivity: what is not text counts as private.
SensitivityOfText(marks) == IF "active" \in marks THEN "quarantined" ELSE "private"

\* Active and non-text content has to be reviewed before it is applied; what
\* the scanner would have reviewed or excluded has not.
Sensitivity(marks) ==
    IF marks \intersect {"active", "binary"} # {} THEN "quarantined" ELSE "private"

Asset(look, title, at, payload, source, sensitivity) ==
    [platform |-> scene.from, kind |-> look.kind, scope |-> ScopeOf(look.root),
     title |-> title, locator |-> at, payload |-> payload,
     source |-> source, sensitivity |-> sensitivity, workspace |-> None]

\* make_asset: the id leaves out where the content came from and its class.
AssetId(a) ==
    [platform |-> a.platform, kind |-> a.kind, scope |-> a.scope, title |-> a.title,
     locator |-> a.locator, content |-> a.payload, workspace |-> a.workspace]

TextAsset(look, at, text) ==
    Asset(look, Last(at), at, Redact(text), text, Sensitivity(text.marks))

\* The name of a server becomes part of the locator.
ServerAsset(look, doc, server) ==
    Asset(look, server.name, look.at \o <<"#", server.name>>, server, doc,
          IF server.refs THEN "secret_reference" ELSE "private")

\* A file that is not text by its name is kept as it is.
IsText(file) == file \notin DataFiles

Keep(file, text) == IF IsText(file) THEN Redact(text) ELSE text

TreeAsset(look, at, files) ==
    Asset(look, Last(at), at, [f \in DOMAIN files |-> Keep(f, files[f])], files,
          Sensitivity(UNION {files[f].marks : f \in DOMAIN files}
                      \union {"binary" : f \in DataFiles \intersect DOMAIN files}))

-----------------------------------------------------------------------------
(* Looking and reading *)

TheLook == Collector(scene.from)[row]
Here == pc = "collect" /\ pass <= Len(scene.sources) /\ row <= Len(Collector(scene.from))

\* The command ends with an error and writes nothing.
Fail ==
    /\ pc' = "failed"
    /\ todo' = {} /\ tree' = None /\ fresh' = {} /\ found' = {}
    /\ UNCHANGED <<pass, row>>

\* The next thing the look found, or the next look.
Done(unit) ==
    /\ todo' = todo \ {unit}
    /\ row' = IF todo' = {} THEN row + 1 ELSE row

Inside(root, at) ==
    {p \in DOMAIN disk : p.root = root /\ IsStrictPrefix(at, p.at) /\ disk[p] # None}

LookAround ==
    /\ Here /\ todo = {} /\ tree = None
    /\ LET look == TheLook
           place == At(look.root, look.at)
           inside == Inside(place.root, place.at) IN
        /\ todo' = CASE look.how = "markdown" -> inside
                     [] look.how = "skills" ->
                            {Place(p.root, SubSeq(p.at, 1, Len(look.at) + 1)) : p \in inside}
                     [] OTHER -> {p \in {place} : There(p)}
        /\ row' = IF todo' = {} THEN row + 1 ELSE row
    /\ UNCHANGED <<pc, pass, tree, fresh, found>>

\* inventory_file, read_regular_file: what was there may be gone.
ReadText(place) ==
    /\ Here /\ TheLook.how \in {"text", "markdown"} /\ place \in todo
    /\ IF There(place) /\ Scannable(disk[place])
       THEN /\ fresh' = fresh \union {TextAsset(TheLook, place.at, disk[place])}
            /\ Done(place) /\ UNCHANGED <<pc, pass, tree, found>>
       ELSE Fail

\* validate_mcp_args and validate_public_url refuse a literal credential.
Literal(server) == server.literal

TakeServers(place, doc, servers) ==
    IF \E s \in servers : Literal(s) THEN Fail
    ELSE /\ fresh' = fresh \union {ServerAsset(TheLook, doc, s) : s \in servers}
         /\ Done(place) /\ UNCHANGED <<pc, pass, tree, found>>

\* Codex may do without servers, a JSON document may not.
ReadJson(place) ==
    /\ Here /\ TheLook.how = "json" /\ place \in todo
    /\ IF There(place) /\ disk[place].servers # None
       THEN TakeServers(place, disk[place], disk[place].servers)
       ELSE Fail

ReadToml(place) ==
    /\ Here /\ TheLook.how = "toml" /\ place \in todo
    /\ IF There(place)
       THEN TakeServers(place, disk[place],
                IF disk[place].servers = None THEN {} ELSE disk[place].servers)
       ELSE Fail

SkillFile(place, f) == Place(place.root, Append(place.at, f))

EnterSkill(place) ==
    /\ Here /\ TheLook.how = "skills" /\ tree = None /\ place \in todo
    /\ IF There(SkillFile(place, "SKILL.md"))
       THEN /\ tree' = [place |-> place, files |-> <<>>, left |-> None]
            /\ UNCHANGED <<todo, row>>
       ELSE Done(place) /\ UNCHANGED tree
    /\ UNCHANGED <<pc, pass, fresh, found>>

\* The walk begins after SKILL.md was seen, which may be gone by then.
ListSkill ==
    /\ Here /\ tree # None /\ tree.left = None
    /\ tree' = [tree EXCEPT !.left =
            {Last(p.at) : p \in Inside(tree.place.root, tree.place.at)}]
    /\ UNCHANGED <<pc, pass, row, todo, fresh, found>>

Listed == tree # None /\ tree.left # None

\* SKILL.md sorts before the names used here.
ReadSkillFile ==
    /\ Here /\ Listed /\ tree.left # {}
    /\ LET f == IF "SKILL.md" \in tree.left THEN "SKILL.md" ELSE CHOOSE f \in tree.left : TRUE
           text == disk[SkillFile(tree.place, f)] IN
        IF There(SkillFile(tree.place, f)) /\ (IsText(f) => Scannable(text))
        THEN /\ tree' = [tree EXCEPT !.left = @ \ {f},
                    !.files = [g \in DOMAIN @ \union {f} |-> IF g = f THEN text ELSE @[g]]]
             /\ UNCHANGED <<pc, pass, row, todo, fresh, found>>
        ELSE Fail

LeaveSkill ==
    /\ Here /\ Listed /\ tree.left = {}
    /\ fresh' = fresh \union {TreeAsset(TheLook, tree.place.at, tree.files)}
    /\ tree' = None /\ Done(tree.place)
    /\ UNCHANGED <<pc, pass, found>>

-----------------------------------------------------------------------------
(* Merging the passes *)

\* with_workspace_id
WithWorkspace(a) ==
    IF a.scope = "workspace" THEN [a EXCEPT !.workspace = scene.sources[pass].label] ELSE a

\* Mutant of Collide: the asset of the later pass replaces the other.
NeverCollide(assets) == FALSE

\* Equal ids and unequal assets: a secret was edited between two passes.
Collide(assets) == \E a, b \in assets : AssetId(a) = AssetId(b) /\ a # b

LastPass == pass = Len(scene.sources)

EndPass ==
    /\ pc = "collect" /\ pass <= Len(scene.sources) /\ row > Len(Collector(scene.from))
    /\ LET all == found \union {WithWorkspace(a) : a \in fresh} IN
        IF Collide(all) THEN Fail
        ELSE /\ found' = all /\ fresh' = {} /\ row' = 1
             /\ IF LastPass
                THEN pc' = "package" /\ pass' = 1
                ELSE pc' = pc /\ pass' = pass + 1
             /\ UNCHANGED <<todo, tree>>

Extract ==
    /\ \/ LookAround \/ ListSkill \/ ReadSkillFile \/ LeaveSkill \/ EndPass
       \/ \E place \in todo :
            ReadText(place) \/ ReadJson(place) \/ ReadToml(place) \/ EnterSkill(place)
    /\ UNCHANGED <<scene, disk, faults, edited>>

\* The user saves or removes a file while the command reads.
Edit(place, content) ==
    /\ pc = "collect" /\ faults < scene.faults /\ faults' = faults + 1
    /\ disk[place] # content
    /\ disk' = [disk EXCEPT ![place] = content]
    /\ edited' = edited \union {place}
    /\ UNCHANGED <<scene, pc, reading>>
=============================================================================

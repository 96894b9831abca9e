------------------------------- MODULE Exchange -------------------------------
(***************************************************************************)
(* A migration from the user's files on one machine to the plan on         *)
(* another: export or handoff collect, validate, sign, seal and write a    *)
(* package, something may happen to it on the way, and plan opens it,      *)
(* unpacks it, resolves the workspaces and renders every asset for the     *)
(* target platform.  Planner goes on from the rendered files.              *)
(***************************************************************************)
EXTENDS Bundle, Package

CONSTANTS
    DeviceKey, OtherKey,    \* the signing identities of two machines
    Capsule,                \* the payload of a handoff
    Maps                    \* workspace maps a user may write

VARIABLES
    signed,     \* the archive that was built
    file,       \* at the output path
    published,  \* what was ever signed (history)
    damaged,    \* did the file change after it was written? (history)
    opened,     \* the bundle plan reads
    target, map,
    left,       \* assets that are not rendered yet
    planned,    \* what is planned at every target file
    skipped     \* assets that are reported

sending == <<signed, file, published, damaged>>
receiving == <<opened, target, map, left, planned, skipped>>
vars == <<collectVars, sending, receiving>>

ASSUME CapsuleIsScanned ==
    /\ Capsule.marks \subseteq Marks \ {"binary"}
    /\ Capsule.secret = ("secret" \in Capsule.marks)

ASSUME KeysDiffer == DeviceKey # OtherKey

\* Every label is mapped to the place of a directory.
ASSUME MapsAreDirectories ==
    \A m \in Maps \ {MissingMap} : \A w \in DOMAIN m :
        m[w] = Place(m[w].root, m[w].at) /\ IsPath(m[w].at)

Torn == [torn |-> TRUE]
Refused(keys) == [refused |-> keys]
Garbled == [garbled |-> TRUE]

Init ==
    /\ InitCollect /\ pc = "start"
    /\ signed = {} /\ file = None /\ published = {} /\ damaged = FALSE
    /\ opened = None /\ target = None /\ map = MissingMap
    /\ left = {} /\ planned = <<>> /\ skipped = {}

-----------------------------------------------------------------------------
(* Sending *)

Explicit == scene.sources[1].label # None
Labels == IF Explicit THEN [i \in DOMAIN scene.sources |-> scene.sources[i].label] ELSE <<>>
LabelSet == {Labels[i] : i \in DOMAIN Labels}

\* validate_workspace_sources
ValidSources ==
    /\ ValidDescriptors(Labels)
    /\ \A i, j \in DOMAIN scene.sources : scene.sources[i].path = scene.sources[j].path => i = j

\* export begins; without --workspace it takes the current directory.
Export ==
    /\ pc = "start" /\ scene.from # None
    /\ IF ValidSources THEN pc' = "collect" /\ UNCHANGED reading ELSE Fail
    /\ UNCHANGED <<scene, disk, faults, edited, sending, receiving>>

\* create_handoff: a capsule of the user instead of his files.
Handoff ==
    /\ pc = "start" /\ scene.from = None
    /\ pc' = "package"
    /\ found' = {[platform |-> "codex", kind |-> "handoff", scope |-> "workspace",
                  title |-> "handoff", locator |-> <<"handoff", "capsule.json">>,
                  payload |-> Capsule, source |-> Capsule,
                  sensitivity |-> "private", workspace |-> None]}
    /\ UNCHANGED <<scene, disk, pass, row, todo, tree, fresh, faults, edited, sending, receiving>>

Collecting == pc = "collect" /\ Extract /\ UNCHANGED <<sending, receiving>>

Publish(b, objects, features, key) ==
    /\ signed' = Build(objects, features, key)
    /\ published' = published \union {[bundle |-> b, signer |-> key]}
    /\ pc' = "create"
    /\ found' = {} /\ UNCHANGED <<pass, row, todo, tree, fresh>>

\* package_assets_with_workspaces
PackageAssets ==
    /\ pc = "package"
    /\ LET b == Bundles(found, LabelSet) IN
        IF Packable(b, Labels)
        THEN Publish(b, Pack(b), Features(b), DeviceKey)
        ELSE Fail /\ UNCHANGED <<signed, published>>
    /\ UNCHANGED <<scene, disk, faults, edited, file, damaged, receiving>>

\* What another version of the program may put in a package and sign.
Variants(objects) ==
    LET less == {[p \in DOMAIN objects \ {q} |-> objects[p]] : q \in DOMAIN objects}
        swapped == {[objects EXCEPT ![p] = objects[q]] : p, q \in In(objects, "blobs")}
        assets == In(objects, "assets")
        other == {[objects EXCEPT ![p] = [@ EXCEPT !.sensitivity = "private"]] : p \in assets}
                 \union {[objects EXCEPT ![p] = [@ EXCEPT !.workspace = None]] : p \in assets} IN
    less \union swapped \union other

OtherVersion ==
    /\ pc = "package" /\ faults < scene.faults /\ faults' = faults + 1
    /\ LET b == Bundles(found, LabelSet) IN
        /\ Packable(b, Labels)
        /\ \E objects \in Variants(Pack(b)), features \in {{}, {"portable-workspaces"}, {"later"}} :
            Publish(Unpacked(objects), objects, features, OtherKey)
    /\ UNCHANGED <<scene, disk, edited, file, damaged, receiving>>

\* write_new_private creates the file at its final name and never replaces one.
Create ==
    /\ pc = "create"
    /\ IF file = None THEN file' = Torn /\ pc' = "write" /\ UNCHANGED reading
                      ELSE Fail /\ UNCHANGED file
    /\ UNCHANGED <<scene, disk, faults, edited, signed, published, damaged, receiving>>

WriteAll ==
    /\ pc = "write"
    /\ file' = Seal(signed, scene.wrap) /\ pc' = "sent"
    /\ UNCHANGED <<scene, disk, reading, faults, edited, signed, published, damaged, receiving>>

\* An error or the end of the process: a part of the bytes stays at the name.
WriteError ==
    /\ pc = "write" /\ faults < scene.faults /\ faults' = faults + 1
    /\ pc' = "sent" /\ damaged' = TRUE
    /\ UNCHANGED <<scene, disk, reading, edited, signed, file, published, receiving>>

\* The user runs the command again.
Again ==
    /\ pc = "sent" /\ file = Torn
    /\ pc' = "start"
    /\ UNCHANGED <<scene, disk, reading, faults, edited, sending, receiving>>

-----------------------------------------------------------------------------
(* On the way *)

Altered(body) ==
    {Garbled} \union
    IF IsManifest(body)
    THEN {[body EXCEPT !.signer = OtherKey], [body EXCEPT !.canonical = FALSE]}
         \union {[body EXCEPT !.objects = [q \in DOMAIN @ \ {p} |-> @[q]],
                              !.root = [q \in DOMAIN @ \ {p} |-> @[q]]] :
                    p \in DOMAIN body.objects}
    ELSE {}

Copy(r) == [r EXCEPT !.nr = @ + 1]

DamagedArchives(archive) ==
    {archive \ {r} : r \in archive}
    \union {archive \union {Copy(r)} : r \in archive}
    \union {archive \union {[Copy(r) EXCEPT !.body = Garbled]} : r \in archive}
    \union {archive \union {Record(Path("blobs", Garbled), Garbled)}}
    \union {(archive \ {r}) \union {[r EXCEPT !.regular = FALSE]} : r \in archive}
    \union UNION {{(archive \ {r}) \union {[r EXCEPT !.body = body]} : body \in Altered(r.body)} :
                    r \in archive}

\* Records are lost, doubled or changed; a wrapped package just breaks.
Damage ==
    /\ pc = "sent" /\ faults < scene.faults /\ faults' = faults + 1
    /\ file # Torn /\ damaged' = TRUE
    /\ IF file.wrap = Plain
       THEN \E a \in DamagedArchives(file.archive) : file' = [file EXCEPT !.archive = a]
       ELSE file' = Torn
    /\ UNCHANGED <<scene, disk, pc, reading, edited, signed, published, receiving>>

-----------------------------------------------------------------------------
(* Receiving *)

\* open_package and unpack_bundle, as inspect and plan call them.
Readable(keys) ==
    /\ file # Torn /\ Opens(file, keys) /\ Verifies(file.archive)
    /\ LET v == Verified(file.archive) IN Unpackable(v.objects, v.features)

Open(keys) ==
    /\ pc = "sent"
    /\ IF Readable(keys)
       THEN /\ opened' = [bundle |-> Unpacked(Verified(file.archive).objects),
                          signer |-> Verified(file.archive).signer]
            /\ pc' = "map"
       ELSE opened' = Refused(keys) /\ pc' = "end"
    /\ UNCHANGED <<scene, disk, reading, faults, edited, sending, target, map, left,
                   planned, skipped>>

ResolveMap(to, m) ==
    /\ pc = "map"
    /\ target' = to /\ map' = m
    /\ IF ResolvedMap(opened.bundle.workspaces, m)
       THEN left' = opened.bundle.assets /\ pc' = "render"
       ELSE UNCHANGED left /\ pc' = "end"
    /\ UNCHANGED <<scene, disk, reading, faults, edited, sending, opened, planned, skipped>>

\* resolve_rendered_path
Resolve(a, place) ==
    IF place.root # "workspace" THEN place
    ELSE IF a.workspace = None THEN Place("current", place.at)
    ELSE Place(map[a.workspace].root, map[a.workspace].at \o place.at)

\* Prompts and rules get a header where the product wants one.
Rendered(a, text) ==
    [text |-> text,
     header |-> CASE KindAt(target, a.kind) # a.kind -> "prompt"
                  [] target = "cursor" /\ a.kind = "instruction" /\
                        ~(a.platform = target /\ IsExact(target, a.locator)) -> "rule"
                  [] OTHER -> "none"]

\* The files of an asset, as a function from their places to their content.
FilesOf(a) ==
    LET place == Resolve(a, Render(target, a)) IN
    IF a.kind = "skill"
    THEN [p \in {SkillFile(place, f) : f \in DOMAIN a.payload} |-> Rendered(a, a.payload[Last(p.at)])]
    ELSE [p \in {place} |-> Rendered(a, a.payload)]

IsDocument(content) == "servers" \in DOMAIN content

Servers(p) == IF p \in DOMAIN planned THEN planned[p].servers ELSE {}

Skip(a) == skipped' = skipped \union {a} /\ UNCHANGED planned

\* Servers are merged into one document; one name has one definition, and a
\* text of an earlier asset is no document.
RenderServer(a) ==
    LET p == Resolve(a, Render(target, a)) IN
    IF \/ p \in DOMAIN planned /\ ~IsDocument(planned[p])
       \/ \E s \in Servers(p) : s.name = a.payload.name /\ s # a.payload
    THEN Skip(a)
    ELSE /\ planned' = [q \in DOMAIN planned \union {p} |->
                IF q = p THEN [servers |-> Servers(p) \union {a.payload}] ELSE planned[q]]
         /\ UNCHANGED skipped

\* The first asset of a target file wins; the others are reported.
RenderFiles(a) ==
    LET files == FilesOf(a)
        taken == DOMAIN files \intersect DOMAIN planned IN
    /\ planned' = [p \in DOMAIN planned \union DOMAIN files |->
            IF p \in DOMAIN planned THEN planned[p] ELSE files[p]]
    /\ skipped' = skipped \union
            IF \E p \in taken : planned[p] # files[p] THEN {a} ELSE {}

\* prepare_migration_with_managed; ids are hashes, so the order is any order.
RenderAsset(a) ==
    /\ pc = "render" /\ a \in left
    /\ left' = left \ {a}
    /\ IF a.sensitivity = "quarantined" \/ Render(target, a) = Manual THEN Skip(a)
       ELSE IF a.kind = "mcp" THEN RenderServer(a) ELSE RenderFiles(a)
    /\ UNCHANGED <<scene, disk, pc, reading, faults, edited, sending, opened, target, map>>

FinishPlan ==
    /\ pc = "render" /\ left = {}
    /\ pc' = "end"
    /\ UNCHANGED <<scene, disk, reading, faults, edited, sending, receiving>>

Next ==
    \/ Export \/ Handoff \/ Collecting \/ PackageAssets \/ OtherVersion
    \/ Create \/ WriteAll \/ WriteError \/ Again \/ Damage
    \/ \E e \in scene.edits : Edit(e.place, e.content) /\ UNCHANGED <<sending, receiving>>
    \/ \E keys \in {{}, {scene.wrap}} : Open(keys)
    \/ \E to \in scene.targets, m \in Maps : ResolveMap(to, m)
    \/ \E a \in left : RenderAsset(a)
    \/ FinishPlan

Spec == Init /\ [][Next]_vars

-----------------------------------------------------------------------------
(***************************************************************************)
(* What plan or inspect reads is what export or handoff packaged under     *)
(* that signature, whatever happened to the records on the way.            *)
(***************************************************************************)
OpenedIsPublished ==
    opened # None /\ "bundle" \in DOMAIN opened =>
        [bundle |-> opened.bundle, signer |-> opened.signer] \in published

(***************************************************************************)
(* export and plan validate alike: a package that reached the target as it *)
(* was written opens with its key.  The exception is a package above the   *)
(* limits of verify, which the builder does not know.                      *)
(***************************************************************************)
TooLarge == Cardinality(signed) > MaxEntries \/ TarBytes(signed) > MaxBytes

UndamagedOpens ==
    opened # None /\ ~damaged /\ ~TooLarge /\ {s.signer : s \in published} = {DeviceKey} =>
        \/ "bundle" \in DOMAIN opened
        \/ scene.wrap # Plain /\ opened.refused = {}

(***************************************************************************)
(* An export without faults only fails for a reason in the user's files:   *)
(* what collect reads, classifies and redacts is what package accepts.     *)
(* They disagree where redaction leaves a credential, and where the JSON   *)
(* form of a text or the name of a Skill file looks like one: collect      *)
(* takes such a file and package refuses the whole export.                 *)
(***************************************************************************)
Portable(server) == ~server.literal /\ ~server.secret /\ server.name \notin Unportable

ReadAs(hows, place) ==
    \E i \in DOMAIN Collector(scene.from) :
        LET look == Collector(scene.from)[i] IN
        look.how \in hows /\ Finds(look, place.at)

Accepted(place, content) ==
    IF ReadAs({"json", "toml"}, place)
    THEN content.servers # None /\ \A s \in content.servers : Portable(s)
    ELSE IF ReadAs({"text", "markdown"}, place)
    THEN content.marks \intersect {"binary", "residue", "spanning"} = {}
    ELSE /\ Last(place.at) \notin SecretNames
         /\ IF IsText(Last(place.at))
            THEN content.marks \intersect {"binary", "residue"} = {}
            ELSE "secret" \in content.marks => "binary" \in content.marks

CleanExports ==
    pc = "failed" /\ faults = 0 =>
        \/ ~ValidSources
        \/ scene.from = None /\ Capsule.secret
        \/ \E place \in DOMAIN scene.disk : scene.disk[place] # None /\ ~Accepted(place, scene.disk[place])

(***************************************************************************)
(* Sources that are read once per workspace give one asset of the user and *)
(* one of every workspace.  When the user edits a file between two passes, *)
(* both versions are packaged under their own ids, or export refuses: no   *)
(* asset takes the place of another.                                       *)
(***************************************************************************)
OncePerSource ==
    pc = "package" => \A a, b \in found :
        /\ AssetId(a) = AssetId(b) => a = b
        /\ /\ edited = {}
           /\ <<a.kind, a.scope, a.locator>> = <<b.kind, b.scope, b.locator>>
           /\ a.scope = "user" \/ a.workspace = b.workspace
           => a = b

(***************************************************************************)
(* Nothing is planned automatically that runs, is not text or still scans  *)
(* as a credential, even when another version of the program classified it *)
(* otherwise.  Of a capsule, which the user writes for this, only a secret *)
(* is refused.  What the scanner marks and nothing reviews is planned: an  *)
(* e-mail address, the body of a private key.                              *)
(***************************************************************************)
Reviewed(content) ==
    IF IsDocument(content) THEN \A s \in content.servers : ~s.secret
    ELSE content.text.marks \intersect {"secret", "active", "binary"} \subseteq
            IF content.text = Capsule THEN {"active"} ELSE {}

CredentialsAndCodeHeldBack == \A p \in DOMAIN planned : Reviewed(planned[p])

(***************************************************************************)
(* An asset that is not reported arrives whole, at places where the        *)
(* collector of the target platform finds it again as what it is.          *)
(***************************************************************************)
Found(a) ==
    \/ a.kind = "handoff"
    \/ a.kind = "mcp" /\ a.scope = "user" /\ target = "cursor"
    \/ a.kind = "skill" /\ "SKILL.md" \notin DOMAIN a.payload
    \/ Reads(target, KindAt(target, a.kind), Render(target, a))

Finished ==
    pc = "end" /\ target # None /\ ResolvedMap(opened.bundle.workspaces, map)

Whole(a) ==
    IF a.kind = "mcp"
    THEN LET p == Resolve(a, Render(target, a)) IN
         p \in DOMAIN planned /\ IsDocument(planned[p]) /\ a.payload \in planned[p].servers
    ELSE \A p \in DOMAIN FilesOf(a) : p \in DOMAIN planned /\ planned[p] = FilesOf(a)[p]

AssetsArrive ==
    Finished => \A a \in opened.bundle.assets \ skipped : Found(a) /\ Whole(a)
=============================================================================

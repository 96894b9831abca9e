-------------------------------- MODULE Bundle --------------------------------
(***************************************************************************)
(* The objects of a package: package_assets_with_workspaces puts the       *)
(* assets, their blobs and the workspaces of a bundle there, unpack_bundle *)
(* reads them back, and both validate what they see.  A digest is the      *)
(* content itself, and a workspace is its label.                           *)
(***************************************************************************)
EXTENDS Collect

CONSTANTS
    BadLabels,          \* labels that workspace_descriptor refuses
    Unportable,         \* server names that make no portable locator
    SecretNames,        \* names of Skill files that look like credentials
    MissingMap          \* no workspace map was given

Path(dir, id) == [dir |-> dir, id |-> id]

Bundles(assets, workspaces) == [assets |-> assets, workspaces |-> workspaces]

\* validate_workspace_descriptors; a sequence, for its labels may repeat.
ValidDescriptors(labels) ==
    /\ \A i \in DOMAIN labels : labels[i] \notin BadLabels
    /\ \A i, j \in DOMAIN labels : labels[i] = labels[j] => i = j

\* validate_asset_workspace_references
ValidReference(a, workspaces) ==
    IF a.scope # "workspace" THEN a.workspace = None
    ELSE IF workspaces = {} THEN a.workspace = None
         ELSE a.workspace \in workspaces

\* referenced_hashes
Blobs(a) ==
    CASE a.kind \in {"instruction", "prompt"} -> {a.payload}
      [] a.kind = "skill" -> {a.payload[f] : f \in DOMAIN a.payload}
      [] OTHER -> {}

\* Mutant of ValidObject: active and non-text content needs no class.
ValidSecretsOnly(a, content) == "secret" \in content.marks => "binary" \in content.marks

\* validate_object_bytes
ValidObject(a, content) ==
    /\ "secret" \in content.marks => "binary" \in content.marks
    /\ content.marks \intersect {"active", "binary"} # {} => a.sensitivity = "quarantined"

\* The JSON form of the payload: a text, the names of files, or a record.
SecretPayload(a) ==
    CASE a.kind \in {"instruction", "prompt"} -> "spanning" \in a.payload.marks
      [] a.kind = "skill" -> DOMAIN a.payload \intersect SecretNames # {}
      [] OTHER -> a.payload.secret

\* validate_extracted_asset
ValidAsset(a) ==
    /\ a.kind = "mcp" => a.title \notin Unportable
    /\ \A content \in Blobs(a) : ValidObject(a, content)
    /\ ~SecretPayload(a)

Packable(b, labels) ==
    /\ ValidDescriptors(labels)
    /\ \A a \in b.assets : ValidReference(a, b.workspaces) /\ ValidAsset(a)

\* Mutant of Features: workspaces are packaged without the feature.
NoFeatures(b) == {}

Features(b) == IF b.workspaces = {} THEN {} ELSE {"portable-workspaces"}

\* Every object below its path.
Pack(b) ==
    LET blobs == UNION {Blobs(a) : a \in b.assets}
        paths == {Path("workspaces", w) : w \in b.workspaces}
                 \union {Path("assets", AssetId(a)) : a \in b.assets}
                 \union {Path("blobs", c) : c \in blobs} IN
    [p \in paths |->
        CASE p.dir = "assets" -> CHOOSE a \in b.assets : AssetId(a) = p.id
          [] p.dir = "workspaces" -> [label |-> p.id]
          [] p.dir = "blobs" -> p.id]

-----------------------------------------------------------------------------
In(objects, dir) == {p \in DOMAIN objects : p.dir = dir}

\* The path of an object names what is in it.
PathsAgree(objects) ==
    /\ \A p \in In(objects, "blobs") : objects[p] = p.id
    /\ \A p \in In(objects, "workspaces") : objects[p].label = p.id
    /\ \A p \in In(objects, "assets") : AssetId(objects[p]) = p.id

Unpacked(objects) ==
    Bundles({objects[p] : p \in In(objects, "assets")},
            {p.id : p \in In(objects, "workspaces")})

\* unpack_bundle
Unpackable(objects, features) ==
    LET b == Unpacked(objects)
        blobs == {p.id : p \in In(objects, "blobs")} IN
    /\ PathsAgree(objects)
    /\ b.workspaces # {} => "portable-workspaces" \in features
    /\ b.workspaces \intersect BadLabels = {}
    /\ \A a \in b.assets :
        /\ Blobs(a) \subseteq blobs
        /\ ValidAsset(a)
        /\ ValidReference(a, b.workspaces)

-----------------------------------------------------------------------------
\* resolve_workspace_mappings: exact keys and a directory for each of them; one
\* may lie in another, or in a root of the product.
ResolvedMap(workspaces, map) ==
    IF workspaces = {} THEN map \in {MissingMap, <<>>}
    ELSE /\ map # MissingMap /\ DOMAIN map = workspaces
         /\ \A v, w \in workspaces : map[v] = map[w] => v = w
=============================================================================

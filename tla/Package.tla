------------------------------- MODULE Package -------------------------------
(***************************************************************************)
(* The signed archive: PackageBuilder::build makes it, verify reads it     *)
(* whatever happened to its records on the way, and age wraps it.  A       *)
(* digest is the content itself, a signature is the key and what it        *)
(* signs.  The manifest holds the digests as a function from paths, which  *)
(* keeps them sorted and unique.                                           *)
(***************************************************************************)
EXTENDS Naturals, FiniteSets

CONSTANTS
    MaxEntries,     \* records of an archive
    MaxBytes,       \* of the uncompressed archive
    Plain           \* not wrapped

ASSUME LimitsAssumption == MaxEntries \in Nat /\ MaxBytes \in Nat

ManifestPath == [dir |-> "manifest.json"]
SignaturePath == [dir |-> "signature.ed25519"]

\* A record of the archive.  read_tar puts them into a map, so their order does
\* not matter; records that are equal otherwise have different numbers.
Record(path, body) == [path |-> path, body |-> body, regular |-> TRUE, nr |-> 1]

\* A record has a header and its content, both in whole blocks.
TarBytes(archive) == 2 * Cardinality(archive)

Manifest(objects, features, key) ==
    [signer |-> key, features |-> {"signed-manifest", "sha256-objects"} \union features,
     objects |-> objects, root |-> objects, format |-> "mnemo/1", canonical |-> TRUE]

Sign(manifest, key) == [key |-> key, over |-> manifest]

\* The builder has no limits.
Archive(manifest, signature, objects) ==
    {Record(ManifestPath, manifest), Record(SignaturePath, signature)}
    \union {Record(p, objects[p]) : p \in DOMAIN objects}

Build(objects, features, key) ==
    LET manifest == Manifest(objects, features, key) IN
    Archive(manifest, Sign(manifest, key), objects)

-----------------------------------------------------------------------------
PathsOf(archive) == {r.path : r \in archive}

\* read_tar
ReadTar(archive) ==
    /\ Cardinality(archive) <= MaxEntries
    /\ \A r \in archive : r.regular
    /\ \A r, s \in archive : r.path = s.path => r = s

Body(archive, path) == (CHOOSE r \in archive : r.path = path).body

IsManifest(body) == "signer" \in DOMAIN body
IsSignature(body) == "over" \in DOMAIN body

Supported == {"portable-workspaces", "sha256-objects", "signed-manifest"}

\* validate_manifest_contract
Contract(manifest) ==
    /\ manifest.format = "mnemo/1"
    /\ manifest.features \subseteq Supported
    /\ Cardinality(DOMAIN manifest.objects) <= MaxEntries - 2
    /\ Cardinality(DOMAIN manifest.objects) <= MaxBytes

\* Neither more nor fewer objects than the manifest names, and their bytes.
Matches(manifest, archive) ==
    /\ PathsOf(archive) \ {ManifestPath, SignaturePath} = DOMAIN manifest.objects
    /\ \A p \in DOMAIN manifest.objects : Body(archive, p) = manifest.objects[p]

\* Mutant of Signed: the signature is not compared with the manifest read.
SignedByKey(manifest, signature) == IsSignature(signature) /\ signature.key = manifest.signer

Signed(manifest, signature) ==
    IsSignature(signature) /\ signature = Sign(manifest, manifest.signer)

Verifies(archive) ==
    /\ TarBytes(archive) <= MaxBytes
    /\ ReadTar(archive)
    /\ {ManifestPath, SignaturePath} \subseteq PathsOf(archive)
    /\ LET manifest == Body(archive, ManifestPath)
           signature == Body(archive, SignaturePath) IN
        /\ IsManifest(manifest) /\ Contract(manifest) /\ manifest.canonical
        /\ Signed(manifest, signature)
        /\ Matches(manifest, archive)
        /\ manifest.root = manifest.objects

\* What the signed manifest names.
Verified(archive) ==
    LET manifest == Body(archive, ManifestPath) IN
    [objects |-> [p \in DOMAIN manifest.objects |-> Body(archive, p)],
     features |-> manifest.features, signer |-> manifest.signer]

-----------------------------------------------------------------------------
\* seal_package; a damaged wrapping is not opened by any key.
Seal(archive, wrap) == [archive |-> archive, wrap |-> wrap]

\* open_package: the identity first, then the passphrase.
Opens(file, keys) == file.wrap = Plain \/ file.wrap \in keys
=============================================================================

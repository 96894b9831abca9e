----------------------------- MODULE PlannerProofs -----------------------------
(***************************************************************************)
(* Planner for every package, every start and any number of edits: what    *)
(* the user has is not replaced, no asset is dropped without a word, and   *)
(* no entry of a document is lost unless both reads of it raced.  ConvInv  *)
(* is about what a calm apply leaves: planning again repeats it, and       *)
(* discovery finds it.                                                     *)
(***************************************************************************)
EXTENDS Planner, TLAPS

-----------------------------------------------------------------------------
(* The inductive invariant *)

\* The preparation is complete at the later steps of a command.
Control ==
    /\ pc = "idle" => cmd = None
    /\ pc \in Discovering => cmd = "verify"
    /\ cmd \in {"apply", "verify"} => saved # None
    /\ pc # "render" /\ pc # "idle" => next > Len(package)
    /\ pc = "idle" => next = 1

\* What the ledger owns, mnemo installed; so did it what a preparation knows.
OwnedInstalled ==
    \A t \in Targets :
        /\ managed[t] # None => managed[t] \in installed[t]
        /\ known[t] # None => known[t] \in installed[t]

PlannedMentioned == \A t \in Targets : Planned(t) => t \in Mentioned

\* An asset is in the file that is planned for its target.
Accounted(i) ==
    LET a == package[i] IN
        /\ Planned(a.target)
        /\ prepared[a.target].content.entries[a.name] # None
        /\ prepared[a.target].content.entries[a.name].value = a.value
        /\ a.kind = "mcp" => i \in prepared[a.target].from

RenderedAccounted == \A i \in DOMAIN package \ skipped : i < next => Accounted(i)

FromPackage == \A t \in Targets : Planned(t) => prepared[t].from \subseteq 1..Len(package)

\* Every entry of old is in new as it was.
Keeps(new, old) ==
    \A n \in Names : old.entries[n] # None => new.entries[n] = old.entries[n]

\* Merging loses no entry of the document it read.
MergeKeeps ==
    \A t \in Targets :
        Planned(t) /\ McpOnly(t) /\ merged[t] \in Document =>
            Keeps(prepared[t].content, merged[t])

\* Unless the target changed in between, the hash is of the document merged.
ObservedMerged ==
    pc \in {"lookup", "done"} /\ cmd \in {"plan", "apply"} =>
        \A t \in Targets :
            Planned(t) /\ McpOnly(t) /\ t \notin raced[cmd] => observed[t] = merged[t]

\* So what the approved plan writes keeps every entry of what it expects.
SavedKeeps ==
    saved # None /\ cmd # "plan" =>
        \A t \in Targets :
            (saved[t] # None /\ McpOnly(t) /\ t \notin raced["plan"]
             /\ saved[t].expected \in Document) =>
                Keeps(saved[t].file.content, saved[t].expected)

Inv ==
    /\ TypeOK /\ Control /\ OwnedInstalled /\ PlannedMentioned
    /\ RenderedAccounted /\ FromPackage /\ MergeKeeps /\ ObservedMerged /\ SavedKeeps

-----------------------------------------------------------------------------
(* Assets and documents *)

LEMMA PackageAssets ==
    ASSUME TypeOK
    PROVE  /\ package \in Seq(Asset) /\ DOMAIN package = 1..Len(package) /\ Len(package) \in Nat
           /\ \A i \in DOMAIN package : package[i] \in Asset
  BY PackagesAreSequences DEF TypeOK

LEMMA AssetFields ==
    ASSUME NEW a \in Asset
    PROVE  /\ a.id \in Ids /\ a.kind \in {"text", "mcp"} /\ a.target \in Targets
           /\ a.name \in Names /\ a.value \in Values
  BY DEF Asset

LEMMA DocumentFields ==
    ASSUME NEW doc \in Document
    PROVE  doc.entries \in [Names -> Entry \union {None}] /\ doc.style \in {"mnemo", "user"}
  BY DEF Document

LEMMA EmptyDocument ==
    Empty \in Document /\ \A n \in Names : Empty.entries[n] = None
  BY DEF Empty, Document

LEMMA EntryOfAsset ==
    ASSUME NEW a \in Asset
    PROVE  EntryOf(a) \in Entry /\ EntryOf(a) # None /\ EntryOf(a).value = a.value
<1>1. EntryOf(a) \in Entry /\ EntryOf(a).value = a.value
  BY AssetFields DEF EntryOf, Entry
<1> QED
  BY <1>1, NoneIsApart

\* An asset that does not collide is put into a document without loss.
LEMMA PutDocument ==
    ASSUME NEW a \in Asset, NEW doc \in Document,
           doc.entries[a.name] # None => Agrees(a, doc.entries[a.name])
    PROVE  /\ Put(a, doc) \in Document
           /\ Put(a, doc).entries[a.name] # None
           /\ Put(a, doc).entries[a.name].value = a.value
           /\ Keeps(Put(a, doc), doc)
<1> DEFINE old == doc.entries[a.name]
           entry == IF old # None /\ Agrees(a, old) THEN old ELSE EntryOf(a)
           style == IF Toml(a) THEN doc.style ELSE "mnemo"
<1>1. a.name \in Names /\ old \in Entry \union {None} /\ doc.entries \in [Names -> Entry \union {None}]
  BY AssetFields, DocumentFields
<1>2. entry \in Entry /\ entry # None /\ entry.value = a.value /\ (old # None => entry = old)
  BY <1>1, EntryOfAsset DEF Agrees
<1>3. Put(a, doc) = [entries |-> [doc.entries EXCEPT ![a.name] = entry], style |-> style]
  BY DEF Put
<1>4. style \in {"mnemo", "user"}
  BY DocumentFields
<1> HIDE DEF entry, style
<1>5. [doc.entries EXCEPT ![a.name] = entry] \in [Names -> Entry \union {None}]
  BY <1>1, <1>2
<1>6. Put(a, doc) \in Document
  BY <1>3, <1>4, <1>5 DEF Document
<1>7. Put(a, doc).entries = [doc.entries EXCEPT ![a.name] = entry]
  BY <1>3
<1> QED
  BY <1>1, <1>2, <1>6, <1>7 DEF Keeps

LEMMA PutEmpty ==
    ASSUME NEW a \in Asset
    PROVE  /\ Put(a, Empty) \in Document
           /\ Put(a, Empty).entries[a.name] # None
           /\ Put(a, Empty).entries[a.name].value = a.value
<1>1. Empty \in Document /\ Empty.entries[a.name] = None
  BY EmptyDocument, AssetFields
<1> QED
  BY <1>1, PutDocument

LEMMA PreparedFields ==
    ASSUME TypeOK, NEW t \in Targets, Planned(t)
    PROVE  /\ prepared[t] \in Prepared /\ prepared[t].content \in Document
           /\ prepared[t].from \subseteq Nat
  BY DEF TypeOK, Planned, Prepared

LEMMA BaseDocument ==
    ASSUME TypeOK, NEW a \in Asset, Mergeable(a, Base(a))
    PROVE  /\ Base(a) \in Document
           /\ Planned(a.target) => Base(a) = prepared[a.target].content
           /\ ~Planned(a.target) /\ files[a.target] # None => Base(a) = files[a.target]
<1>1. a.target \in Targets
  BY AssetFields
<1>2. CASE Planned(a.target)
  BY <1>1, <1>2, PreparedFields DEF Base, Planned
<1>3. CASE ~Planned(a.target)
  BY <1>1, <1>3, EmptyDocument DEF Base, Planned, Mergeable, TypeOK, FileState
<1> QED
  BY <1>2, <1>3

-----------------------------------------------------------------------------
(* Rendering one asset *)

\* An asset is left out and reported.
Left(i) == skipped' = skipped \union {i} /\ UNCHANGED <<prepared, merged>>

\* A file is planned for its target with it, and what was there stays.
Laid(a, i, doc) ==
    /\ doc \in Document
    /\ doc.entries[a.name] # None /\ doc.entries[a.name].value = a.value
    /\ prepared' = [prepared EXCEPT ![a.target] =
            [content |-> doc, from |-> From(a.target) \union {i}]]
    /\ skipped' = skipped
    /\ \A t \in Targets \ {a.target} : merged'[t] = merged[t]
    /\ merged' \in [Targets -> FileState]
    /\ IF Planned(a.target)
       THEN merged' = merged /\ Keeps(doc, prepared[a.target].content)
       ELSE McpOnly(a.target) /\ merged'[a.target] \in Document =>
                Keeps(doc, merged'[a.target])

\* The same text is already planned.
Twice(a) ==
    /\ a.kind = "text" /\ Planned(a.target) /\ prepared[a.target].content = Put(a, Empty)
    /\ UNCHANGED <<prepared, skipped, merged>>

LEMMA RenderMcpOutcome ==
    ASSUME TypeOK, NEW a \in Asset, NEW i, RenderMcp(a, i)
    PROVE  Left(i) \/ Laid(a, i, Put(a, Base(a)))
<1>1. CASE ~Mergeable(a, Base(a))
  BY <1>1 DEF RenderMcp, Skip, Left
<1>2. CASE Mergeable(a, Base(a))
  <2>1. /\ Put(a, Base(a)) \in Document
        /\ Put(a, Base(a)).entries[a.name] # None
        /\ Put(a, Base(a)).entries[a.name].value = a.value
        /\ Keeps(Put(a, Base(a)), Base(a))
    BY <1>2, BaseDocument, PutDocument DEF Mergeable
  <2>2. /\ prepared' = [prepared EXCEPT ![a.target] =
              [content |-> Put(a, Base(a)), from |-> From(a.target) \union {i}]]
        /\ skipped' = skipped
        /\ merged' = [merged EXCEPT ![a.target] =
              IF prepared[a.target] = None THEN files[a.target] ELSE @]
    BY <1>2 DEF RenderMcp, Prepare
  <2>3. a.target \in Targets /\ merged \in [Targets -> FileState] /\ files[a.target] \in FileState
    BY AssetFields DEF TypeOK
  <2>4. merged' \in [Targets -> FileState] /\ \A t \in Targets \ {a.target} : merged'[t] = merged[t]
    BY <2>2, <2>3
  <2>5. CASE Planned(a.target)
    BY <1>2, <2>1, <2>2, <2>3, <2>4, <2>5, BaseDocument DEF Laid, Planned
  <2>6. CASE ~Planned(a.target)
    <3>1. merged'[a.target] = files[a.target]
      BY <2>2, <2>3, <2>6 DEF Planned
    <3>2. merged'[a.target] \in Document => Base(a) = merged'[a.target]
      BY <1>2, <2>6, <3>1, BaseDocument, NoneIsApart
    <3> QED
      BY <2>1, <2>2, <2>4, <2>6, <3>2 DEF Laid
  <2> QED
    BY <2>5, <2>6
<1> QED
  BY <1>1, <1>2

LEMMA RenderTextOutcome ==
    ASSUME TypeOK, NEW i \in DOMAIN package, package[i].kind = "text", RenderText(package[i], i)
    PROVE  Left(i) \/ Twice(package[i]) \/ Laid(package[i], i, Put(package[i], Empty))
<1> DEFINE a == package[i]
<1>1. a \in Asset /\ a.target \in Targets
  BY PackageAssets, AssetFields
<1>2. CASE ~Planned(a.target)
  <2>1. ~McpOnly(a.target)
    BY DEF McpOnly
  <2>2. From(a.target) = {}
    BY <1>2 DEF From, Planned
  <2>3. /\ prepared' = [prepared EXCEPT ![a.target] =
              [content |-> Put(a, Empty), from |-> From(a.target) \union {i}]]
        /\ skipped' = skipped /\ merged' = merged
    BY <1>2, <2>2 DEF RenderText, Prepare, Planned
  <2> QED
    BY <1>1, <1>2, <2>1, <2>3, PutEmpty DEF Laid, TypeOK
<1>3. CASE Planned(a.target)
  BY <1>3 DEF RenderText, Planned, Skip, Left, Twice
<1> QED
  BY <1>2, <1>3

LEMMA RenderOutcome ==
    ASSUME TypeOK, Render
    PROVE  /\ next \in DOMAIN package /\ package[next] \in Asset /\ next' = next + 1
           /\ \/ Left(next) \/ Twice(package[next])
              \/ \E doc : Laid(package[next], next, doc)
<1>1. next \in DOMAIN package /\ package[next] \in Asset
  BY PackageAssets DEF TypeOK, Render
<1>2. CASE package[next].quarantined
  BY <1>1, <1>2 DEF Render, Skip, Left
<1>3. CASE ~package[next].quarantined /\ package[next].kind = "mcp"
  BY <1>1, <1>3, RenderMcpOutcome DEF Render
<1>4. CASE ~package[next].quarantined /\ package[next].kind # "mcp"
  BY <1>1, <1>4, AssetFields, RenderTextOutcome DEF Render
<1> QED
  BY <1>1, <1>2, <1>3, <1>4 DEF Render

LEMMA LaidPrepared ==
    ASSUME TypeOK, NEW i \in DOMAIN package, NEW doc, Laid(package[i], i, doc)
    PROVE  LET t == package[i].target IN
           /\ t \in Targets /\ t \in Mentioned
           /\ prepared'[t] = [content |-> doc, from |-> From(t) \union {i}]
           /\ prepared'[t] \in Prepared /\ prepared'[t] # None
           /\ \A u \in Targets \ {t} : prepared'[u] = prepared[u]
           /\ prepared' \in [Targets -> Prepared \union {None}]
<1> DEFINE t == package[i].target
           new == [content |-> doc, from |-> From(t) \union {i}]
<1>1. t \in Targets /\ t \in Mentioned /\ i \in Nat
  BY PackageAssets, AssetFields DEF Mentioned
<1>2. From(t) \subseteq Nat
  BY <1>1, PreparedFields DEF From, Planned
<1>3. new \in Prepared
  BY <1>1, <1>2 DEF Laid, Prepared
<1>4. new # None
  BY <1>3, NoneIsApart
<1>5. prepared' = [prepared EXCEPT ![t] = new] /\ prepared \in [Targets -> Prepared \union {None}]
  BY DEF Laid, TypeOK
<1> HIDE DEF new
<1>6. /\ prepared'[t] = new /\ \A u \in Targets \ {t} : prepared'[u] = prepared[u]
      /\ prepared' \in [Targets -> Prepared \union {None}]
  BY <1>1, <1>3, <1>5
<1> QED
  BY <1>1, <1>3, <1>4, <1>6 DEF new

LEMMA RenderTypes ==
    ASSUME TypeOK, Render
    PROVE  TypeOK'
<1>1. next' \in Nat \ {0}
  BY RenderOutcome DEF TypeOK
<1>2. skipped' \subseteq DOMAIN package
  BY RenderOutcome DEF TypeOK, Left, Twice, Laid
<1>3. prepared' \in [Targets -> Prepared \union {None}] /\ merged' \in [Targets -> FileState]
  <2>1. CASE Left(next) \/ Twice(package[next])
    BY <2>1 DEF TypeOK, Left, Twice
  <2>2. ASSUME NEW doc, Laid(package[next], next, doc)
        PROVE  prepared' \in [Targets -> Prepared \union {None}] /\ merged' \in [Targets -> FileState]
    <3>1. next \in DOMAIN package
      BY RenderOutcome
    <3>2. merged' \in [Targets -> FileState]
      BY <2>2 DEF Laid
    <3> QED
      BY <2>2, <3>1, <3>2, LaidPrepared
  <2> QED
    BY <2>1, <2>2, RenderOutcome
<1> QED
  BY <1>1, <1>2, <1>3 DEF Render, TypeOK, world

\* What one laid asset does to the others of its target and elsewhere.
LEMMA LaidAccounted ==
    ASSUME Inv, NEW i \in DOMAIN package, i = next, NEW doc, Laid(package[i], i, doc),
           UNCHANGED package
    PROVE  \A j \in DOMAIN package \ skipped : j <= i => Accounted(j)'
<1> DEFINE t == package[i].target
<1>1. /\ t \in Targets /\ prepared'[t] = [content |-> doc, from |-> From(t) \union {i}]
      /\ prepared'[t] # None /\ \A u \in Targets \ {t} : prepared'[u] = prepared[u]
  BY LaidPrepared DEF Inv
<1>2. /\ doc.entries[package[i].name] # None
      /\ doc.entries[package[i].name].value = package[i].value
  BY DEF Laid
<1>3. Accounted(i)'
  BY <1>1, <1>2 DEF Accounted, Planned
<1>4. ASSUME NEW j \in DOMAIN package \ skipped, j < i PROVE Accounted(j)'
  <2>1. Accounted(j) /\ package[j] \in Asset
    BY <1>4, PackageAssets DEF Inv, RenderedAccounted
  <2>2. package[j].target \in Targets /\ package[j].name \in Names
    BY <2>1, AssetFields
  <2>3. CASE package[j].target # t
    BY <1>1, <2>1, <2>2, <2>3 DEF Accounted, Planned
  <2>4. CASE package[j].target = t
    <3>1. Planned(t) /\ Keeps(doc, prepared[t].content)
      BY <2>1, <2>4 DEF Accounted, Laid
    <3>2. doc.entries[package[j].name] = prepared[t].content.entries[package[j].name]
      BY <2>1, <2>2, <2>4, <3>1 DEF Accounted, Keeps
    <3>3. From(t) = prepared[t].from
      BY <3>1 DEF From, Planned
    <3> QED
      BY <1>1, <2>1, <2>4, <3>2, <3>3 DEF Accounted, Planned
  <2> QED
    BY <2>3, <2>4
<1> QED
  <2>1. \A j \in DOMAIN package : j <= i => j = i \/ j < i
    BY PackageAssets DEF Inv
  <2> QED
    BY <1>3, <1>4, <2>1

LEMMA RenderAccounted ==
    ASSUME Inv, Render
    PROVE  RenderedAccounted'
<1>1. /\ next \in DOMAIN package /\ package[next] \in Asset /\ next' = next + 1
      /\ package' = package /\ DOMAIN package \subseteq Nat
  BY RenderOutcome, PackageAssets DEF Inv, Render
<1>2. \A j \in DOMAIN package : j < next' => j = next \/ j < next
  BY <1>1
<1>3. CASE Left(next)
  <2>1. \A j \in DOMAIN package \ skipped' : j < next' => j \in DOMAIN package \ skipped /\ j < next
    BY <1>1, <1>2, <1>3 DEF Left
  <2> QED
    BY <1>1, <1>3, <2>1 DEF Left, Inv, RenderedAccounted, Accounted, Planned
<1>4. CASE Twice(package[next])
  <2>1. Accounted(next)
    BY <1>1, <1>4, PutEmpty DEF Twice, Accounted
  <2> QED
    BY <1>1, <1>2, <1>4, <2>1 DEF Twice, Inv, RenderedAccounted, Accounted, Planned
<1>5. ASSUME NEW doc, Laid(package[next], next, doc) PROVE RenderedAccounted'
  <2>1. \A j \in DOMAIN package \ skipped : j <= next => Accounted(j)'
    BY <1>1, <1>5, LaidAccounted
  <2>2. \A j \in DOMAIN package : j < next' => j <= next
    BY <1>1
  <2>3. skipped' = skipped
    BY <1>5 DEF Laid
  <2> QED
    BY <1>1, <2>1, <2>2, <2>3 DEF RenderedAccounted
<1> QED
  BY <1>3, <1>4, <1>5, RenderOutcome DEF Inv

LEMMA RenderMerges ==
    ASSUME Inv, Render
    PROVE  MergeKeeps' /\ FromPackage' /\ PlannedMentioned'
<1>1. /\ next \in DOMAIN package /\ package' = package /\ TypeOK
      /\ DOMAIN package = 1..Len(package)
  BY RenderOutcome, PackageAssets DEF Inv, Render
<1>2. CASE Left(next) \/ Twice(package[next])
  <2>1. UNCHANGED <<prepared, merged>>
    BY <1>2 DEF Left, Twice
  <2> QED
    BY <1>1, <2>1 DEF Inv, MergeKeeps, FromPackage, PlannedMentioned, Planned, McpOnly, Mentioned
<1>3. ASSUME NEW doc, Laid(package[next], next, doc)
      PROVE  MergeKeeps' /\ FromPackage' /\ PlannedMentioned'
  <2> DEFINE t == package[next].target
  <2>1. /\ t \in Targets /\ t \in Mentioned
        /\ prepared'[t] = [content |-> doc, from |-> From(t) \union {next}]
        /\ \A u \in Targets \ {t} : prepared'[u] = prepared[u]
    BY <1>1, <1>3, LaidPrepared
  <2>2. \A u \in Targets \ {t} : merged'[u] = merged[u]
    BY <1>3 DEF Laid
  <2>3. PlannedMentioned'
    BY <1>1, <2>1 DEF Inv, PlannedMentioned, Planned, Mentioned
  <2>4. FromPackage'
    <3>1. From(t) \subseteq 1..Len(package)
      BY <2>1 DEF Inv, FromPackage, From, Planned
    <3> QED
      BY <1>1, <2>1, <3>1 DEF Inv, FromPackage, Planned
  <2>5. ASSUME McpOnly(t), merged'[t] \in Document PROVE Keeps(doc, merged'[t])
    <3>1. CASE Planned(t)
      <4>1. merged'[t] = merged[t] /\ Keeps(doc, prepared[t].content)
        BY <1>3, <3>1 DEF Laid
      <4>2. Keeps(prepared[t].content, merged[t])
        BY <2>1, <2>5, <3>1, <4>1 DEF Inv, MergeKeeps
      <4> QED
        BY <4>1, <4>2 DEF Keeps
    <3>2. CASE ~Planned(t)
      BY <1>3, <2>5, <3>2 DEF Laid
    <3> QED
      BY <3>1, <3>2
  <2>6. MergeKeeps'
    <3> SUFFICES ASSUME NEW u \in Targets, Planned(u)', McpOnly(u), merged'[u] \in Document
                 PROVE  Keeps(prepared'[u].content, merged'[u])
      BY <1>1 DEF MergeKeeps, McpOnly, Keeps
    <3>1. CASE u = t
      BY <2>1, <2>5, <3>1
    <3>2. CASE u # t
      BY <2>1, <2>2, <3>2 DEF Inv, MergeKeeps, Planned
    <3> QED
      BY <3>1, <3>2
  <2> QED
    BY <2>3, <2>4, <2>6
<1> QED
  BY <1>1, <1>2, <1>3, RenderOutcome

LEMMA RenderHolds ==
    ASSUME Inv, Render
    PROVE  Inv'
<1>1. TypeOK'
  BY RenderTypes DEF Inv
<1>2. Control' /\ OwnedInstalled' /\ ObservedMerged'
  BY DEF Render, Inv, Control, OwnedInstalled, ObservedMerged, world
<1>3. SavedKeeps'
  BY DEF Render, Inv, SavedKeeps, McpOnly, Keeps
<1> QED
  BY <1>1, <1>2, <1>3, RenderAccounted, RenderMerges DEF Inv

-----------------------------------------------------------------------------
(* Reading the targets and the ledger *)

LEMMA NothingTypes ==
    /\ Nothing \in [Targets -> Prepared \union {None}]
    /\ Nothing \in [Targets -> FileState]
    /\ Nothing \in [Targets -> Document \union {None}]
  BY DEF Nothing, FileState

LEMMA ObserveHolds ==
    ASSUME Inv, Observe
    PROVE  Inv'
<1>1. /\ UNCHANGED <<world, package, cmd, pass, next, prepared, skipped, known, copied,
                     merged, saved, verdict, calm, settled>>
      /\ next > Len(package) /\ pc' \in {"lookup", "done"}
  BY DEF Observe
<1>2. /\ observed' \in [Targets -> FileState]
      /\ \A t \in Targets : Planned(t) => observed'[t] = files[t]
  BY DEF Observe, Inv, TypeOK, FileState
<1>3. /\ raced' \in [{"plan", "apply"} -> SUBSET Targets]
      /\ cmd # "plan" => raced'["plan"] = raced["plan"]
      /\ \A t \in Mentioned : cmd \in {"plan", "apply"} /\ McpOnly(t) /\ t \notin raced'[cmd] =>
            merged[t] = files[t]
  <2>1. DOMAIN raced = {"plan", "apply"} /\ Mentioned \subseteq Targets
    BY PackageAssets, AssetFields DEF Inv, TypeOK, Mentioned
  <2>2. raced' = [c \in {"plan", "apply"} |->
            IF c = cmd THEN {t \in Mentioned : McpOnly(t) /\ merged[t] # files[t]} ELSE raced[c]]
    BY <2>1 DEF Observe
  <2> QED
    BY <2>1, <2>2 DEF Inv, TypeOK
<1>4. TypeOK'
  BY <1>1, <1>2, <1>3 DEF Inv, TypeOK, world
<1>5. Control' /\ OwnedInstalled' /\ PlannedMentioned' /\ RenderedAccounted' /\ FromPackage'
      /\ MergeKeeps'
  BY <1>1 DEF Inv, Control, Discovering, OwnedInstalled, PlannedMentioned,
     RenderedAccounted, Accounted,
     FromPackage, MergeKeeps, Planned, McpOnly, Mentioned, Keeps, world
<1>6. ObservedMerged'
  BY <1>1, <1>2, <1>3 DEF Inv, ObservedMerged, PlannedMentioned, Planned, McpOnly
<1>7. SavedKeeps'
  BY <1>1, <1>3 DEF Inv, SavedKeeps, McpOnly, Keeps
<1> QED
  BY <1>4, <1>5, <1>6, <1>7 DEF Inv

\* A preparation that starts again or has ended.
LEMMA ResetHolds ==
    ASSUME Inv, Reset, UNCHANGED package, pc' \in {"render", "idle"},
           pc' = "idle" => cmd' = None,
           cmd' \in {"apply", "verify"} => saved' # None
    PROVE  /\ Control' /\ PlannedMentioned' /\ RenderedAccounted' /\ FromPackage'
           /\ MergeKeeps' /\ ObservedMerged'
           /\ next' \in Nat \ {0} /\ skipped' \subseteq DOMAIN package
           /\ prepared' \in [Targets -> Prepared \union {None}]
           /\ observed' \in [Targets -> FileState] /\ merged' \in [Targets -> FileState]
<1>1. /\ next' = 1 /\ prepared' = Nothing /\ skipped' = {} /\ observed' = Nothing
      /\ merged' = Nothing
  BY DEF Reset
<1>2. \A t \in Targets : ~Planned(t)'
  BY <1>1 DEF Planned, Nothing
<1>3. \A i \in DOMAIN package : ~(i < 1)
  BY PackageAssets DEF Inv
<1>4. Control' /\ RenderedAccounted' /\ ObservedMerged'
  BY <1>1, <1>3 DEF Control, Discovering, RenderedAccounted, ObservedMerged
<1>5. PlannedMentioned' /\ FromPackage' /\ MergeKeeps'
  BY <1>2 DEF PlannedMentioned, FromPackage, MergeKeeps
<1>6. next' \in Nat \ {0} /\ skipped' \subseteq DOMAIN package
  BY <1>1
<1> QED
  BY <1>1, <1>4, <1>5, <1>6, NothingTypes

LEMMA PrepareHolds ==
    ASSUME Inv, PrepareWithOwnership
    PROVE  Inv'
<1> DEFINE owned == [t \in Targets |-> IF Planned(t) THEN managed[t] ELSE None]
<1>1. UNCHANGED <<world, package, cmd, saved, verdict, raced, calm, settled>> /\ pc = "lookup"
  BY DEF PrepareWithOwnership
<1>2. SavedKeeps'
  BY <1>1 DEF Inv, SavedKeeps, McpOnly, Keeps
<1>3. CASE pc' = "done" /\ UNCHANGED preparing
  <2>1. TypeOK'
    BY <1>1, <1>3 DEF Inv, TypeOK, world, preparing
  <2>2. /\ Control' /\ OwnedInstalled' /\ PlannedMentioned' /\ RenderedAccounted' /\ FromPackage'
        /\ MergeKeeps' /\ ObservedMerged'
    BY <1>1, <1>3 DEF Inv, Control, Discovering, OwnedInstalled, PlannedMentioned,
     RenderedAccounted, Accounted,
       FromPackage, MergeKeeps, ObservedMerged, Planned, McpOnly, Mentioned, Keeps, world, preparing
  <2> QED
    BY <1>2, <2>1, <2>2 DEF Inv
<1>4. CASE pc' = "render" /\ pass' = 2 /\ known' = owned /\ Reset
  <2>1. /\ Control' /\ PlannedMentioned' /\ RenderedAccounted' /\ FromPackage'
        /\ MergeKeeps' /\ ObservedMerged'
        /\ next' \in Nat \ {0} /\ skipped' \subseteq DOMAIN package
        /\ prepared' \in [Targets -> Prepared \union {None}]
        /\ observed' \in [Targets -> FileState] /\ merged' \in [Targets -> FileState]
    BY <1>1, <1>4, ResetHolds DEF Inv, Control
  <2>2. known' \in [Targets -> Document \union {None}]
    BY <1>4 DEF Inv, TypeOK
  <2>3. TypeOK'
    BY <1>1, <1>4, <2>1, <2>2 DEF Inv, TypeOK, Reset, world
  <2>4. OwnedInstalled'
    BY <1>1, <1>4 DEF Inv, OwnedInstalled, world
  <2> QED
    BY <1>2, <2>1, <2>3, <2>4 DEF Inv
<1> QED
  BY <1>3, <1>4 DEF PrepareWithOwnership

-----------------------------------------------------------------------------
(* The commands *)

LEMMA CommandHolds ==
    ASSUME Inv, NEW c \in {"plan", "apply", "verify"}, Command(c)
    PROVE  Inv'
<1>1. /\ UNCHANGED <<preparing, world, package, saved, raced>>
      /\ pc = "idle" /\ pc' = "render" /\ cmd' = c /\ (c # "plan" => saved # None)
  BY DEF Command
<1>2. cmd # "plan"
  BY <1>1, NoneIsApart DEF Inv, Control
<1>3. TypeOK'
  <2>1. /\ verdict' = None /\ calm' \in BOOLEAN
        /\ settled' \in (SUBSET DOMAIN package) \union {None}
    BY DEF Command, Inv, TypeOK
  <2> QED
    BY <1>1, <2>1 DEF Inv, TypeOK, world, preparing
<1>4. /\ Control' /\ OwnedInstalled' /\ PlannedMentioned' /\ RenderedAccounted' /\ FromPackage'
      /\ MergeKeeps' /\ ObservedMerged'
  BY <1>1 DEF Inv, Control, Discovering, OwnedInstalled, PlannedMentioned,
     RenderedAccounted, Accounted,
     FromPackage, MergeKeeps, ObservedMerged, Planned, McpOnly, Mentioned, Keeps, world, preparing
<1>5. SavedKeeps'
  BY <1>1, <1>2 DEF Inv, SavedKeeps, McpOnly, Keeps
<1> QED
  BY <1>3, <1>4, <1>5 DEF Inv

\* The end of a command, whatever it did to the files.
LEMMA ExitHolds ==
    ASSUME Inv, NEW v \in Verdicts, Exit(v), UNCHANGED <<package, raced, calm, edits, others>>,
           files' \in [Targets -> FileState], managed' \in [Targets -> Document \union {None}],
           installed' \in [Targets -> SUBSET Document],
           \A t \in Targets : managed'[t] # None => managed'[t] \in installed'[t],
           saved' \in Plan \union {None}, settled' \in (SUBSET DOMAIN package) \union {None},
           SavedKeeps'
    PROVE  Inv'
<1>1. Reset /\ pc' = "idle" /\ cmd' = None /\ verdict' = v /\ pass' = 1 /\ known' = Nothing
  BY DEF Exit
<1>2. /\ Control' /\ PlannedMentioned' /\ RenderedAccounted' /\ FromPackage'
      /\ MergeKeeps' /\ ObservedMerged'
      /\ next' \in Nat \ {0} /\ skipped' \subseteq DOMAIN package
      /\ prepared' \in [Targets -> Prepared \union {None}]
      /\ observed' \in [Targets -> FileState] /\ merged' \in [Targets -> FileState]
  BY <1>1, ResetHolds, NoneIsApart
<1>3. OwnedInstalled'
  BY <1>1 DEF OwnedInstalled, Nothing
<1>4. TypeOK'
  BY <1>1, <1>2, NothingTypes DEF Inv, TypeOK, Reset
<1> QED
  BY <1>2, <1>3, <1>4 DEF Inv

\* A command that leaves files, ledger and plan as they are.
LEMMA ReportHolds ==
    ASSUME Inv, NEW v \in Verdicts, Exit(v), cmd # "plan",
           UNCHANGED <<world, package, saved, raced, calm, settled>>
    PROVE  Inv'
<1>1. SavedKeeps'
  BY DEF Inv, SavedKeeps, McpOnly, Keeps
<1> QED
  BY <1>1, ExitHolds DEF Inv, TypeOK, OwnedInstalled, world

LEMMA OperationTypes ==
    ASSUME TypeOK, NEW t \in Targets, Planned(t)
    PROVE  [kind |-> Decide(prepared[t].content, observed[t], known[t]),
            expected |-> observed[t], file |-> prepared[t]] \in Operation
<1>1. Decide(prepared[t].content, observed[t], known[t]) \in {"noop", "write", "manual"}
  BY DEF Decide
<1> QED
  BY <1>1, PreparedFields DEF TypeOK, Operation

LEMMA PlanTypes ==
    ASSUME TypeOK
    PROVE  BuildFilePlan \in Plan
  BY OperationTypes DEF BuildFilePlan, Plan

LEMMA PlanFields ==
    ASSUME NEW t \in Targets, BuildFilePlan[t] # None
    PROVE  /\ Planned(t) /\ BuildFilePlan[t].expected = observed[t]
           /\ BuildFilePlan[t].file = prepared[t]
           /\ BuildFilePlan[t].kind = Decide(prepared[t].content, observed[t], known[t])
  BY DEF BuildFilePlan

LEMMA SavePlanHolds ==
    ASSUME Inv, SavePlan
    PROVE  Inv'
<1>1. /\ pc = "done" /\ cmd = "plan" /\ saved' = BuildFilePlan /\ Exit("planned")
      /\ UNCHANGED <<world, package, raced, calm, settled>>
  BY DEF SavePlan
<1>2. ASSUME NEW t \in Targets, BuildFilePlan[t] # None, McpOnly(t), t \notin raced["plan"],
             BuildFilePlan[t].expected \in Document
      PROVE  Keeps(BuildFilePlan[t].file.content, BuildFilePlan[t].expected)
  <2>1. observed[t] = merged[t]
    BY <1>1, <1>2, PlanFields DEF Inv, ObservedMerged
  <2> QED
    BY <1>2, <2>1, PlanFields DEF Inv, MergeKeeps
<1>3. SavedKeeps'
  BY <1>1, <1>2 DEF SavedKeeps, McpOnly, Keeps
<1> QED
  BY <1>1, <1>3, PlanTypes, ExitHolds DEF Inv, TypeOK, OwnedInstalled, Verdicts, world

LEMMA WritesPlanned ==
    ASSUME TypeOK, NEW t \in Writes(BuildFilePlan)
    PROVE  t \in Targets /\ Planned(t) /\ prepared[t].content \in Document
  BY PlanFields, PreparedFields DEF Writes, Of

LEMMA ApplyHolds ==
    ASSUME Inv, ApplyPrepared
    PROVE  Inv'
<1> DEFINE written == Writes(BuildFilePlan)
<1>1. /\ cmd = "apply" /\ Exit("applied") /\ UNCHANGED <<package, saved, raced, calm, edits, others>>
      /\ files' = [t \in Targets |-> IF t \in written THEN prepared[t].content ELSE files[t]]
      /\ managed' = [t \in Targets |-> IF t \in written THEN prepared[t].content ELSE managed[t]]
      /\ installed' = [t \in Targets |-> installed[t] \union
                        IF t \in written THEN {prepared[t].content} ELSE {}]
      /\ settled' \in {skipped, None}
  BY DEF ApplyPrepared
<1>2. \A t \in written : prepared[t].content \in Document
  BY WritesPlanned DEF Inv
<1> HIDE DEF written
<1>3. files' \in [Targets -> FileState]
  BY <1>1, <1>2 DEF Inv, TypeOK, FileState
<1>4. managed' \in [Targets -> Document \union {None}]
  BY <1>1, <1>2 DEF Inv, TypeOK
<1>5. installed' \in [Targets -> SUBSET Document]
  BY <1>1, <1>2 DEF Inv, TypeOK
<1>6. \A t \in Targets : managed'[t] # None => managed'[t] \in installed'[t]
  BY <1>1 DEF Inv, OwnedInstalled
<1>7. SavedKeeps'
  BY <1>1 DEF Inv, SavedKeeps, McpOnly, Keeps
<1>8. settled' \in (SUBSET DOMAIN package) \union {None} /\ saved' \in Plan \union {None}
  BY <1>1 DEF Inv, TypeOK
<1> QED
  BY <1>1, <1>3, <1>4, <1>5, <1>6, <1>7, <1>8, ExitHolds DEF Verdicts

\* A step of discovery that goes on to the next one.
LEMMA DiscoveryHolds ==
    ASSUME Inv, cmd = "verify", pc \in {"done"} \union Discovering, pc' \in Discovering,
           UNCHANGED <<world, package, saved, raced, calm, settled, cmd, verdict>>,
           UNCHANGED <<pass, next, prepared, skipped, observed, known, merged>>,
           copied' \subseteq Names
    PROVE  Inv'
<1>1. TypeOK'
  BY DEF Inv, TypeOK, world
<1> QED
  BY <1>1 DEF Inv, Control, Discovering, OwnedInstalled, PlannedMentioned,
     RenderedAccounted, Accounted, FromPackage, MergeKeeps, ObservedMerged, SavedKeeps, Planned,
     McpOnly, Mentioned, Keeps, world

\* Verify ends with a verdict or goes on to discovery.
LEMMA VerifySteps ==
    ASSUME Inv, Verify \/ VerifyAssetDiscovery \/ CopyWorkspaceDocument \/ VerifyCodexMcp
    PROVE  /\ UNCHANGED <<world, package, saved, raced, calm, settled>> /\ cmd = "verify"
           /\ \/ \E v \in Verdicts : Exit(v)
              \/ /\ pc \in {"done"} \union Discovering /\ pc' \in Discovering
                 /\ copied' \subseteq Names
                 /\ UNCHANGED <<cmd, verdict, pass, next, prepared, skipped, observed,
                                known, merged>>
<1>1. UNCHANGED <<world, package, saved, raced, calm, settled>> /\ cmd = "verify"
  BY DEF Verify, VerifyAssetDiscovery, CopyWorkspaceDocument, Copy, VerifyCodexMcp, Quiet,
     Inv, Control, Discovering
<1>2. {"verified", "drift", "discovered", "undiscovered"} \subseteq Verdicts
  BY DEF Verdicts
<1>3. ASSUME NEW t \in Targets, NEW step \in Discovering, pc \in Discovering, Copy(t, step)
      PROVE  \/ \E v \in Verdicts : Exit(v)
             \/ /\ pc \in {"done"} \union Discovering /\ pc' \in Discovering
                /\ copied' \subseteq Names
                /\ UNCHANGED <<cmd, verdict, pass, next, prepared, skipped, observed,
                               known, merged>>
  BY <1>2, <1>3 DEF Copy, CopyIfPresent, ServersIn, Inv, TypeOK
<1>4. CASE Verify
  BY <1>2, <1>4 DEF Verify, Discovering, preparing, Inv, TypeOK
<1>5. CASE VerifyAssetDiscovery
  <2>1. CASE Copy(UserToml, "copied")
    <3>1. UserToml \in Targets /\ "copied" \in Discovering /\ pc \in Discovering
      BY <1>5, TomlTargetsAreTargets DEF VerifyAssetDiscovery, Discovering, TomlTargets
    <3> QED
      BY <1>1, <1>3, <2>1, <3>1
  <2>2. CASE Exit("undiscovered")
    BY <1>1, <1>2, <2>2
  <2> QED
    BY <1>5, <2>1, <2>2 DEF VerifyAssetDiscovery
<1>6. CASE CopyWorkspaceDocument
  <2>1. /\ WorkspaceToml \in Targets /\ "list" \in Discovering /\ pc \in Discovering
        /\ Copy(WorkspaceToml, "list")
    BY <1>6, TomlTargetsAreTargets DEF CopyWorkspaceDocument, Discovering, TomlTargets
  <2> QED
    BY <1>1, <1>3, <2>1
<1>7. CASE VerifyCodexMcp
  <2>1. Exit("undiscovered") \/ Exit("discovered")
    BY <1>7 DEF VerifyCodexMcp
  <2> QED
    BY <1>1, <1>2, <2>1
<1> QED
  BY <1>1, <1>4, <1>5, <1>6, <1>7

LEMMA VerifyHolds ==
    ASSUME Inv, Verify \/ VerifyAssetDiscovery \/ CopyWorkspaceDocument \/ VerifyCodexMcp
    PROVE  Inv'
<1>1. ASSUME NEW v \in Verdicts, Exit(v) PROVE Inv'
  BY <1>1, VerifySteps, ReportHolds
<1>2. CASE \E v \in Verdicts : Exit(v)
  BY <1>1, <1>2
<1>3. CASE ~\E v \in Verdicts : Exit(v)
  BY <1>3, VerifySteps, DiscoveryHolds
<1> QED
  BY <1>2, <1>3

LEMMA RefuseHolds ==
    ASSUME Inv, Refuse
    PROVE  Inv'
<1>1. "drift" \in Verdicts /\ Exit("drift") /\ cmd = "apply"
      /\ UNCHANGED <<world, package, saved, raced, calm, settled>>
  BY DEF Refuse, Verdicts
<1> QED
  BY <1>1, ReportHolds

LEMMA MnemoHolds ==
    ASSUME Inv, Mnemo
    PROVE  Inv'
  BY CommandHolds, RenderHolds, ObserveHolds, PrepareHolds, SavePlanHolds, RefuseHolds,
     ApplyHolds, VerifyHolds DEF Mnemo

-----------------------------------------------------------------------------
(* The user and other processes *)

LEMMA EnvironmentHolds ==
    ASSUME Inv, Environment, edits' \in Nat, others' \in Nat,
           files' \in [Targets -> FileState], managed' \in [Targets -> Document \union {None}],
           installed' \in [Targets -> SUBSET Document],
           \A t \in Targets : installed[t] \subseteq installed'[t],
           \A t \in Targets : managed'[t] # None => managed'[t] \in installed'[t]
    PROVE  Inv'
<1> USE DEF Environment, preparing
<1>1. TypeOK'
  BY DEF Inv, TypeOK
<1>2. OwnedInstalled'
  BY DEF Inv, OwnedInstalled
<1>3. /\ Control' /\ PlannedMentioned' /\ RenderedAccounted' /\ FromPackage'
      /\ MergeKeeps' /\ ObservedMerged' /\ SavedKeeps'
  BY DEF Inv, Control, PlannedMentioned, RenderedAccounted, Accounted, FromPackage, MergeKeeps,
     ObservedMerged, SavedKeeps, Planned, McpOnly, Mentioned, Keeps
<1> QED
  BY <1>1, <1>2, <1>3 DEF Inv

LEMMA MentionedTargets ==
    ASSUME TypeOK
    PROVE  Mentioned \subseteq Targets
  BY PackageAssets, AssetFields DEF Mentioned

LEMMA OthersHold ==
    ASSUME Inv,
           \/ \E t \in Mentioned : \E c \in Start \union installed[t] : Edit(t, c)
           \/ \E t \in Mentioned : \E c \in Rendered : OtherApply(t, c)
           \/ \E t \in Mentioned : OtherUndo(t)
    PROVE  Inv'
<1> USE StartIsKnown, MentionedTargets DEF Inv, TypeOK, FileState, OwnedInstalled
<1>1. ASSUME NEW t \in Mentioned, NEW c \in Start \union installed[t], Edit(t, c) PROVE Inv'
  <2>1. c \in FileState /\ t \in Targets /\ edits' \in Nat
    BY <1>1 DEF Edit
  <2>2. files' \in [Targets -> FileState] /\ UNCHANGED <<managed, installed, others>> /\ Environment
    BY <1>1, <2>1 DEF Edit
  <2> QED
    BY <2>1, <2>2, EnvironmentHolds
<1>2. ASSUME NEW t \in Mentioned, NEW c \in Rendered, OtherApply(t, c) PROVE Inv'
  <2>1. c \in Document /\ t \in Targets /\ others' \in Nat /\ UNCHANGED edits /\ Environment
    BY <1>2 DEF OtherApply, Rendered
  <2>2. /\ files' = [files EXCEPT ![t] = c] /\ managed' = [managed EXCEPT ![t] = c]
        /\ installed' = [installed EXCEPT ![t] = @ \union {c}]
    BY <1>2 DEF OtherApply
  <2>3. /\ files' \in [Targets -> FileState] /\ managed' \in [Targets -> Document \union {None}]
        /\ installed' \in [Targets -> SUBSET Document]
    BY <2>1, <2>2
  <2>4. /\ \A u \in Targets : installed[u] \subseteq installed'[u]
        /\ \A u \in Targets : managed'[u] # None => managed'[u] \in installed'[u]
    BY <2>1, <2>2
  <2> QED
    BY <2>1, <2>3, <2>4, EnvironmentHolds
<1>3. ASSUME NEW t \in Mentioned, OtherUndo(t) PROVE Inv'
  <2>1. t \in Targets /\ others' \in Nat /\ UNCHANGED <<edits, installed>> /\ Environment
    BY <1>3 DEF OtherUndo
  <2>2. files' = [files EXCEPT ![t] = None] /\ managed' = [managed EXCEPT ![t] = None]
    BY <1>3 DEF OtherUndo
  <2>3. files' \in [Targets -> FileState] /\ managed' \in [Targets -> Document \union {None}]
    BY <2>1, <2>2
  <2> QED
    BY <2>1, <2>2, <2>3, EnvironmentHolds
<1> QED
  BY <1>1, <1>2, <1>3

-----------------------------------------------------------------------------
LEMMA InitHolds ==
    ASSUME Init
    PROVE  Inv
<1>1. TypeOK
  <2>1. files \in [Targets -> FileState]
    BY StartIsKnown DEF Init
  <2>2. installed \in [Targets -> SUBSET Document] /\ raced \in [{"plan", "apply"} -> SUBSET Targets]
    BY DEF Init
  <2>3. /\ package \in Packages /\ cmd = None /\ pc = "idle" /\ pass = 1 /\ next = 1
        /\ prepared = Nothing /\ managed = Nothing /\ observed = Nothing /\ known = Nothing
        /\ merged = Nothing /\ skipped = {} /\ saved = None /\ verdict = None
        /\ copied = {} /\ calm = FALSE /\ settled = None /\ edits = 0 /\ others = 0
    BY DEF Init
  <2>4. next \in Nat \ {0} /\ skipped \subseteq DOMAIN package /\ edits \in Nat /\ others \in Nat
    BY <2>3
  <2>5. calm \in BOOLEAN
    BY DEF Init
  <2> QED
    BY <2>1, <2>2, <2>3, <2>4, <2>5, NothingTypes DEF TypeOK
<1>2. \A t \in Targets : ~Planned(t)
  BY DEF Init, Planned, Nothing
<1>3. PlannedMentioned /\ FromPackage /\ MergeKeeps
  BY <1>2 DEF PlannedMentioned, FromPackage, MergeKeeps
<1>4. RenderedAccounted
  BY <1>1, PackageAssets DEF Init, RenderedAccounted
<1>5. Control /\ OwnedInstalled /\ ObservedMerged /\ SavedKeeps
  BY NoneIsApart DEF Init, Control, Discovering, OwnedInstalled, ObservedMerged, SavedKeeps, Nothing
<1> QED
  BY <1>1, <1>3, <1>4, <1>5 DEF Inv

LEMMA NextHolds ==
    ASSUME Inv, [Next]_vars
    PROVE  Inv'
<1>1. CASE UNCHANGED vars
  BY <1>1 DEF vars, world, preparing, Inv, TypeOK, Control, OwnedInstalled, PlannedMentioned,
     RenderedAccounted, Accounted, FromPackage, MergeKeeps, ObservedMerged, SavedKeeps, Planned,
     McpOnly, Mentioned, Keeps
<1> QED
  BY <1>1, MnemoHolds, OthersHold DEF Next

LEMMA Invariant == Spec => []Inv
<1>1. Init => Inv
  BY InitHolds
<1>2. Inv /\ [Next]_vars => Inv'
  BY NextHolds
<1> QED
  BY <1>1, <1>2, PTL DEF Spec

(***************************************************************************)
(* The variables of planning, applying and verifying stay in their types:  *)
(* whatever is merged into whatever the user left there is a document.     *)
(***************************************************************************)
THEOREM TypeCorrect == Spec => []TypeOK
<1>1. Inv => TypeOK
  BY DEF Inv
<1> QED
  BY <1>1, Invariant, PTL

(***************************************************************************)
(* For every package: a complete preparation has every asset in the file   *)
(* planned for its target or reports it as skipped.                        *)
(***************************************************************************)
THEOREM NoAssetIsLost == Spec => []EveryAssetAccounted
<1>1. Inv => EveryAssetAccounted
  <2> SUFFICES ASSUME Inv, pc = "done", NEW i \in DOMAIN package \ skipped
               PROVE  Accounted(i)
    BY DEF EveryAssetAccounted, Accounted, Planned
  <2>1. i < next
    BY PackageAssets DEF Inv, TypeOK, Control
  <2> QED
    BY <2>1 DEF Inv, RenderedAccounted
<1> QED
  BY <1>1, Invariant, PTL

-----------------------------------------------------------------------------
(* What one step may do *)

\* Only this action ends with the verdict the properties are about.
LEMMA AppliesOnlyHere ==
    ASSUME Next, Applies
    PROVE  ApplyPrepared
  BY NoneIsApart DEF Next, Mnemo, Applies, Command, Render, Observe, PrepareWithOwnership, SavePlan,
     Refuse, Verify, VerifyAssetDiscovery, CopyWorkspaceDocument, Copy, VerifyCodexMcp, Quiet,
     Exit, Edit, OtherApply, OtherUndo, Environment, Verdicts

\* A target that is written still holds what the plan expects of it.
LEMMA WrittenExpected ==
    ASSUME Inv, ApplyPrepared, NEW t \in Targets, files'[t] # files[t]
    PROVE  /\ t \in Writes(BuildFilePlan) /\ files'[t] = prepared[t].content
           /\ files[t] = observed[t]
<1>1. t \in Writes(BuildFilePlan) /\ files'[t] = prepared[t].content
  BY DEF ApplyPrepared
<1>2. files[t] = BuildFilePlan[t].expected /\ BuildFilePlan[t] # None
  BY <1>1 DEF ApplyPrepared, Stale, Writes, Of
<1> QED
  BY <1>1, <1>2, PlanFields

(***************************************************************************)
(* For every package and any number of edits: apply replaces nothing but   *)
(* bytes that mnemo installed at that target.                              *)
(***************************************************************************)
THEOREM NoConflictIsOverwritten == Spec => UserContentStays
<1>1. ASSUME Inv, Next, Applies, NEW t \in Targets, files'[t] # files[t]
      PROVE  files[t] = None \/ files[t] \in installed[t]
  <2>1. ApplyPrepared
    BY <1>1, AppliesOnlyHere
  <2>2. t \in Writes(BuildFilePlan) /\ files[t] = observed[t]
    BY <1>1, <2>1, WrittenExpected
  <2>3. Decide(prepared[t].content, observed[t], known[t]) = "write"
    BY <2>2, PlanFields DEF Writes, Of
  <2>4. observed[t] = None \/ known[t] = observed[t]
    BY <2>3 DEF Decide
  <2> QED
    BY <1>1, <2>2, <2>4 DEF Inv, OwnedInstalled
<1>2. Inv /\ [Next]_vars =>
        [Applies => \A t \in Targets :
            files'[t] # files[t] => files[t] = None \/ files[t] \in installed[t]]_vars
  BY <1>1
<1> QED
  BY <1>2, Invariant, PTL DEF Spec, UserContentStays

(***************************************************************************)
(* For every package and any number of edits: a document keeps its entries *)
(* through an apply, unless its target changed between merge and hash of   *)
(* the plan and again between merge and hash of the apply.                 *)
(***************************************************************************)
THEOREM NoServerIsLost == Spec => ServersStay
<1>1. ASSUME Inv, Next, Applies, NEW t \in Targets, McpOnly(t), files[t] \in Document,
             t \notin raced["plan"] \/ t \notin raced["apply"]
      PROVE  Keeps(files'[t], files[t])
  <2>1. ApplyPrepared
    BY <1>1, AppliesOnlyHere
  <2>2. CASE files'[t] = files[t]
    BY <2>2 DEF Keeps
  <2>3. CASE files'[t] # files[t]
    <3>1. /\ t \in Writes(BuildFilePlan) /\ files'[t] = prepared[t].content
          /\ files[t] = observed[t]
      BY <1>1, <2>1, <2>3, WrittenExpected
    <3>2. /\ BuildFilePlan[t] # None /\ Planned(t) /\ BuildFilePlan[t].expected = observed[t]
          /\ BuildFilePlan[t].file = prepared[t]
      BY <3>1, PlanFields DEF Writes, Of
    <3>3. cmd = "apply" /\ pc = "done" /\ saved = BuildFilePlan
      BY <2>1 DEF ApplyPrepared, Drifted
    <3>4. CASE t \notin raced["apply"]
      <4>1. observed[t] = merged[t]
        BY <1>1, <3>2, <3>3, <3>4 DEF Inv, ObservedMerged
      <4> QED
        BY <1>1, <3>1, <3>2, <4>1 DEF Inv, MergeKeeps
    <3>5. CASE t \notin raced["plan"]
      <4>1. saved # None /\ cmd # "plan"
        BY <1>1, <3>3 DEF Inv, Control
      <4> QED
        BY <1>1, <3>1, <3>2, <3>3, <3>5, <4>1 DEF Inv, SavedKeeps
    <3> QED
      BY <1>1, <3>4, <3>5
  <2> QED
    BY <2>2, <2>3
<1>2. Inv /\ [Next]_vars =>
        [Applies => \A t \in Targets :
            (McpOnly(t) /\ files[t] \in Document) =>
                \/ t \in raced["plan"] \intersect raced["apply"]
                \/ \A n \in Names : files[t].entries[n] # None =>
                        files'[t].entries[n] = files[t].entries[n]]_vars
  BY <1>1 DEF Keeps
<1> QED
  BY <1>2, Invariant, PTL DEF Spec, ServersStay

-----------------------------------------------------------------------------
(* Applying is idempotent *)

\* What a document is merged with, as it is on disk.
OnDisk(t) == IF files[t] = None THEN Empty ELSE files[t]

Standing(t) == IF Planned(t) THEN prepared[t].content ELSE OnDisk(t)

\* Rendering the asset once more would leave the document as it is.
Contains(a, doc) ==
    /\ ~a.quarantined /\ doc \in Document
    /\ IF a.kind = "text"
       THEN doc = Put(a, Empty)
       ELSE /\ doc.entries[a.name] # None /\ Agrees(a, doc.entries[a.name])
            /\ ~Toml(a) => doc.style = "mnemo"

\* Asset i is left out again wherever doc stands and the assets in left are.
Refused(i, doc, left) ==
    LET a == package[i] IN
    \/ a.quarantined
    \/ a.kind = "mcp" /\ ~Mergeable(a, doc)
    \/ /\ a.kind = "text" /\ doc # Put(a, Empty)
       /\ \E j \in DOMAIN package \ left : j < i /\ package[j].target = a.target

\* An asset of the package is in the file planned for its target.
Filled(t) == \E j \in DOMAIN package \ skipped : j < next /\ package[j].target = t

\* Why an asset was rendered or skipped can be seen from what stands now.
Explained(i) ==
    LET t == package[i].target IN
    IF i \in skipped THEN Refused(i, Standing(t), skipped)
    ELSE Planned(t) /\ Contains(package[i], prepared[t].content)

RenderedExplained ==
    /\ \A i \in DOMAIN package : i < next => Explained(i)
    /\ \A t \in Targets : Planned(t) => Filled(t)

\* The files alone explain what the last apply rendered and skipped.
SettledOnDisk ==
    \A i \in DOMAIN package :
        LET t == package[i].target IN
        IF i \in settled THEN Refused(i, OnDisk(t), settled)
        ELSE Contains(package[i], files[t])

\* A preparation repeats what was settled and finds its files in place.
Repeats ==
    /\ \A i \in DOMAIN package : i < next => (i \in skipped <=> i \in settled)
    /\ \A t \in Targets : Planned(t) => files[t] = prepared[t].content

IdleIsClean == pc = "idle" => prepared = Nothing

SkippedPassed == \A i \in skipped : i < next

ConvInv ==
    /\ Inv /\ IdleIsClean /\ SkippedPassed
    /\ calm => RenderedExplained
    /\ calm /\ pc \in {"lookup", "done"} =>
            \A t \in Targets : Planned(t) => observed[t] = files[t]
    /\ calm /\ settled # None => SettledOnDisk /\ Repeats

LEMMA NothingPlanned ==
    ASSUME prepared = Nothing, NEW t \in Targets
    PROVE  ~Planned(t)
  BY DEF Nothing, Planned

LEMMA SameKind ==
    ASSUME TypeOK, NEW i \in DOMAIN package, NEW j \in DOMAIN package,
           package[i].target = package[j].target
    PROVE  package[i].kind = package[j].kind
  BY OneKindPerTarget DEF TypeOK

\* A server that was put is contained, and one that is contained is put as it is.
LEMMA PutContained ==
    ASSUME NEW a \in Asset, a.kind = "mcp", ~a.quarantined, NEW doc \in Document,
           Mergeable(a, doc)
    PROVE  Contains(a, Put(a, doc))
<1>1. /\ Put(a, doc) \in Document /\ Put(a, doc).entries[a.name] # None
      /\ Keeps(Put(a, doc), doc)
  BY PutDocument DEF Mergeable
<1>2. a.name \in Names /\ doc.entries \in [Names -> Entry \union {None}]
  BY AssetFields, DocumentFields
<1>3. ~Toml(a) => Put(a, doc).style = "mnemo"
  BY DEF Put
<1>4. CASE doc.entries[a.name] # None
  BY <1>1, <1>2, <1>3, <1>4 DEF Contains, Keeps, Mergeable
<1>5. CASE doc.entries[a.name] = None
  <2>1. Put(a, doc).entries[a.name] = EntryOf(a)
    BY <1>2, <1>5 DEF Put
  <2>2. Agrees(a, EntryOf(a))
    BY DEF Agrees, EntryOf
  <2> QED
    BY <1>1, <1>3, <2>1, <2>2 DEF Contains
<1> QED
  BY <1>4, <1>5

LEMMA ContainedPut ==
    ASSUME NEW a \in Asset, a.kind = "mcp", NEW doc, Contains(a, doc)
    PROVE  Mergeable(a, doc) /\ Put(a, doc) = doc
<1>1. /\ doc \in Document /\ doc.entries[a.name] # None /\ Agrees(a, doc.entries[a.name])
      /\ ~Toml(a) => doc.style = "mnemo"
  BY DEF Contains
<1>2. a.name \in Names /\ doc.entries \in [Names -> Entry \union {None}]
      /\ doc = [entries |-> doc.entries, style |-> doc.style]
  BY <1>1, AssetFields DEF Document
<1>3. [doc.entries EXCEPT ![a.name] =
          IF @ # None /\ Agrees(a, @) THEN @ ELSE EntryOf(a)] = doc.entries
  BY <1>1, <1>2
<1>4. Put(a, doc) = [entries |-> doc.entries, style |-> doc.style]
  BY <1>1, <1>3 DEF Put
<1> QED
  BY <1>1, <1>2, <1>4, ForeignIsApart DEF Mergeable

\* Later merges into the same document change neither.
LEMMA MergesKeep ==
    ASSUME NEW a \in Asset, a.kind = "mcp", NEW old \in Document, NEW new \in Document,
           Keeps(new, old), ~Toml(a) => new.style = "mnemo"
    PROVE  /\ Contains(a, old) => Contains(a, new)
           /\ ~Mergeable(a, old) => ~Mergeable(a, new)
<1>1. a.name \in Names
  BY AssetFields
<1> QED
  BY <1>1, ForeignIsApart DEF Keeps, Contains, Mergeable

-----------------------------------------------------------------------------
\* What rendering does, and why.
LEMMA RenderCases ==
    ASSUME TypeOK, Render
    PROVE  LET a == package[next] t == a.target IN
           \/ /\ skipped' = skipped \union {next} /\ prepared' = prepared
              /\ \/ a.quarantined
                 \/ a.kind = "mcp" /\ ~Mergeable(a, Standing(t))
                 \/ a.kind = "text" /\ Planned(t) /\ prepared[t].content # Put(a, Empty)
           \/ /\ skipped' = skipped /\ prepared' = prepared /\ ~a.quarantined
              /\ a.kind = "text" /\ Planned(t) /\ prepared[t].content = Put(a, Empty)
           \/ /\ skipped' = skipped /\ ~a.quarantined /\ prepared'[t] # None
              /\ prepared'[t].content =
                    Put(a, IF a.kind = "mcp" THEN Standing(t) ELSE Empty)
              /\ \A u \in Targets \ {t} : prepared'[u] = prepared[u]
              /\ \/ a.kind = "mcp" /\ Mergeable(a, Standing(t))
                 \/ a.kind = "text" /\ ~Planned(t)
<1> DEFINE a == package[next] t == a.target
<1>1. next \in DOMAIN package /\ a \in Asset /\ t \in Targets /\ a.kind \in {"text", "mcp"}
  BY RenderOutcome, AssetFields
<1>2. Base(a) = Standing(t)
  BY DEF Base, Standing, OnDisk, Planned
<1>3. ASSUME NEW doc, NEW from, Prepare(a, doc, from), doc \in Document, from \subseteq Nat
      PROVE  /\ skipped' = skipped /\ prepared'[t] # None /\ prepared'[t].content = doc
             /\ \A u \in Targets \ {t} : prepared'[u] = prepared[u]
  <2> DEFINE new == [content |-> doc, from |-> from]
  <2>1. new \in Prepared
    BY <1>3 DEF Prepared
  <2>2. new # None /\ new.content = doc
    BY <2>1, NoneIsApart
  <2>3. prepared' = [prepared EXCEPT ![t] = new] /\ prepared \in [Targets -> Prepared \union {None}]
        /\ skipped' = skipped
    BY <1>3 DEF Prepare, TypeOK
  <2> HIDE DEF new
  <2>4. prepared'[t] = new /\ \A u \in Targets \ {t} : prepared'[u] = prepared[u]
    BY <1>1, <2>3
  <2> QED
    BY <2>2, <2>3, <2>4
<1>4. From(t) \subseteq Nat /\ next \in Nat
  BY <1>1, PreparedFields DEF From, Planned, TypeOK
<1>5. CASE a.quarantined
  BY <1>5 DEF Render, Skip
<1>6. CASE ~a.quarantined /\ a.kind = "mcp"
  <2>1. RenderMcp(a, next)
    BY <1>6 DEF Render
  <2>2. CASE Mergeable(a, Base(a))
    <3>1. Put(a, Base(a)) \in Document
      BY <1>1, <2>2, BaseDocument, PutDocument DEF Mergeable
    <3>2. Prepare(a, Put(a, Base(a)), From(t) \union {next})
      BY <2>1, <2>2 DEF RenderMcp
    <3> QED
      BY <1>2, <1>3, <1>4, <1>6, <2>2, <3>1, <3>2
  <2>3. CASE ~Mergeable(a, Base(a))
    BY <1>2, <1>6, <2>1, <2>3 DEF RenderMcp, Skip
  <2> QED
    BY <2>2, <2>3
<1>7. CASE ~a.quarantined /\ a.kind = "text"
  <2>1. RenderText(a, next)
    BY <1>7 DEF Render
  <2>2. CASE ~Planned(t)
    <3>1. Prepare(a, Put(a, Empty), {next}) /\ Put(a, Empty) \in Document
      BY <1>1, <2>1, <2>2, PutEmpty DEF RenderText, Planned
    <3> QED
      BY <1>3, <1>4, <1>7, <2>2, <3>1
  <2>3. CASE Planned(t)
    BY <1>7, <2>1, <2>3 DEF RenderText, Planned, Skip
  <2> QED
    BY <2>2, <2>3
<1> QED
  BY <1>1, <1>5, <1>6, <1>7

\* An explanation stands as long as the target and what came before do.
LEMMA ExplainedStays ==
    ASSUME NEW j \in DOMAIN package, j < next, Explained(j),
           UNCHANGED <<files, package>>, prepared'[package[j].target] = prepared[package[j].target],
           next \in Nat, DOMAIN package \subseteq Nat,
           \A k \in DOMAIN package : k < next => (k \in skipped' <=> k \in skipped)
    PROVE  Explained(j)'
<1> DEFINE t == package[j].target
<1>1. Standing(t)' = Standing(t) /\ Planned(t)' = Planned(t)
  BY DEF Standing, OnDisk, Planned
<1>2. ASSUME Refused(j, Standing(t), skipped) PROVE Refused(j, Standing(t), skipped)'
  <2>1. ASSUME NEW k \in DOMAIN package \ skipped, k < j PROVE k \in DOMAIN package' \ skipped'
    BY <2>1
  <2>2. CASE \E k \in DOMAIN package \ skipped : k < j /\ package[k].target = t
    BY <1>1, <1>2, <2>1, <2>2 DEF Refused
  <2>3. CASE ~\E k \in DOMAIN package \ skipped : k < j /\ package[k].target = t
    BY <1>1, <1>2, <2>3 DEF Refused
  <2> QED
    BY <2>2, <2>3
<1> QED
  BY <1>1, <1>2 DEF Explained

LEMMA RenderPasses ==
    ASSUME Inv, SkippedPassed, Render
    PROVE  /\ SkippedPassed'
           /\ \A k \in DOMAIN package : k < next => (k \in skipped' <=> k \in skipped)
<1>1. next' = next + 1 /\ next \in Nat /\ skipped \subseteq Nat /\ DOMAIN package \subseteq Nat
  BY RenderOutcome, PackageAssets DEF Inv, TypeOK
<1>2. skipped' = skipped \/ skipped' = skipped \union {next}
  BY RenderCases DEF Inv
<1>3. SkippedPassed'
  <2> SUFFICES ASSUME NEW i \in skipped' PROVE i < next + 1
    BY <1>1 DEF SkippedPassed
  <2>1. CASE i \in skipped
    BY <1>1, <2>1 DEF SkippedPassed
  <2> QED
    BY <1>1, <1>2, <2>1
<1> QED
  BY <1>1, <1>2, <1>3

LEMMA RenderExplains ==
    ASSUME Inv, SkippedPassed, RenderedExplained, Render
    PROVE  RenderedExplained'
<1> PICK i : i = next
  OBVIOUS
<1> PICK a : a = package[i]
  OBVIOUS
<1> PICK t : t = a.target
  OBVIOUS
<1>1. /\ i \in DOMAIN package /\ a \in Asset /\ t \in Targets /\ next' = i + 1
      /\ next \in Nat /\ DOMAIN package \subseteq Nat /\ next \notin skipped
      /\ \A j \in DOMAIN package : package[j] \in Asset /\ package[j].target \in Targets
  BY RenderOutcome, AssetFields, PackageAssets DEF Inv, TypeOK, SkippedPassed
<1>2. UNCHANGED <<files, package>> /\ TypeOK
  BY DEF Render, world, Inv
<1>4. \A k \in DOMAIN package : k < next => (k \in skipped' <=> k \in skipped)
  BY RenderPasses
<1>5. ASSUME NEW j \in DOMAIN package, j < next, prepared'[package[j].target] = prepared[package[j].target]
      PROVE  Explained(j)'
  BY <1>1, <1>2, <1>4, <1>5, ExplainedStays DEF RenderedExplained
<1>6. SUFFICES Explained(i)' /\ (\A j \in DOMAIN package : j < next => Explained(j)')
              /\ \A u \in Targets : Planned(u)' => Filled(u)'
  <2>1. \A j \in DOMAIN package : j < i + 1 => j < i \/ j = i
    BY <1>1
  <2> QED
    BY <1>1, <1>2, <2>1 DEF RenderedExplained
<1>7. ASSUME NEW u \in Targets, Filled(u) PROVE Filled(u)'
  <2>1. PICK j \in DOMAIN package \ skipped : j < next /\ package[j].target = u
    BY <1>7 DEF Filled
  <2>2. j \in DOMAIN package' \ skipped' /\ j < next'
    BY <1>1, <1>2, <1>4, <2>1
  <2> QED
    BY <1>2, <2>1, <2>2 DEF Filled
<1>8. ASSUME skipped' = skipped PROVE Filled(t)'
  <2>1. i \in DOMAIN package' \ skipped' /\ i < next' /\ package'[i].target = t
    BY <1>1, <1>2, <1>8
  <2> QED
    BY <2>1 DEF Filled
<1>9. ASSUME prepared' = prepared \/ (skipped' = skipped /\ \A u \in Targets \ {t} : prepared'[u] = prepared[u])
       PROVE  \A u \in Targets : Planned(u)' => Filled(u)'
  BY <1>7, <1>8, <1>9 DEF RenderedExplained, Planned
<1>10. CASE /\ skipped' = skipped \union {i} /\ prepared' = prepared
            /\ \/ a.quarantined
               \/ a.kind = "mcp" /\ ~Mergeable(a, Standing(t))
               \/ a.kind = "text" /\ Planned(t) /\ prepared[t].content # Put(a, Empty)
  <2>1. Standing(t)' = Standing(t)
    BY <1>2, <1>10 DEF Standing, OnDisk, Planned
  <2>2. ASSUME a.kind = "text", Planned(t), prepared[t].content # Put(a, Empty)
        PROVE  Refused(i, Standing(t), skipped)'
    <3> SUFFICES \E j \in DOMAIN package \ skipped' : j < next /\ package[j].target = t
      BY <1>2, <2>1, <2>2 DEF Refused, Standing
    <3>1. PICK j \in DOMAIN package \ skipped : j < next /\ package[j].target = t
      BY <1>1, <2>2 DEF RenderedExplained, Filled
    <3> QED
      BY <1>1, <1>10, <3>1
  <2>3. Refused(i, Standing(t), skipped)'
    BY <1>2, <1>10, <2>1, <2>2 DEF Refused
  <2> QED
    BY <1>1, <1>2, <1>5, <1>10, <1>9, <2>3 DEF Explained
<1>11. CASE /\ skipped' = skipped /\ prepared' = prepared /\ ~a.quarantined
            /\ a.kind = "text" /\ Planned(t) /\ prepared[t].content = Put(a, Empty)
  <2>1. Contains(a, prepared[t].content)
    BY <1>1, <1>11, PutEmpty DEF Contains
  <2> QED
    BY <1>1, <1>2, <1>5, <1>11, <1>9, <2>1 DEF Explained, Planned
<1>12. CASE /\ skipped' = skipped /\ ~a.quarantined /\ prepared'[t] # None
            /\ prepared'[t].content = Put(a, IF a.kind = "mcp" THEN Standing(t) ELSE Empty)
            /\ \A u \in Targets \ {t} : prepared'[u] = prepared[u]
            /\ \/ a.kind = "mcp" /\ Mergeable(a, Standing(t))
               \/ a.kind = "text" /\ ~Planned(t)
  <2> DEFINE new == prepared'[t].content
  <2>1. CASE a.kind = "mcp"
    <3>1. Standing(t) \in Document /\ Mergeable(a, Standing(t)) /\ new = Put(a, Standing(t))
      <4>1. Base(a) = Standing(t)
        BY DEF Base, Standing, OnDisk, Planned
      <4> QED
        BY <1>1, <1>2, <1>12, <2>1, <4>1, BaseDocument
    <3>2. Contains(a, new)
      BY <1>1, <1>12, <2>1, <3>1, PutContained
    <3>3. new \in Document /\ Keeps(new, Standing(t)) /\ (~Toml(a) => new.style = "mnemo")
      BY <1>1, <2>1, <3>1, <3>2, PutDocument DEF Mergeable, Contains
    <3>4. ASSUME NEW j \in DOMAIN package, j < next, package[j].target = t
          PROVE  Explained(j)'
      <4>1. package[j].kind = "mcp" /\ package[j] \in Asset /\ (Toml(package[j]) <=> Toml(a))
        BY <1>1, <1>2, <2>1, <3>4, SameKind DEF Toml
      <4>2. /\ Contains(package[j], Standing(t)) => Contains(package[j], new)
            /\ ~Mergeable(package[j], Standing(t)) => ~Mergeable(package[j], new)
        BY <3>1, <3>3, <4>1, MergesKeep
      <4>3. Standing(t)' = new
        BY <1>2, <1>12 DEF Standing, Planned
      <4>4. Explained(j)
        BY <3>4 DEF RenderedExplained
      <4>5. CASE j \in skipped
        <5>1. package[j].quarantined \/ ~Mergeable(package[j], Standing(t))
          BY <3>4, <4>1, <4>4, <4>5 DEF Explained, Refused
        <5> QED
          BY <1>2, <1>12, <3>4, <4>1, <4>2, <4>3, <4>5, <5>1 DEF Explained, Refused
      <4>6. CASE j \notin skipped
        <5>1. Contains(package[j], Standing(t))
          BY <3>4, <4>4, <4>6 DEF Explained, Standing
        <5> QED
          BY <1>2, <1>12, <3>4, <4>2, <4>6, <5>1 DEF Explained, Planned
      <4> QED
        BY <4>5, <4>6
    <3>5. Explained(i)'
      BY <1>1, <1>2, <1>12, <3>2 DEF Explained, Planned
    <3> QED
      BY <1>1, <1>5, <1>12, <1>9, <3>4, <3>5
  <2>2. CASE a.kind = "text" /\ ~Planned(t)
    <3>1. new = Put(a, Empty) /\ Contains(a, new)
      BY <1>1, <1>12, <2>2, PutEmpty DEF Contains
    <3>2. Explained(i)'
      BY <1>1, <1>2, <1>12, <3>1 DEF Explained, Planned
    <3>3. ASSUME NEW j \in DOMAIN package, j < next, package[j].target = t
          PROVE  Explained(j)'
      <4>1. package[j].kind = "text"
        BY <1>1, <1>2, <2>2, <3>3, SameKind
      <4>2. \A k \in DOMAIN package \ skipped : k < next => package[k].target # t
        BY <2>2 DEF RenderedExplained, Explained
      <4>3. Explained(j) /\ j \in skipped
        BY <3>3, <4>2 DEF RenderedExplained
      <4>4. \A k \in DOMAIN package : k < j => k < next
        BY <1>1, <3>3
      <4>5. package[j].quarantined
        BY <3>3, <4>1, <4>2, <4>3, <4>4 DEF Explained, Refused
      <4> QED
        BY <1>2, <1>12, <4>3, <4>5 DEF Explained, Refused
    <3> QED
      BY <1>1, <1>5, <1>12, <1>9, <3>2, <3>3
  <2> QED
    BY <1>12, <2>1, <2>2
<1> QED
  BY <1>2, <1>10, <1>11, <1>12, RenderCases

\* A preparation after a calm apply decides about each asset as that one did.
LEMMA RenderRepeats ==
    ASSUME Inv, SkippedPassed, SettledOnDisk, Repeats, Render
    PROVE  SettledOnDisk' /\ Repeats'
<1> DEFINE a == package[next] t == a.target
<1>1. /\ next \in DOMAIN package /\ a \in Asset /\ t \in Targets /\ next' = next + 1
      /\ next \in Nat /\ DOMAIN package \subseteq Nat /\ next \notin skipped
  BY RenderOutcome, AssetFields, PackageAssets DEF Inv, TypeOK, SkippedPassed
<1>2. UNCHANGED <<files, package, settled>> /\ TypeOK
  BY DEF Render, world, Inv
<1>3. SettledOnDisk'
  BY <1>2 DEF SettledOnDisk, Refused, OnDisk
<1>4. Standing(t) = OnDisk(t)
  <2>1. CASE Planned(t)
    <3>1. files[t] = prepared[t].content /\ files[t] \in Document
      BY <1>1, <1>2, <2>1, PreparedFields DEF Repeats
    <3> QED
      BY <2>1, <3>1, NoneIsApart DEF Standing, OnDisk
  <2> QED
    BY <2>1 DEF Standing
<1>5. CASE next \in settled
  <2>1. Refused(next, OnDisk(t), settled)
    BY <1>1, <1>5 DEF SettledOnDisk
  <2>2. ASSUME a.kind = "text", ~a.quarantined
        PROVE  Planned(t) /\ prepared[t].content # Put(a, Empty)
    <3>1. OnDisk(t) # Put(a, Empty) /\ \E j \in DOMAIN package \ settled : j < next /\ package[j].target = t
      BY <2>1, <2>2 DEF Refused
    <3>2. PICK j \in DOMAIN package \ settled : j < next /\ package[j].target = t
      BY <3>1
    <3>3. j \in DOMAIN package \ skipped
      BY <3>2 DEF Repeats
    <3>4. Planned(t)
      BY <3>2, <3>3 DEF Inv, RenderedAccounted, Accounted
    <3> QED
      BY <1>4, <3>1, <3>4 DEF Standing
  <2>3. a.kind = "mcp" => a.quarantined \/ ~Mergeable(a, Standing(t))
    BY <1>4, <2>1 DEF Refused
  <2>4. skipped' = skipped \union {next} /\ prepared' = prepared
    BY <1>2, <2>2, <2>3, RenderCases
  <2>5. ASSUME NEW i \in DOMAIN package, i < next + 1 PROVE i \in skipped' <=> i \in settled
    BY <1>1, <1>5, <2>4, <2>5 DEF Repeats
  <2> QED
    BY <1>1, <1>2, <1>3, <2>4, <2>5 DEF Repeats, Planned
<1>6. CASE next \notin settled
  <2>1. Contains(a, files[t]) /\ ~a.quarantined /\ files[t] \in Document
    BY <1>1, <1>6 DEF SettledOnDisk, Contains
  <2>2. Standing(t) = files[t]
    BY <1>4, <2>1, NoneIsApart DEF OnDisk
  <2>3. a.kind = "mcp" => Mergeable(a, Standing(t)) /\ Put(a, Standing(t)) = files[t]
    BY <1>1, <2>1, <2>2, ContainedPut
  <2>4. a.kind = "text" => files[t] = Put(a, Empty)
    BY <2>1 DEF Contains
  <2>5. a.kind \in {"text", "mcp"}
    BY <1>1, AssetFields
  <2>6. Planned(t) => prepared[t].content = files[t]
    BY <1>1 DEF Repeats
  <2>7. /\ skipped' = skipped /\ \A u \in Targets \ {t} : prepared'[u] = prepared[u]
        /\ prepared'[t] = prepared[t] \/ prepared'[t].content = files[t]
    BY <1>2, <2>1, <2>3, <2>4, <2>5, <2>6, RenderCases
  <2>8. ASSUME NEW i \in DOMAIN package, i < next + 1 PROVE i \in skipped' <=> i \in settled
    BY <1>1, <1>6, <2>7, <2>8 DEF Repeats
  <2>9. ASSUME NEW u \in Targets, Planned(u)' PROVE files[u] = prepared'[u].content
    BY <1>1, <2>7, <2>9 DEF Repeats, Planned
  <2> QED
    BY <1>1, <1>2, <1>3, <2>8, <2>9 DEF Repeats
<1> QED
  BY <1>5, <1>6

\* What an apply without manual steps leaves on disk explains what it did.
LEMMA ApplySettles ==
    ASSUME ConvInv, ApplyPrepared, calm, Manual(BuildFilePlan) = {}
    PROVE  SettledOnDisk'
<1>1. /\ pc = "done" /\ UNCHANGED package /\ settled' = skipped
      /\ files' = [t \in Targets |->
            IF t \in Writes(BuildFilePlan) THEN prepared[t].content ELSE files[t]]
  BY DEF ApplyPrepared
<1>2. ASSUME NEW t \in Targets, Planned(t) PROVE files'[t] = prepared[t].content
  <2>1. BuildFilePlan[t] = [kind |-> Decide(prepared[t].content, observed[t], known[t]),
                            expected |-> observed[t], file |-> prepared[t]]
    BY <1>2 DEF BuildFilePlan
  <2>2. BuildFilePlan[t] # None
    BY <1>2, <2>1, OperationTypes, NoOperationIsNone DEF ConvInv, Inv
  <2>3. BuildFilePlan[t].kind # "manual"
    BY <2>2 DEF Manual, Of
  <2>4. CASE BuildFilePlan[t].kind = "write"
    BY <1>1, <2>2, <2>4 DEF Writes, Of
  <2>5. CASE BuildFilePlan[t].kind # "write"
    <3>1. observed[t] = prepared[t].content
      BY <2>1, <2>3, <2>5 DEF Decide
    <3>2. t \notin Writes(BuildFilePlan)
      BY <2>5 DEF Writes, Of
    <3> QED
      BY <1>1, <1>2, <3>1, <3>2 DEF ConvInv
  <2> QED
    BY <2>4, <2>5
<1>3. ASSUME NEW t \in Targets, ~Planned(t) PROVE files'[t] = files[t]
  BY <1>1, <1>3, WritesPlanned DEF ConvInv, Inv
<1>4. ASSUME NEW t \in Targets PROVE OnDisk(t)' = Standing(t)
  <2>1. CASE Planned(t)
    BY <1>2, <2>1, PreparedFields, NoneIsApart DEF OnDisk, Standing, ConvInv, Inv
  <2>2. CASE ~Planned(t)
    BY <1>3, <2>2 DEF OnDisk, Standing
  <2> QED
    BY <2>1, <2>2
<1>5. ASSUME NEW i \in DOMAIN package, NEW t, t = package[i].target
      PROVE  IF i \in skipped THEN Refused(i, OnDisk(t)', skipped) ELSE Contains(package[i], files'[t])
  <2>1. i < next /\ t \in Targets
    BY <1>1, <1>5, PackageAssets, AssetFields DEF ConvInv, Inv, TypeOK, Control
  <2>2. Explained(i)
    BY <2>1 DEF ConvInv, RenderedExplained
  <2> QED
    BY <1>2, <1>4, <1>5, <2>1, <2>2 DEF Explained
<1> QED
  BY <1>1, <1>5 DEF SettledOnDisk, Refused, OnDisk

-----------------------------------------------------------------------------
\* A command that ends or plans again starts from nothing.
LEMMA ResetConverges ==
    ASSUME ConvInv, Inv', Reset, pc' \in {"idle", "render"},
           UNCHANGED <<files, package>>, calm' => calm /\ settled' = settled
    PROVE  ConvInv'
<1>1. next' = 1 /\ prepared' = Nothing /\ skipped' = {}
  BY DEF Reset
<1>2. \A t \in Targets : ~Planned(t)'
  BY <1>1 DEF Nothing, Planned
<1>3. ASSUME NEW i \in DOMAIN package PROVE ~(i < next')
  BY <1>1, <1>3, PackageAssets DEF ConvInv, Inv, TypeOK
<1>4. IdleIsClean' /\ SkippedPassed' /\ RenderedExplained' /\ Repeats'
  BY <1>1, <1>2, <1>3 DEF IdleIsClean, SkippedPassed, RenderedExplained, Repeats
<1>5. calm' /\ settled' # None => SettledOnDisk'
  BY DEF ConvInv, SettledOnDisk, Refused, OnDisk
<1> QED
  BY <1>2, <1>4, <1>5 DEF ConvInv

LEMMA CommandConverges ==
    ASSUME ConvInv, NEW c \in {"plan", "apply", "verify"}, Command(c)
    PROVE  ConvInv'
<1>1. /\ Inv' /\ pc = "idle" /\ pc' = "render"
      /\ UNCHANGED <<files, package, prepared, skipped, next>>
  <2>1. Inv'
    BY CommandHolds DEF ConvInv
  <2> QED
    BY <2>1 DEF Command, preparing, world
<1>2. next = 1 /\ prepared = Nothing
  BY <1>1 DEF ConvInv, Inv, Control, IdleIsClean
<1>3. \A t \in Targets : ~Planned(t)'
  BY <1>1, <1>2 DEF Nothing, Planned
<1>4. ASSUME NEW i \in DOMAIN package PROVE ~(i < next')
  BY <1>1, <1>2, <1>4, PackageAssets DEF ConvInv, Inv, TypeOK
<1>5. IdleIsClean' /\ SkippedPassed' /\ RenderedExplained' /\ Repeats'
  BY <1>1, <1>3, <1>4 DEF ConvInv, IdleIsClean, SkippedPassed, RenderedExplained, Repeats
<1>6. calm' /\ settled' # None => calm /\ settled' = settled
  <2>1. CASE c = "apply"
    BY <2>1 DEF Command
  <2>2. CASE c # "apply"
    <3>1. calm' = calm /\ settled' = settled
      BY <2>2 DEF Command
    <3> QED
      BY <3>1
  <2> QED
    BY <2>1, <2>2
<1>7. calm' /\ settled' # None => SettledOnDisk'
  BY <1>1, <1>6 DEF ConvInv, SettledOnDisk, Refused, OnDisk
<1> QED
  BY <1>1, <1>3, <1>5, <1>7 DEF ConvInv

\* The steps between rendering and the end of a command.
LEMMA MoveConverges ==
    ASSUME ConvInv, Inv', UNCHANGED <<files, package, prepared, skipped, next, calm, settled>>,
           pc' = "idle" => pc = "idle",
           pc' \in {"lookup", "done"} =>
                \A t \in Targets : Planned(t) /\ calm => observed'[t] = files[t]
    PROVE  ConvInv'
<1>1. IdleIsClean' /\ SkippedPassed' /\ (calm => RenderedExplained')
  BY DEF ConvInv, IdleIsClean, SkippedPassed, RenderedExplained, Explained, Filled, Refused,
     Standing, OnDisk, Planned
<1>2. calm /\ settled # None => SettledOnDisk' /\ Repeats'
  BY DEF ConvInv, SettledOnDisk, Repeats, Refused, OnDisk, Planned
<1>3. calm /\ pc' \in {"lookup", "done"} => \A t \in Targets : Planned(t)' => observed'[t] = files'[t]
  BY DEF Planned
<1> QED
  BY <1>1, <1>2, <1>3 DEF ConvInv

LEMMA ApplyConverges ==
    ASSUME ConvInv, ApplyPrepared
    PROVE  ConvInv'
<1>1. /\ Inv' /\ pc' = "idle" /\ next' = 1 /\ prepared' = Nothing /\ skipped' = {}
      /\ UNCHANGED <<package, calm>>
  BY ApplyHolds DEF ConvInv, ApplyPrepared, Exit, Reset
<1>2. \A t \in Targets : ~Planned(t)'
  BY <1>1 DEF Nothing, Planned
<1>3. ASSUME NEW i \in DOMAIN package PROVE ~(i < next')
  BY <1>1, <1>3, PackageAssets DEF ConvInv, Inv, TypeOK
<1>4. IdleIsClean' /\ SkippedPassed' /\ RenderedExplained' /\ Repeats'
  BY <1>1, <1>2, <1>3 DEF IdleIsClean, SkippedPassed, RenderedExplained, Repeats
<1>5. calm' /\ settled' # None => SettledOnDisk'
  BY <1>1, ApplySettles DEF ApplyPrepared
<1> QED
  BY <1>1, <1>2, <1>4, <1>5 DEF ConvInv

LEMMA MnemoConverges ==
    ASSUME ConvInv, Mnemo
    PROVE  ConvInv'
<1>1. Inv'
  BY MnemoHolds DEF ConvInv
<1>2. ASSUME Render PROVE ConvInv'
  <2>1. UNCHANGED <<files, calm, settled, pc>> /\ pc = "render"
    BY <1>2 DEF Render, world
  <2>2. SkippedPassed' /\ (calm => RenderedExplained')
    BY <1>2, RenderExplains, RenderPasses DEF ConvInv
  <2>3. calm /\ settled # None => SettledOnDisk' /\ Repeats'
    BY <1>2, RenderRepeats DEF ConvInv
  <2> QED
    BY <1>1, <2>1, <2>2, <2>3 DEF ConvInv, IdleIsClean
<1>3. ASSUME Observe PROVE ConvInv'
  <2>1. /\ UNCHANGED <<files, package, prepared, skipped, next, calm, settled>> /\ pc' # "idle"
        /\ \A t \in Targets : Planned(t) => observed'[t] = files[t]
    BY <1>3 DEF Observe, world
  <2> QED
    BY <1>1, <2>1, MoveConverges
<1>4. ASSUME PrepareWithOwnership PROVE ConvInv'
  <2>1. UNCHANGED <<files, package, calm, settled>> /\ pc = "lookup"
    BY <1>4 DEF PrepareWithOwnership, world
  <2>2. CASE pc' = "done" /\ UNCHANGED preparing
    BY <1>1, <2>1, <2>2, MoveConverges DEF preparing, ConvInv
  <2>3. CASE pc' = "render" /\ Reset
    BY <1>1, <2>1, <2>3, ResetConverges
  <2> QED
    BY <1>4, <2>2, <2>3 DEF PrepareWithOwnership
<1>5. ASSUME NEW v, Exit(v), UNCHANGED <<files, package, calm, settled>> PROVE ConvInv'
  BY <1>1, <1>5, ResetConverges DEF Exit
<1>6. ASSUME SavePlan PROVE ConvInv'
  BY <1>5, <1>6 DEF SavePlan, world
<1>7. ASSUME Refuse PROVE ConvInv'
  BY <1>5, <1>7 DEF Refuse, world
<1>8. ASSUME Verify \/ VerifyAssetDiscovery \/ CopyWorkspaceDocument \/ VerifyCodexMcp
      PROVE  ConvInv'
  <2>1. UNCHANGED <<files, package, calm, settled>>
    BY <1>8, VerifySteps DEF ConvInv, world
  <2>2. CASE pc' \in Discovering /\ UNCHANGED <<prepared, skipped, next>>
    BY <1>1, <2>1, <2>2, MoveConverges DEF Discovering
  <2> QED
    BY <1>5, <1>8, <2>1, <2>2, VerifySteps DEF ConvInv
<1> QED
  BY <1>2, <1>3, <1>4, <1>6, <1>7, <1>8, CommandConverges, ApplyConverges DEF Mnemo

LEMMA NextConverges ==
    ASSUME ConvInv, [Next]_vars
    PROVE  ConvInv'
<1>1. Inv'
  BY NextHolds DEF ConvInv
<1>2. CASE Mnemo
  BY <1>2, MnemoConverges
<1>3. CASE UNCHANGED vars
  <2>1. UNCHANGED <<files, package, prepared, skipped, next, calm, settled, pc, observed>>
    BY <1>3 DEF vars, world, preparing
  <2> QED
    BY <1>1, <2>1, MoveConverges DEF ConvInv
<1>4. ASSUME Environment PROVE ConvInv'
  BY <1>1, <1>4 DEF Environment, preparing, ConvInv, IdleIsClean, SkippedPassed
<1> QED
  BY <1>2, <1>3, <1>4 DEF Next, Edit, OtherApply, OtherUndo

LEMMA Convergence == Spec => []ConvInv
<1>1. Init => ConvInv
  <2> SUFFICES ASSUME Init PROVE ConvInv
    OBVIOUS
  <2>1. Inv /\ prepared = Nothing /\ skipped = {} /\ calm = FALSE
    BY InitHolds DEF Init
  <2> QED
    BY <2>1 DEF ConvInv, IdleIsClean, SkippedPassed
<1>2. ConvInv /\ [Next]_vars => ConvInv'
  BY NextConverges
<1> QED
  BY <1>1, <1>2, PTL DEF Spec

(***************************************************************************)
(* For every package and every start: a preparation that follows a calm    *)
(* apply without manual steps skips the same assets, and every file it     *)
(* prepares is the file on disk, whatever was merged into what.            *)
(***************************************************************************)
THEOREM ApplyingConverges == Spec => []Converges
<1>1. ConvInv => Converges
  <2> SUFFICES ASSUME ConvInv, calm, settled # None, pc = "done"
               PROVE  skipped = settled /\ \A t \in Targets : Planned(t) => files[t] = prepared[t].content
    BY DEF Converges
  <2>1. next > Len(package) /\ \A i \in DOMAIN package : i < next
    BY PackageAssets DEF ConvInv, Inv, TypeOK, Control
  <2>2. skipped \subseteq DOMAIN package /\ settled \subseteq DOMAIN package
    BY DEF ConvInv, Inv, TypeOK
  <2> QED
    BY <2>1, <2>2 DEF ConvInv, Repeats
<1> QED
  BY <1>1, Convergence, PTL

-----------------------------------------------------------------------------
(* Verify raises no false alarm *)

\* The document of a target is made of assets that are not left out.
FromRendered ==
    \A t \in Targets : Planned(t) =>
        \A i \in prepared[t].from : i < next /\ i \notin skipped

\* Since the targets were compared nobody changed them, and what was copied
\* of them is there.
CopiedSoFar ==
    /\ pc \in {"copied", "list"} => \E t \in TomlTargets : Planned(t)
    /\ calm /\ pc \in Discovering =>
            \A t \in Targets : Planned(t) => files[t] = prepared[t].content
    /\ calm /\ pc \in {"copied", "list"} => ServersIn(UserToml) \subseteq copied
    /\ calm /\ pc = "list" => ServersIn(WorkspaceToml) \subseteq copied

LEMMA RenderFrom ==
    ASSUME ConvInv, FromRendered, Render
    PROVE  FromRendered'
<1>1. /\ next \in DOMAIN package /\ next' = next + 1 /\ next \in Nat
      /\ \/ Left(next) \/ Twice(package[next])
         \/ \E doc : Laid(package[next], next, doc)
  BY RenderOutcome DEF ConvInv, Inv, TypeOK
<1>2. next \notin skipped /\ \A i \in skipped : i # next
  BY <1>1 DEF ConvInv, SkippedPassed
<1>3. ASSUME NEW t \in Targets, Planned(t), NEW i \in prepared[t].from
      PROVE  i \in Nat /\ i < next + 1 /\ i # next /\ i \notin skipped
  BY <1>1, <1>3, PreparedFields DEF FromRendered, ConvInv, Inv
<1>4. CASE Left(next)
  BY <1>1, <1>3, <1>4 DEF Left, FromRendered, Planned
<1>5. CASE Twice(package[next])
  BY <1>1, <1>3, <1>5 DEF Twice, FromRendered, Planned
<1>6. ASSUME NEW doc, Laid(package[next], next, doc)
      PROVE  FromRendered'
  <2> DEFINE t == package[next].target
  <2>1. /\ t \in Targets
        /\ prepared'[t].from = From(t) \union {next}
        /\ \A u \in Targets \ {t} : prepared'[u] = prepared[u]
        /\ skipped' = skipped
    BY <1>1, <1>6, LaidPrepared DEF Laid, ConvInv, Inv
  <2>2. ASSUME NEW i \in From(t) \union {next} PROVE i < next + 1 /\ i \notin skipped
    BY <1>1, <1>2, <1>3, <2>1, <2>2 DEF From, Planned
  <2> QED
    BY <1>1, <1>3, <2>1, <2>2 DEF FromRendered, Planned
<1> QED
  BY <1>1, <1>4, <1>5, <1>6

\* Nothing is planned any more.
LEMMA NothingFrom ==
    ASSUME prepared' = Nothing, pc' \notin Discovering
    PROVE  FromRendered' /\ CopiedSoFar'
<1>1. \A t \in Targets : ~Planned(t)'
  BY DEF Nothing, Planned
<1> QED
  BY <1>1 DEF FromRendered, CopiedSoFar, Discovering

LEMMA CopyCopies ==
    ASSUME CopiedSoFar, NEW t, NEW step, pc \in Discovering, Copy(t, step), pc' # "idle"
    PROVE  /\ copied \subseteq copied' /\ ServersIn(t)' \subseteq copied' /\ pc' = step
           /\ UNCHANGED <<files, calm, prepared, skipped, next>>
           /\ \A u : ServersIn(u)' = ServersIn(u)
  BY DEF Copy, CopyIfPresent, Exit, ServersIn, Quiet, world

LEMMA DiscoveryCopies ==
    ASSUME ConvInv, FromRendered, CopiedSoFar,
           Verify \/ VerifyAssetDiscovery \/ CopyWorkspaceDocument \/ VerifyCodexMcp
    PROVE  FromRendered' /\ CopiedSoFar'
<1>1. ASSUME NEW v, Exit(v) PROVE FromRendered' /\ CopiedSoFar'
  BY <1>1, NothingFrom DEF Exit, Reset, Discovering
<1>2. ASSUME ~\E v : Exit(v) PROVE FromRendered' /\ CopiedSoFar'
  <2>1. UNCHANGED <<files, calm, prepared, skipped, next>> /\ pc' # "idle"
    BY <1>2, VerifySteps DEF ConvInv, world, Discovering
  <2>2. FromRendered' /\ (\A t : Planned(t)' = Planned(t))
    BY <2>1 DEF FromRendered, Planned
  <2>3. CASE Verify
    BY <1>2, <2>1, <2>2, <2>3 DEF Verify, CopiedSoFar, Discovering
  <2>4. CASE VerifyAssetDiscovery
    <3>1. Copy(UserToml, "copied") /\ pc \in Discovering /\ \E t \in TomlTargets : Planned(t)
      BY <1>2, <2>4 DEF VerifyAssetDiscovery, Discovering
    <3> QED
      BY <2>1, <2>2, <3>1, CopyCopies DEF CopiedSoFar, Discovering
  <2>5. CASE CopyWorkspaceDocument
    <3>1. Copy(WorkspaceToml, "list") /\ pc \in Discovering /\ pc = "copied"
      BY <2>5 DEF CopyWorkspaceDocument, Discovering
    <3> QED
      BY <2>1, <2>2, <3>1, CopyCopies DEF CopiedSoFar, Discovering
  <2>6. CASE VerifyCodexMcp
    BY <1>2, <2>6 DEF VerifyCodexMcp
  <2> QED
    BY <2>3, <2>4, <2>5, <2>6
<1> QED
  BY <1>1, <1>2

LEMMA NextCopies ==
    ASSUME ConvInv, FromRendered, CopiedSoFar, [Next]_vars
    PROVE  FromRendered' /\ CopiedSoFar'
<1>1. ASSUME UNCHANGED <<prepared, skipped, next>>, pc' \notin Discovering
      PROVE  FromRendered' /\ CopiedSoFar'
  BY <1>1 DEF FromRendered, CopiedSoFar, Planned, Discovering
<1>2. ASSUME UNCHANGED <<prepared, skipped, next, pc, copied>>, calm' => calm /\ files' = files
      PROVE  FromRendered' /\ CopiedSoFar'
  BY <1>2 DEF FromRendered, CopiedSoFar, Planned, ServersIn
<1>3. CASE UNCHANGED vars
  BY <1>2, <1>3 DEF vars, preparing, world
<1>4. CASE Render
  <2>1. pc' \notin Discovering
    BY <1>4 DEF Render, Discovering
  <2> QED
    BY <1>4, <2>1, RenderFrom DEF CopiedSoFar, Discovering
<1>5. ASSUME NEW c \in {"plan", "apply", "verify"}, Command(c) PROVE FromRendered' /\ CopiedSoFar'
  BY <1>1, <1>5 DEF Command, preparing, Discovering
<1>6. CASE Observe
  BY <1>1, <1>6 DEF Observe, Discovering
<1>7. CASE PrepareWithOwnership
  <2>1. CASE pc' = "done" /\ UNCHANGED preparing
    BY <1>1, <2>1 DEF preparing, Discovering
  <2>2. CASE pc' = "render" /\ Reset
    BY <2>2, NothingFrom DEF Reset, Discovering
  <2> QED
    BY <1>7, <2>1, <2>2 DEF PrepareWithOwnership
<1>8. ASSUME NEW v, Exit(v) PROVE FromRendered' /\ CopiedSoFar'
  BY <1>8, NothingFrom DEF Exit, Reset, Discovering
<1>9. CASE SavePlan \/ Refuse \/ ApplyPrepared
  BY <1>8, <1>9 DEF SavePlan, Refuse, ApplyPrepared
<1>10. CASE Environment
  BY <1>2, <1>10 DEF Environment, preparing
<1> QED
  BY <1>3, <1>4, <1>5, <1>6, <1>7, <1>9, <1>10, DiscoveryCopies
     DEF Next, Mnemo, Edit, OtherApply, OtherUndo

(***************************************************************************)
(* For every package: when nobody changed a target since the apply, the    *)
(* copy that the product lists has every server verify expects, in its     *)
(* scope or the other.                                                     *)
(***************************************************************************)
THEOREM VerifyRaisesNoFalseAlarm == Spec => []NoFalseAlarm
<1>1. Init => FromRendered /\ CopiedSoFar
  BY DEF Init, FromRendered, CopiedSoFar, Planned, Nothing, Discovering
<1>2. ConvInv /\ FromRendered /\ CopiedSoFar /\ [Next]_vars => (FromRendered /\ CopiedSoFar)'
  BY NextCopies
<1>3. ConvInv /\ FromRendered /\ CopiedSoFar => NoFalseAlarm
  <2> SUFFICES ASSUME ConvInv, FromRendered, CopiedSoFar, pc = "list", calm,
                      NEW i \in DOMAIN package, package[i].kind = "mcp",
                      From(package[i].target) = {i}
               PROVE  package[i].name \in copied
    BY DEF NoFalseAlarm, Expected
  <2> DEFINE a == package[i]
             t == a.target
  <2>1. a \in Asset /\ t \in Targets /\ a.name \in Names
    BY PackageAssets, AssetFields DEF ConvInv, Inv
  <2>2. Planned(t) /\ i \notin skipped /\ i < next
    BY <2>1 DEF From, Planned, FromRendered
  <2>3. prepared[t].content.entries[a.name] # None
    BY <2>2 DEF ConvInv, Inv, RenderedAccounted, Accounted
  <2>4. files[t] \in Document /\ files[t] = prepared[t].content
    BY <2>1, <2>2, PreparedFields DEF CopiedSoFar, Discovering, ConvInv, Inv
  <2>5. a.name \in ServersIn(t)
    BY <2>1, <2>3, <2>4 DEF ServersIn
  <2>6. PICK u \in TomlTargets : Planned(u)
    BY DEF CopiedSoFar
  <2>7. PICK j \in DOMAIN package : package[j].target = u
    BY <2>6, TomlTargetsAreTargets DEF ConvInv, Inv, PlannedMentioned, Mentioned
  <2>8. t \in TomlTargets
    BY <2>6, <2>7, OneProduct DEF ConvInv, Inv, TypeOK
  <2> QED
    BY <2>5, <2>8 DEF TomlTargets, CopiedSoFar
<1> QED
  BY <1>1, <1>2, <1>3, Convergence, PTL DEF Spec
=============================================================================

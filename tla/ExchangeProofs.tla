----------------------------- MODULE ExchangeProofs -----------------------------
(***************************************************************************)
(* Exchange for every disk, every workspace, every edit and any damage on  *)
(* the way: what is opened was published, an undamaged package opens,      *)
(* nothing that runs or scans as a credential is planned automatically,    *)
(* every asset that is not reported arrives where the target product finds *)
(* it, every source gives one asset, and an export that nobody disturbs    *)
(* fails only for a reason in the user's files.                            *)
(***************************************************************************)
EXTENDS Exchange, FiniteSetTheorems, FunctionTheorems, SequenceTheorems, TLAPS

-----------------------------------------------------------------------------
(* The inductive invariant *)

TextKinds == {"instruction", "prompt"}

\* How a collector reads says what kind of asset it makes.
Fitting(look) ==
    /\ look.how \in {"text", "markdown"} => look.kind \in TextKinds
    /\ look.how \in {"json", "toml"} => look.kind = "mcp"
    /\ look.how = "skills" => look.kind = "skill"

\* The looks of a collector, without their order.
LooksOf(platform) == Range(Collector(platform))

\* An instruction lies where its product has it: it may go back there.
Located(a) ==
    /\ a.scope \in {"user", "workspace"}
    /\ a.kind = "instruction" =>
        /\ a.platform \in Platforms
        /\ \E look \in LooksOf(a.platform) :
            look.kind = "instruction" /\ ScopeOf(look.root) = a.scope /\ Finds(look, a.locator)

WellFormed(a) ==
    /\ Located(a)
    /\ a = [platform |-> a.platform, kind |-> a.kind, scope |-> a.scope, title |-> a.title,
            locator |-> a.locator, payload |-> a.payload, source |-> a.source,
            sensitivity |-> a.sensitivity, workspace |-> a.workspace]
    /\ a.kind \in Kinds
    /\ a.kind \in TextKinds => a.payload.marks \subseteq Marks
    /\ a.kind = "skill" =>
        /\ IsFiniteSet(DOMAIN a.payload)
        /\ \A f \in DOMAIN a.payload : a.payload[f].marks \subseteq Marks
    /\ a.kind = "handoff" => a.payload = Capsule

FilesAreKnown ==
    /\ scene \in Scenes
    /\ pc = "collect" => scene.from \in Platforms
    /\ row \in Nat \ {0}
    /\ DOMAIN disk = DOMAIN scene.disk
    /\ \A p \in DOMAIN disk : disk[p] = None \/ IsContent(disk[p])

RootIn(k, root) == IF root = "workspace" THEN scene.sources[k].path ELSE root

\* What a look found in a pass is where the look is.
Waits(look, k, place) ==
    /\ place = Place(RootIn(k, look.root), place.at) /\ IsPath(place.at)
    /\ Finds(look, place.at)
    /\ look.how = "skills" => Len(place.at) = Len(look.at) + 1

TodoFits ==
    todo # {} =>
        /\ row <= Len(Collector(scene.from))
        /\ \A place \in todo : Waits(TheLook, pass, place)

\* A Skill is read under the look that found it.
TreeIsKnown ==
    tree # None =>
        /\ tree.place \in todo
        /\ tree = [place |-> tree.place, files |-> tree.files, left |-> tree.left]
        /\ IsFiniteSet(DOMAIN tree.files)
        /\ \A f \in DOMAIN tree.files : IsContent(tree.files[f])
        /\ row <= Len(Collector(scene.from)) /\ TheLook.how = "skills"

AssetsAreKnown ==
    /\ IsFiniteSet(fresh) /\ IsFiniteSet(found)
    /\ \A a \in fresh \union found : WellFormed(a)
    /\ ~Collide(found)

PublishedIsKnown ==
    \A s \in published :
        /\ s = [bundle |-> s.bundle, signer |-> s.signer]
        /\ \A a \in s.bundle.assets : WellFormed(a)

\* Whatever happens on the way, a signature is of something that was published.
OfPublished(signature, publications) ==
    /\ signature = [key |-> signature.key, over |-> signature.over]
    /\ signature.key = signature.over.signer
    /\ [bundle |-> Unpacked(signature.over.objects), signer |-> signature.key] \in publications

Genuine(archive, publications) ==
    \A r \in archive :
        /\ r = [path |-> r.path, body |-> r.body, regular |-> r.regular, nr |-> r.nr]
        /\ r.path = SignaturePath => r.body = Garbled \/ OfPublished(r.body, publications)

FileIsKnown ==
    /\ Genuine(signed, published)
    /\ \/ file = None /\ pc \notin {"write", "sent"}
       \/ file = Torn
       \/ file = Seal(file.archive, file.wrap) /\ Genuine(file.archive, published)

Valid(b) ==
    \A a \in b.assets :
        WellFormed(a) /\ ValidAsset(a) /\ ValidReference(a, b.workspaces)

\* The directory of the workspace of an asset is a path.
Mapped(a) == a.workspace # None => IsPath(map[a.workspace].at)

\* From the opening on, what is planned is of a valid bundle.
BundleIsValid ==
    /\ pc \in {"map", "render"} \/ target # None =>
        /\ opened = [bundle |-> opened.bundle, signer |-> opened.signer]
        /\ Valid(opened.bundle)
    /\ target # None => pc \in {"render", "end"} /\ target \in Platforms
    /\ pc = "render" => target \in Platforms /\ \A a \in opened.bundle.assets : Mapped(a)
    /\ left # {} => pc = "render" /\ left \subseteq opened.bundle.assets

\* Nothing is left out without a report.
RenderedArrives ==
    pc = "render" \/ Finished =>
        \A a \in opened.bundle.assets \ (left \union skipped) :
            /\ Render(target, a) # Manual /\ a.sensitivity # "quarantined"
            /\ Whole(a)

PlannedIsReviewed ==
    \A p \in DOMAIN planned :
        /\ IF IsDocument(planned[p]) THEN planned[p] = [servers |-> planned[p].servers]
           ELSE planned[p] = [text |-> planned[p].text, header |-> planned[p].header]
        /\ Reviewed(planned[p])

\* The bundle of the archive, as long as only this version signs.
Built(b) ==
    /\ b = Bundles(b.assets, LabelSet)
    /\ signed = Build(Pack(b), Features(b), DeviceKey)
    /\ Packable(b, Labels)
    /\ IsFiniteSet(b.assets) /\ ~Collide(b.assets)

SignedIsBuilt ==
    pc \in {"create", "write", "sent"} /\ {s.signer : s \in published} = {DeviceKey} =>
        \E s \in published : Built(s.bundle)

SentIsSealed == pc = "sent" /\ ~damaged => file = Seal(signed, scene.wrap)

Receiving == {"map", "render", "end"}

OpenedLast == opened # None => pc \in Receiving

Inv ==
    /\ FilesAreKnown /\ TodoFits /\ TreeIsKnown /\ AssetsAreKnown /\ PublishedIsKnown /\ FileIsKnown
    /\ BundleIsValid /\ RenderedArrives /\ PlannedIsReviewed
    /\ SignedIsBuilt /\ SentIsSealed /\ OpenedLast /\ OpenedIsPublished /\ UndamagedOpens

-----------------------------------------------------------------------------
(* What collectors look for *)

Hows == {"text", "markdown", "skills", "json", "toml"}
Roots == {"config", "home", "workspace"}
Segments ==
    {"AGENTS.md", "AGENTS.override.md", "AGENTS.local.md", "CLAUDE.md", "CLAUDE.local.md",
     ".cursorrules", ".mcp.json", "mcp.json", "config.toml", "rules", "commands", "skills",
     ".agents", ".claude", ".codex", ".cursor", ".qoder"}

KnownLooks ==
    {look \in [how : Hows, root : Roots, at : Seq(Segments), kind : Kinds] : Fitting(look)}

LEMMA KnownLook ==
    ASSUME NEW how \in Hows, NEW root \in Roots,
           NEW at \in Seq(Segments), NEW kind \in Kinds, Fitting(Look(how, root, at, kind))
    PROVE  Look(how, root, at, kind) \in KnownLooks
  BY DEF KnownLooks, Look

LEMMA ScopeLooks ==
    ASSUME NEW root \in Roots, NEW hidden \in Segments,
           NEW texts \in Seq(Seq(Segments)), texts # <<>>
    PROVE  CollectScope(root, texts, hidden) \in Seq(KnownLooks)
<1> DEFINE below == Below(hidden, root)
           used == IF root = "workspace" THEN texts ELSE SubSeq(texts, 1, 1)
           first == [i \in DOMAIN used |-> Look("text", root, used[i], "instruction")]
           rest == <<Look("markdown", root, below \o <<"rules">>, "instruction"),
                     Look("markdown", root, below \o <<"commands">>, "prompt"),
                     Skills(root, below \o <<"skills">>)>>
           last == IF root = "workspace"
                   THEN <<Look("json", root, <<".mcp.json">>, "mcp")>> ELSE <<>>
<1>1. below \in Seq(Segments)
  BY DEF Below
<1>2. used \in Seq(Seq(Segments))
  <2>1. Len(texts) \in Nat \ {0}
    BY EmptySeq, LenProperties
  <2>2. SubSeq(texts, 1, 1) \in Seq(Seq(Segments))
    BY <2>1, SubSeqProperties
  <2> QED
    BY <2>2
<1> HIDE DEF below, used
<1>3. first \in Seq(KnownLooks)
  <2>1. DOMAIN used = 1..Len(used) /\ Len(used) \in Nat
    BY <1>2, LenProperties
  <2>2. ASSUME NEW i \in 1..Len(used)
        PROVE  Look("text", root, used[i], "instruction") \in KnownLooks
    <3>1. used[i] \in Seq(Segments)
      BY <1>2, <2>2
    <3>2. Fitting(Look("text", root, used[i], "instruction"))
      BY DEF Fitting, Look, TextKinds, Hows, Kinds
    <3> QED
      BY <3>1, <3>2, KnownLook DEF Hows, Kinds
  <2>3. first \in [1..Len(used) -> KnownLooks]
    BY <2>1, <2>2
  <2> QED
    BY <2>1, <2>3
<1>4. rest \in Seq(KnownLooks)
  <2>1. /\ below \o <<"rules">> \in Seq(Segments) /\ below \o <<"commands">> \in Seq(Segments)
        /\ below \o <<"skills">> \in Seq(Segments)
    BY <1>1 DEF Segments
  <2>2. Look("markdown", root, below \o <<"rules">>, "instruction") \in KnownLooks
    BY <2>1, KnownLook DEF Fitting, Look, TextKinds, Hows, Kinds
  <2>3. Look("markdown", root, below \o <<"commands">>, "prompt") \in KnownLooks
    BY <2>1, KnownLook DEF Fitting, Look, TextKinds, Hows, Kinds
  <2>4. Skills(root, below \o <<"skills">>) \in KnownLooks
    BY <2>1, KnownLook DEF Fitting, Look, Skills, TextKinds, Hows, Kinds
  <2> QED
    BY <2>2, <2>3, <2>4
<1>5. last \in Seq(KnownLooks)
  <2>1. <<".mcp.json">> \in Seq(Segments)
    BY DEF Segments
  <2>2. Look("json", root, <<".mcp.json">>, "mcp") \in KnownLooks
    BY <2>1, KnownLook DEF Fitting, Look, TextKinds, Hows, Kinds
  <2> QED
    BY <2>2
<1>6. CollectScope(root, texts, hidden) = first \o rest \o last
  BY DEF CollectScope, below, used
<1> HIDE DEF first, rest, last
<1> QED
  BY <1>3, <1>4, <1>5, <1>6

LEMMA LooksAreKnown ==
    ASSUME NEW platform \in Platforms
    PROVE  Collector(platform) \in Seq(KnownLooks)
<1>1. CASE platform = "codex"
  <2>1. /\ <<"AGENTS.override.md">> \in Seq(Segments)
        /\ <<"AGENTS.md">> \in Seq(Segments)
        /\ <<"skills">> \in Seq(Segments)
        /\ <<".agents", "skills">> \in Seq(Segments)
        /\ <<"config.toml">> \in Seq(Segments)
        /\ <<".codex", "config.toml">> \in Seq(Segments)
    BY DEF Segments
  <2>2. /\ Look("text", "config", <<"AGENTS.override.md">>, "instruction") \in KnownLooks
        /\ Look("text", "workspace", <<"AGENTS.override.md">>, "instruction") \in KnownLooks
        /\ Look("text", "config", <<"AGENTS.md">>, "instruction") \in KnownLooks
        /\ Look("text", "workspace", <<"AGENTS.md">>, "instruction") \in KnownLooks
        /\ Look("skills", "config", <<"skills">>, "skill") \in KnownLooks
        /\ Look("skills", "home", <<".agents", "skills">>, "skill") \in KnownLooks
        /\ Look("skills", "workspace", <<".agents", "skills">>, "skill") \in KnownLooks
        /\ Look("toml", "config", <<"config.toml">>, "mcp") \in KnownLooks
        /\ Look("toml", "workspace", <<".codex", "config.toml">>, "mcp") \in KnownLooks
    BY <2>1, KnownLook DEF Fitting, Look, TextKinds, Hows, Roots, Kinds
  <2>3. CollectCodex \in Seq(KnownLooks)
    BY <2>2 DEF CollectCodex, Text, Skills
  <2> QED
    BY <1>1, <2>3 DEF Collector
<1>2. CASE platform = "cursor"
  <2>1. /\ <<"skills">> \in Seq(Segments)
        /\ <<".agents", "skills">> \in Seq(Segments)
        /\ <<".cursorrules">> \in Seq(Segments)
        /\ <<".cursor", "rules">> \in Seq(Segments)
        /\ <<".cursor", "skills">> \in Seq(Segments)
        /\ <<".cursor", "mcp.json">> \in Seq(Segments)
    BY DEF Segments
  <2>2. /\ Look("skills", "config", <<"skills">>, "skill") \in KnownLooks
        /\ Look("skills", "home", <<".agents", "skills">>, "skill") \in KnownLooks
        /\ Look("text", "workspace", <<".cursorrules">>, "instruction") \in KnownLooks
        /\ Look("markdown", "workspace", <<".cursor", "rules">>, "instruction") \in KnownLooks
        /\ Look("skills", "workspace", <<".cursor", "skills">>, "skill") \in KnownLooks
        /\ Look("skills", "workspace", <<".agents", "skills">>, "skill") \in KnownLooks
        /\ Look("json", "workspace", <<".cursor", "mcp.json">>, "mcp") \in KnownLooks
    BY <2>1, KnownLook DEF Fitting, Look, TextKinds, Hows, Roots, Kinds
  <2>3. CollectCursor \in Seq(KnownLooks)
    BY <2>2 DEF CollectCursor, Text, Skills
  <2> QED
    BY <1>2, <2>3 DEF Collector
<1>3. CASE platform = "claude-code"
  <2>1. ASSUME NEW root \in Roots
        PROVE  CollectClaude(root) \in Seq(KnownLooks)
    <3> DEFINE texts == <<<<"CLAUDE.md">>, <<"CLAUDE.local.md">>, <<".claude", "CLAUDE.md">>>>
    <3>a. /\ <<"CLAUDE.md">> \in Seq(Segments)
          /\ <<"CLAUDE.local.md">> \in Seq(Segments)
          /\ <<".claude", "CLAUDE.md">> \in Seq(Segments)
      BY DEF Segments
    <3>1. texts \in Seq(Seq(Segments)) /\ texts # <<>>
      BY <3>a
    <3> HIDE DEF texts
    <3>2. CollectScope(root, texts, ".claude") \in Seq(KnownLooks)
      BY <3>1, ScopeLooks DEF Segments
    <3> QED
      BY <3>2 DEF CollectClaude, texts
  <2>2. CollectClaude("config") \in Seq(KnownLooks) /\ CollectClaude("workspace") \in Seq(KnownLooks)
    BY <2>1 DEF Roots
  <2>3. CollectClaude("config") \o CollectClaude("workspace") \in Seq(KnownLooks)
    BY <2>2
  <2> QED
    BY <1>3, <2>3 DEF Collector
<1>4. CASE platform = "qoder"
  <2>1. ASSUME NEW root \in Roots
        PROVE  CollectQoder(root) \in Seq(KnownLooks)
    <3> DEFINE texts == <<<<"AGENTS.md">>, <<"AGENTS.local.md">>>>
    <3>a. /\ <<"AGENTS.md">> \in Seq(Segments)
          /\ <<"AGENTS.local.md">> \in Seq(Segments)
      BY DEF Segments
    <3>1. texts \in Seq(Seq(Segments)) /\ texts # <<>>
      BY <3>a
    <3> HIDE DEF texts
    <3>2. CollectScope(root, texts, ".qoder") \in Seq(KnownLooks)
      BY <3>1, ScopeLooks DEF Segments
    <3> QED
      BY <3>2 DEF CollectQoder, texts
  <2>2. CollectQoder("config") \in Seq(KnownLooks) /\ CollectQoder("workspace") \in Seq(KnownLooks)
    BY <2>1 DEF Roots
  <2>3. CollectQoder("config") \o CollectQoder("workspace") \in Seq(KnownLooks)
    BY <2>2
  <2> QED
    BY <1>4, <2>3 DEF Collector
<1> QED
  BY <1>1, <1>2, <1>3, <1>4 DEF Platforms

LEMMA TheLookFits ==
    ASSUME NEW platform \in Platforms, NEW i \in 1..Len(Collector(platform))
    PROVE  Fitting(Collector(platform)[i])
<1>1. Collector(platform)[i] \in KnownLooks
  BY LooksAreKnown
<1> QED
  BY <1>1 DEF KnownLooks

\* collect_scope looks at these places.
ScopeTable(root, texts, hidden) ==
    {Look("text", root, texts[i], "instruction") :
        i \in {j \in DOMAIN texts : j = 1 \/ root = "workspace"}}
    \union {Look("markdown", root, Below(hidden, root) \o <<"rules">>, "instruction"),
            Look("markdown", root, Below(hidden, root) \o <<"commands">>, "prompt"),
            Look("skills", root, Below(hidden, root) \o <<"skills">>, "skill")}
    \union {look \in {Look("json", root, <<".mcp.json">>, "mcp")} : root = "workspace"}

LEMMA ScopeLooksAt ==
    ASSUME NEW root \in Roots, NEW hidden \in Segments,
           NEW texts \in Seq(Seq(Segments)), texts # <<>>
    PROVE  Range(CollectScope(root, texts, hidden)) = ScopeTable(root, texts, hidden)
<1> DEFINE below == Below(hidden, root)
           used == IF root = "workspace" THEN texts ELSE SubSeq(texts, 1, 1)
           first == [i \in DOMAIN used |-> Look("text", root, used[i], "instruction")]
           r1 == Look("markdown", root, below \o <<"rules">>, "instruction")
           r2 == Look("markdown", root, below \o <<"commands">>, "prompt")
           r3 == Look("skills", root, below \o <<"skills">>, "skill")
           rest == <<r1, r2, r3>>
           r4 == Look("json", root, <<".mcp.json">>, "mcp")
           last == IF root = "workspace" THEN <<r4>> ELSE <<>>
           S == Range(first) \union {r1, r2, r3, r4}
<1>1. used \in Seq(Seq(Segments)) /\ DOMAIN used = {j \in DOMAIN texts : j = 1 \/ root = "workspace"}
      /\ \A i \in DOMAIN used : used[i] = texts[i]
  <2>1. Len(texts) \in Nat \ {0} /\ DOMAIN texts = 1..Len(texts)
    BY EmptySeq, LenProperties
  <2>2. SubSeq(texts, 1, 1) \in Seq(Seq(Segments)) /\ Len(SubSeq(texts, 1, 1)) = 1
        /\ DOMAIN SubSeq(texts, 1, 1) = 1..1 /\ SubSeq(texts, 1, 1)[1] = texts[1]
    BY <2>1, SubSeqProperties
  <2> QED
    BY <2>1, <2>2
<1> HIDE DEF used
<1>2. first \in Seq(S)
  <2>1. DOMAIN used = 1..Len(used) /\ Len(used) \in Nat
    BY <1>1, LenProperties
  <2>2. first \in [1..Len(used) -> S]
    BY <2>1 DEF Range
  <2> QED
    BY <2>1, <2>2
<1>3. Range(first) = {Look("text", root, texts[i], "instruction") :
                        i \in {j \in DOMAIN texts : j = 1 \/ root = "workspace"}}
  BY <1>1 DEF Range
<1> HIDE DEF first
<1>5. rest \in Seq(S) /\ Range(rest) = {r1, r2, r3}
  <2> HIDE DEF r1, r2, r3, r4
  <2>1. DOMAIN rest = {1, 2, 3}
    OBVIOUS
  <2> QED
    BY <2>1 DEF Range
<1>6. last \in Seq(S) /\ Range(last) = {look \in {r4} : root = "workspace"}
  <2> HIDE DEF r1, r2, r3, r4
  <2>1. CASE root = "workspace"
    <3>1. last = <<r4>> /\ DOMAIN last = {1}
      BY <2>1
    <3> QED
      BY <2>1, <3>1 DEF Range
  <2>2. CASE root # "workspace"
    <3>1. last = <<>> /\ DOMAIN last = {}
      BY <2>2
    <3> QED
      BY <2>2, <3>1 DEF Range
  <2> QED
    BY <2>1, <2>2
<1>7. CollectScope(root, texts, hidden) = first \o rest \o last
  BY DEF CollectScope, below, used, first, Skills
<1> HIDE DEF rest, last, S, r1, r2, r3, r4
<1>8. Range(first \o rest \o last) = Range(first) \union Range(rest) \union Range(last)
  <2>1. first \o rest \in Seq(S)
    BY <1>2, <1>5, ConcatProperties
  <2>2. Range(first \o rest) = Range(first) \union Range(rest)
    BY <1>2, <1>5, RangeConcatenation
  <2>3. \A s, t \in Seq(S) : Range(s \o t) = Range(s) \union Range(t)
    BY RangeConcatenation
  <2> QED
    BY <1>6, <2>1, <2>2, <2>3
<1> QED
  BY <1>3, <1>5, <1>6, <1>7, <1>8 DEF ScopeTable, r1, r2, r3, r4

ClaudeTexts == <<<<"CLAUDE.md">>, <<"CLAUDE.local.md">>, <<".claude", "CLAUDE.md">>>>
QoderTexts == <<<<"AGENTS.md">>, <<"AGENTS.local.md">>>>

TableOf(platform) ==
    CASE platform = "codex" ->
            {Look("text", "config", <<"AGENTS.override.md">>, "instruction"),
             Look("text", "workspace", <<"AGENTS.override.md">>, "instruction"),
             Look("text", "config", <<"AGENTS.md">>, "instruction"),
             Look("text", "workspace", <<"AGENTS.md">>, "instruction"),
             Look("skills", "config", <<"skills">>, "skill"),
             Look("skills", "home", <<".agents", "skills">>, "skill"),
             Look("skills", "workspace", <<".agents", "skills">>, "skill"),
             Look("toml", "config", <<"config.toml">>, "mcp"),
             Look("toml", "workspace", <<".codex", "config.toml">>, "mcp")}
      [] platform = "cursor" ->
            {Look("skills", "config", <<"skills">>, "skill"),
             Look("skills", "home", <<".agents", "skills">>, "skill"),
             Look("text", "workspace", <<".cursorrules">>, "instruction"),
             Look("markdown", "workspace", <<".cursor", "rules">>, "instruction"),
             Look("skills", "workspace", <<".cursor", "skills">>, "skill"),
             Look("skills", "workspace", <<".agents", "skills">>, "skill"),
             Look("json", "workspace", <<".cursor", "mcp.json">>, "mcp")}
      [] platform = "claude-code" ->
            ScopeTable("config", ClaudeTexts, ".claude")
            \union ScopeTable("workspace", ClaudeTexts, ".claude")
      [] platform = "qoder" ->
            ScopeTable("config", QoderTexts, ".qoder")
            \union ScopeTable("workspace", QoderTexts, ".qoder")

LEMMA LooksInTable ==
    ASSUME NEW platform \in Platforms
    PROVE  LooksOf(platform) = TableOf(platform)
<1>1. CASE platform = "codex"
  <2>1. CollectCodex = <<Look("text", "config", <<"AGENTS.override.md">>, "instruction"),
             Look("text", "workspace", <<"AGENTS.override.md">>, "instruction"),
             Look("text", "config", <<"AGENTS.md">>, "instruction"),
             Look("text", "workspace", <<"AGENTS.md">>, "instruction"),
             Look("skills", "config", <<"skills">>, "skill"),
             Look("skills", "home", <<".agents", "skills">>, "skill"),
             Look("skills", "workspace", <<".agents", "skills">>, "skill"),
             Look("toml", "config", <<"config.toml">>, "mcp"),
             Look("toml", "workspace", <<".codex", "config.toml">>, "mcp")>>
    BY DEF CollectCodex, Text, Skills
  <2>2. DOMAIN CollectCodex = {1, 2, 3, 4, 5, 6, 7, 8, 9}
    BY <2>1
  <2> QED
    BY <1>1, <2>1, <2>2 DEF LooksOf, TableOf, Collector, Range
<1>2. CASE platform = "cursor"
  <2>1. CollectCursor = <<Look("skills", "config", <<"skills">>, "skill"),
             Look("skills", "home", <<".agents", "skills">>, "skill"),
             Look("text", "workspace", <<".cursorrules">>, "instruction"),
             Look("markdown", "workspace", <<".cursor", "rules">>, "instruction"),
             Look("skills", "workspace", <<".cursor", "skills">>, "skill"),
             Look("skills", "workspace", <<".agents", "skills">>, "skill"),
             Look("json", "workspace", <<".cursor", "mcp.json">>, "mcp")>>
    BY DEF CollectCursor, Text, Skills
  <2>2. DOMAIN CollectCursor = {1, 2, 3, 4, 5, 6, 7}
    BY <2>1
  <2> QED
    BY <1>2, <2>1, <2>2 DEF LooksOf, TableOf, Collector, Range
<1>3. CASE platform = "claude-code"
  <2>1. ASSUME NEW root \in {"config", "workspace"}
        PROVE  /\ CollectClaude(root) \in Seq(KnownLooks)
               /\ Range(CollectClaude(root)) = ScopeTable(root, ClaudeTexts, ".claude")
    <3>a. /\ <<"CLAUDE.md">> \in Seq(Segments)
          /\ <<"CLAUDE.local.md">> \in Seq(Segments)
          /\ <<".claude", "CLAUDE.md">> \in Seq(Segments)
          /\ ".claude" \in Segments /\ root \in Roots
      BY DEF Segments, Roots
    <3>1. ClaudeTexts \in Seq(Seq(Segments)) /\ ClaudeTexts # <<>>
      BY <3>a DEF ClaudeTexts
    <3> QED
      BY <3>a, <3>1, ScopeLooks, ScopeLooksAt DEF CollectClaude, ClaudeTexts
  <2>2. Range(CollectClaude("config") \o CollectClaude("workspace"))
            = Range(CollectClaude("config")) \union Range(CollectClaude("workspace"))
    BY <2>1, RangeConcatenation
  <2> QED
    BY <1>3, <2>1, <2>2 DEF LooksOf, TableOf, Collector
<1>4. CASE platform = "qoder"
  <2>1. ASSUME NEW root \in {"config", "workspace"}
        PROVE  /\ CollectQoder(root) \in Seq(KnownLooks)
               /\ Range(CollectQoder(root)) = ScopeTable(root, QoderTexts, ".qoder")
    <3>a. /\ <<"AGENTS.md">> \in Seq(Segments)
          /\ <<"AGENTS.local.md">> \in Seq(Segments)
          /\ ".qoder" \in Segments /\ root \in Roots
      BY DEF Segments, Roots
    <3>1. QoderTexts \in Seq(Seq(Segments)) /\ QoderTexts # <<>>
      BY <3>a DEF QoderTexts
    <3> QED
      BY <3>a, <3>1, ScopeLooks, ScopeLooksAt DEF CollectQoder, QoderTexts
  <2>2. Range(CollectQoder("config") \o CollectQoder("workspace"))
            = Range(CollectQoder("config")) \union Range(CollectQoder("workspace"))
    BY <2>1, RangeConcatenation
  <2> QED
    BY <1>4, <2>1, <2>2 DEF LooksOf, TableOf, Collector
<1> QED
  BY <1>1, <1>2, <1>3, <1>4 DEF Platforms

-----------------------------------------------------------------------------
(* What is rendered is found *)

LEMMA TwoSegments ==
    ASSUME NEW x, NEW y
    PROVE  <<x>> \o <<y>> = <<x, y>>
<1> DEFINE S == {x, y}
           u == <<x>> \o <<y>>
<1>1. x \in S /\ y \in S
  OBVIOUS
<1> HIDE DEF S
<1>2. <<x>> \in Seq(S) /\ <<y>> \in Seq(S) /\ <<x, y>> \in Seq(S)
  BY <1>1
<1>3. u \in Seq(S) /\ Len(u) = 2 /\ u[1] = x /\ u[2] = y
  BY <1>2, ConcatProperties
<1> HIDE DEF u
<1>4. u = <<x, y>>
  BY <1>2, <1>3, SeqEqual
<1> QED
  BY <1>4 DEF u

LEMMA ThreeSegments ==
    ASSUME NEW x, NEW y, NEW z
    PROVE  <<x, y>> \o <<z>> = <<x, y, z>>
<1> DEFINE S == {x, y, z}
           u == <<x, y>> \o <<z>>
<1>1. x \in S /\ y \in S /\ z \in S
  OBVIOUS
<1> HIDE DEF S
<1>2. <<x, y>> \in Seq(S) /\ <<z>> \in Seq(S) /\ <<x, y, z>> \in Seq(S)
  BY <1>1
<1>3. u \in Seq(S) /\ Len(u) = 3 /\ u[1] = x /\ u[2] = y /\ u[3] = z
  BY <1>2, ConcatProperties
<1> HIDE DEF u
<1>4. u = <<x, y, z>>
  BY <1>2, <1>3, SeqEqual
<1> QED
  BY <1>4 DEF u

LEMMA FourSegments ==
    ASSUME NEW x, NEW y, NEW z, NEW w
    PROVE  <<x, y>> \o <<z, w>> = <<x, y, z, w>> /\ <<x, y, z>> \o <<w>> = <<x, y, z, w>>
<1> DEFINE S == {x, y, z, w}
           u == <<x, y>> \o <<z, w>>
           v == <<x, y, z>> \o <<w>>
<1>1. x \in S /\ y \in S /\ z \in S /\ w \in S
  OBVIOUS
<1> HIDE DEF S
<1>2. /\ <<x, y>> \in Seq(S) /\ <<z, w>> \in Seq(S) /\ <<x, y, z, w>> \in Seq(S)
      /\ <<x, y, z>> \in Seq(S) /\ <<w>> \in Seq(S)
  BY <1>1
<1>3. u \in Seq(S) /\ Len(u) = 4 /\ u[1] = x /\ u[2] = y /\ u[3] = z /\ u[4] = w
  BY <1>2, ConcatProperties
<1>4. v \in Seq(S) /\ Len(v) = 4 /\ v[1] = x /\ v[2] = y /\ v[3] = z /\ v[4] = w
  BY <1>2, ConcatProperties
<1> HIDE DEF u, v
<1>5. u = <<x, y, z, w>> /\ v = <<x, y, z, w>>
  BY <1>2, <1>3, <1>4, SeqEqual
<1> QED
  BY <1>5 DEF u, v

LEMMA NothingMore ==
    ASSUME NEW x, NEW y, NEW z
    PROVE  <<x, y, z>> \o <<>> = <<x, y, z>> /\ <<x, y>> \o <<>> = <<x, y>>
<1> DEFINE S == {x, y, z}
<1>1. x \in S /\ y \in S /\ z \in S
  OBVIOUS
<1> HIDE DEF S
<1>2. <<x, y>> \in Seq(S) /\ <<x, y, z>> \in Seq(S)
  BY <1>1
<1> QED
  BY <1>2, ConcatEmptySeq

LEMMA TailSegments ==
    ASSUME NEW x, NEW y, NEW z, NEW w
    PROVE  Tail(<<x, y, z>>) = <<y, z>> /\ Tail(<<x, y, z, w>>) = <<y, z, w>>
  OBVIOUS

LEMMA PrefixOfConcat ==
    ASSUME NEW S, NEW s \in Seq(S), NEW t \in Seq(S), t # <<>>
    PROVE  IsStrictPrefix(s, s \o t) /\ Len(s \o t) = Len(s) + Len(t)
<1>1. /\ Len(s) \in Nat /\ Len(t) \in Nat \ {0}
      /\ s \o t \in Seq(S) /\ Len(s \o t) = Len(s) + Len(t)
  BY EmptySeq, LenProperties, ConcatProperties
<1> DEFINE u == s \o t
           n == Len(s)
<1>2. SubSeq(s, 1, n) = s /\ SubSeq(u, 1, n) = s
  BY <1>1, SubSeqOfConcat1, SubSeqFull
<1> HIDE DEF u
<1>3. n <= Len(u) /\ s # u
  BY <1>1 DEF u
<1>4. IsStrictPrefix(s, u)
  BY <1>2, <1>3 DEF IsStrictPrefix, IsPrefix
<1> QED
  BY <1>1, <1>4 DEF u

LEMMA ReadsWhatItFinds ==
    ASSUME NEW platform, NEW look \in LooksOf(platform), NEW place,
           look.root = SamePlace(platform, place).root, Finds(look, SamePlace(platform, place).at)
    PROVE  Reads(platform, look.kind, place)
<1>1. PICK i \in DOMAIN Collector(platform) : Collector(platform)[i] = look
  BY DEF LooksOf, Range
<1> QED
  BY <1>1 DEF Reads, Finds

LEMMA SamePlaceOf ==
    ASSUME NEW platform, NEW root, NEW at, root # "home" \/ platform # "cursor"
    PROVE  SamePlace(platform, Place(root, at)) = Place(root, at)
  BY DEF SamePlace, Place

\* A Skill and, of a prompt, its SKILL.md.
LEMMA SkillIsFound ==
    ASSUME NEW platform, NEW root, NEW at \in Seq(Segments), NEW name, NEW more \in {<<>>, <<"SKILL.md">>},
           Look("skills", root, at, "skill") \in LooksOf(platform), NEW place,
           SamePlace(platform, place) = Place(root, at \o <<name>> \o more)
    PROVE  Reads(platform, "skill", place)
<1> DEFINE look == Look("skills", root, at, "skill")
           S == Segments \union {name, "SKILL.md"}
           rest == <<name>> \o more
<1>1. at \in Seq(S) /\ <<name>> \in Seq(S) /\ more \in Seq(S)
  <2>1. name \in S /\ "SKILL.md" \in S
    OBVIOUS
  <2>2. at \in Seq(S)
    BY SeqMonotonic
  <2> HIDE DEF S
  <2>3. <<name>> \in Seq(S) /\ <<>> \in Seq(S) /\ <<"SKILL.md">> \in Seq(S)
    BY <2>1
  <2> QED
    BY <2>2, <2>3
<1>a. rest \in Seq(S) /\ Len(rest) \in {1, 2}
  <2> DEFINE n == Len(more)
  <2>1. n \in {0, 1}
    OBVIOUS
  <2> HIDE DEF S, n
  <2>2. rest \in Seq(S) /\ Len(rest) = 1 + n
    BY <1>1, ConcatProperties DEF n
  <2> HIDE DEF rest
  <2>3. Len(rest) \in {1, 2}
    BY <2>1, <2>2
  <2> QED
    BY <2>2, <2>3
<1> HIDE DEF S
<1>2. rest # <<>> /\ at \o <<name>> \o more = at \o rest
  <2>1. \A x, y, z \in Seq(S) : (x \o y) \o z = x \o (y \o z)
    BY ConcatAssociative
  <2> QED
    BY <1>1, <1>a, <2>1
<1>3. /\ IsPrefix(at, at \o <<name>> \o more)
      /\ Len(at \o <<name>> \o more) \in {Len(at) + 1, Len(at) + 2}
  <2> HIDE DEF rest
  <2>1. IsStrictPrefix(at, at \o rest) /\ Len(at \o rest) = Len(at) + Len(rest)
    BY <1>1, <1>a, <1>2, PrefixOfConcat
  <2> QED
    BY <1>a, <1>2, <2>1 DEF IsStrictPrefix
<1>4. /\ Finds(look, SamePlace(platform, place).at)
      /\ look.root = SamePlace(platform, place).root /\ look.kind = "skill"
  BY <1>3 DEF Finds, Look, Place
<1> QED
  BY <1>4, ReadsWhatItFinds

LEMMA TextIsFound ==
    ASSUME NEW platform, NEW how, NEW root \in {"config", "workspace"}, NEW at, NEW kind,
           how \notin {"skills", "markdown"},
           Look(how, root, at, kind) \in LooksOf(platform)
    PROVE  Reads(platform, kind, Place(root, at))
<1> DEFINE look == Look(how, root, at, kind)
           place == Place(root, at)
<1>1. SamePlace(platform, place) = place
  BY SamePlaceOf
<1>2. Finds(look, place.at) /\ look.root = place.root /\ look.kind = kind
  BY DEF Finds, Look, Place
<1> QED
  BY <1>1, <1>2, ReadsWhatItFinds

LEMMA MarkdownIsFound ==
    ASSUME NEW platform, NEW root \in {"config", "workspace"}, NEW at \in Seq(Segments), NEW kind,
           NEW more, NEW S, more \in Seq(S), more # <<>>,
           Look("markdown", root, at, kind) \in LooksOf(platform)
    PROVE  Reads(platform, kind, Place(root, at \o more))
<1> DEFINE look == Look("markdown", root, at, kind)
           place == Place(root, at \o more)
           T == Segments \union S
<1>1. at \in Seq(T) /\ more \in Seq(T)
  BY SeqMonotonic
<1>2. IsStrictPrefix(at, at \o more)
  BY <1>1, PrefixOfConcat
<1>3. SamePlace(platform, place) = place
  BY SamePlaceOf
<1>4. Finds(look, place.at) /\ look.root = place.root /\ look.kind = kind
  BY <1>2 DEF Finds, Look, Place
<1> QED
  BY <1>3, <1>4, ReadsWhatItFinds

LEMMA ScopedIsFound ==
    ASSUME NEW platform \in {"claude-code", "qoder"}, NEW hidden, NEW texts,
           texts \in Seq(Seq(Segments)), hidden \in Segments,
           TableOf(platform) = ScopeTable("config", texts, hidden)
                               \union ScopeTable("workspace", texts, hidden),
           NEW a, Located(a), a.kind \in Kinds \ {"handoff"},
           RenderScoped(platform, hidden, a) # Manual
    PROVE  Reads(platform, a.kind, RenderScoped(platform, hidden, a))
<1> DEFINE root == Rooted("config", a)
           below == Below(hidden, root)
           name == PortableName(a.title)
<1>1. platform \in Platforms
  BY DEF Platforms
<1>2. root \in {"config", "workspace"} /\ (a.scope = "workspace" => root = "workspace")
      /\ ScopeOf(root) = a.scope
  BY DEF Rooted, Located, ScopeOf
<1>3. \A look \in ScopeTable(root, texts, hidden) : look \in LooksOf(platform)
  BY <1>1, <1>2, LooksInTable
<1>4. /\ Look("markdown", root, below \o <<"rules">>, "instruction") \in LooksOf(platform)
      /\ Look("markdown", root, below \o <<"commands">>, "prompt") \in LooksOf(platform)
      /\ Look("skills", root, below \o <<"skills">>, "skill") \in LooksOf(platform)
  BY <1>3 DEF ScopeTable
<1>5. below \in Seq(Segments) /\ <<"rules">> \in Seq(Segments)
      /\ <<"commands">> \in Seq(Segments) /\ <<"skills">> \in Seq(Segments)
  <2>1. below \in {<<hidden>>, <<>>}
    BY DEF Below
  <2> HIDE DEF below
  <2>2. <<hidden>> \in Seq(Segments) /\ <<>> \in Seq(Segments)
    OBVIOUS
  <2>3. below \in Seq(Segments)
    BY <2>1, <2>2
  <2>4. "rules" \in Segments /\ "commands" \in Segments /\ "skills" \in Segments
    BY DEF Segments
  <2> QED
    BY <2>3, <2>4
<1>6. /\ below \o <<"rules">> \in Seq(Segments)
      /\ below \o <<"commands">> \in Seq(Segments)
      /\ below \o <<"skills">> \in Seq(Segments) /\ below \o <<"skills">> # <<>>
  BY <1>5, ConcatProperties, ConcatEqualIffEmpty
<1> DEFINE place == RenderScoped(platform, hidden, a)
<1> HIDE DEF below, name, root
<1>7. CASE a.kind = "instruction"
  <2> DEFINE otherwise == below \o <<"rules", "mnemoport", name>>
  <2>1. place = Place(root, Instruction(platform, a, otherwise))
    BY <1>7 DEF RenderScoped, root, below, name
  <2>2. CASE a.platform = platform /\ IsExact(platform, a.locator)
    <3>1. PICK look \in LooksOf(platform) : /\ look.kind = "instruction"
                                            /\ ScopeOf(look.root) = a.scope
                                            /\ Finds(look, a.locator)
      BY <1>7, <2>2 DEF Located
    <3>2. look.root \in {"config", "workspace"}
      <4>1. \A r \in {"config", "workspace"} : \A l \in ScopeTable(r, texts, hidden) : l.root = r
        BY DEF ScopeTable, Look
      <4> QED
        BY <1>1, <4>1, LooksInTable
    <3>3. look.root = root
      BY <1>2, <3>1, <3>2 DEF ScopeOf
    <3>4. place = Place(root, a.locator)
      BY <2>1, <2>2 DEF Instruction
    <3>5. SamePlace(platform, place) = place
      BY DEF SamePlace
    <3> QED
      BY <1>7, <3>1, <3>3, <3>4, <3>5, ReadsWhatItFinds DEF Place
  <2>3. CASE ~(a.platform = platform /\ IsExact(platform, a.locator))
    <3> DEFINE T == Segments \union {"mnemoport", name}
               more == <<"mnemoport", name>>
    <3>1. more # <<>>
      OBVIOUS
    <3>2. "mnemoport" \in T /\ name \in T /\ below \in Seq(T) /\ "rules" \in T
      BY <1>5, SeqMonotonic DEF Segments
    <3> HIDE DEF T
    <3>3. more \in Seq(T) /\ <<"rules">> \in Seq(T)
      BY <3>2
    <3>4. otherwise = (below \o <<"rules">>) \o more
      <4>1. <<"rules", "mnemoport", name>> = <<"rules">> \o more
        OBVIOUS
      <4> HIDE DEF more
      <4>2. below \o (<<"rules">> \o more) = (below \o <<"rules">>) \o more
        BY <3>2, <3>3, ConcatAssociative
      <4> QED
        BY <4>1, <4>2
    <3> HIDE DEF more, otherwise
    <3>5. place = Place(root, (below \o <<"rules">>) \o more)
      BY <2>1, <2>3, <3>4 DEF Instruction
    <3> QED
      BY <1>2, <1>4, <1>6, <1>7, <3>1, <3>3, <3>5, MarkdownIsFound
  <2> QED
    BY <2>2, <2>3
<1>8. CASE a.kind = "prompt"
  <2> DEFINE T == {name}
  <2>1. place = Place(root, below \o <<"commands", name>>)
    BY <1>8 DEF RenderScoped, root, below, name
  <2>2. <<name>> \in Seq(T) /\ <<name>> # <<>>
    OBVIOUS
  <2>3. below \o <<"commands", name>> = (below \o <<"commands">>) \o <<name>>
    <3> DEFINE U == Segments \union {name}
    <3>1. <<"commands", name>> = <<"commands">> \o <<name>>
      OBVIOUS
    <3>2. below \in Seq(U) /\ <<"commands">> \in Seq(U) /\ <<name>> \in Seq(U)
      <4>1. name \in U /\ "commands" \in U /\ below \in Seq(U)
        BY <1>5, SeqMonotonic DEF Segments
      <4> HIDE DEF U
      <4> QED
        BY <4>1
    <3> HIDE DEF U
    <3> QED
      BY <3>1, <3>2, ConcatAssociative
  <2> HIDE DEF T
  <2> QED
    BY <1>2, <1>4, <1>6, <1>8, <2>1, <2>2, <2>3, MarkdownIsFound
<1>9. CASE a.kind = "skill"
  <2>1. place = Place(root, below \o <<"skills", name>>)
    BY <1>9 DEF RenderScoped, root, below, name
  <2>2. below \o <<"skills", name>> = (below \o <<"skills">>) \o <<name>> \o <<>>
    <3> DEFINE U == Segments \union {name}
    <3>1. <<"skills", name>> = <<"skills">> \o <<name>>
      OBVIOUS
    <3>2. below \in Seq(U) /\ <<"skills">> \in Seq(U) /\ <<name>> \in Seq(U)
      <4>1. name \in U /\ "skills" \in U /\ below \in Seq(U)
        BY <1>5, SeqMonotonic DEF Segments
      <4> HIDE DEF U
      <4> QED
        BY <4>1
    <3> HIDE DEF U
    <3>3. below \o (<<"skills">> \o <<name>>) = (below \o <<"skills">>) \o <<name>>
      BY <3>2, ConcatAssociative
    <3>4. (below \o <<"skills">>) \o <<name>> \in Seq(U)
      BY <3>2, ConcatProperties
    <3> QED
      BY <3>1, <3>3, <3>4, ConcatEmptySeq
  <2> DEFINE none == <<>>
  <2>3. none \in {<<>>, <<"SKILL.md">>}
    OBVIOUS
  <2>4. SamePlace(platform, place) = Place(root, (below \o <<"skills">>) \o <<name>> \o none)
    <3> DEFINE at == (below \o <<"skills">>) \o <<name>> \o none
    <3>1. place = Place(root, at) /\ root # "home"
      BY <1>2, <2>1, <2>2
    <3> HIDE DEF at, place
    <3>2. SamePlace(platform, place) = Place(root, at)
      BY <3>1, SamePlaceOf
    <3> QED
      BY <3>2 DEF at, place
  <2> QED
    BY <1>4, <1>6, <1>9, <2>3, <2>4, SkillIsFound
<1>10. CASE a.kind = "mcp"
  <2>1. a.scope = "workspace" /\ place = Place(root, <<".mcp.json">>) /\ root = "workspace"
    BY <1>2, <1>10 DEF RenderScoped, root
  <2>2. Look("json", root, <<".mcp.json">>, "mcp") \in LooksOf(platform)
    BY <1>3, <2>1 DEF ScopeTable
  <2>3. "json" \notin {"skills", "markdown"}
    OBVIOUS
  <2>4. Reads(platform, "mcp", Place(root, <<".mcp.json">>))
    BY <1>2, <2>2, <2>3, TextIsFound
  <2> QED
    BY <1>10, <2>1, <2>4
<1> QED
  BY <1>7, <1>8, <1>9, <1>10 DEF Kinds

LEMMA RenderedIsFound ==
    ASSUME NEW platform \in Platforms, NEW a, Located(a), a.kind \in Kinds \ {"handoff"},
           Render(platform, a) # Manual,
           ~(a.kind = "mcp" /\ a.scope = "user" /\ platform = "cursor")
    PROVE  Reads(platform, KindAt(platform, a.kind), Render(platform, a))
<1> DEFINE name == PortableName(a.title)
           place == Render(platform, a)
           none == <<>>
           skill == <<"SKILL.md">>
<1>1. a.scope \in {"user", "workspace"}
  BY DEF Located
<1>a. none \in {<<>>, <<"SKILL.md">>} /\ skill \in {<<>>, <<"SKILL.md">>}
  OBVIOUS
<1>2. CASE platform = "claude-code"
  <2>1. TableOf(platform) = ScopeTable("config", ClaudeTexts, ".claude")
                            \union ScopeTable("workspace", ClaudeTexts, ".claude")
    BY <1>2 DEF TableOf
  <2>2. ClaudeTexts \in Seq(Seq(Segments)) /\ ".claude" \in Segments
    <3>1. /\ <<"CLAUDE.md">> \in Seq(Segments)
          /\ <<"CLAUDE.local.md">> \in Seq(Segments)
          /\ <<".claude", "CLAUDE.md">> \in Seq(Segments)
          /\ ".claude" \in Segments
      BY DEF Segments
    <3> QED
      BY <3>1 DEF ClaudeTexts
  <2>3. place = RenderScoped(platform, ".claude", a) /\ KindAt(platform, a.kind) = a.kind
    BY <1>2 DEF Render, RenderClaude, KindAt
  <2> QED
    BY <1>2, <2>1, <2>2, <2>3, ScopedIsFound
<1>3. CASE platform = "qoder"
  <2>1. TableOf(platform) = ScopeTable("config", QoderTexts, ".qoder")
                            \union ScopeTable("workspace", QoderTexts, ".qoder")
    BY <1>3 DEF TableOf
  <2>2. QoderTexts \in Seq(Seq(Segments)) /\ ".qoder" \in Segments
    <3>1. /\ <<"AGENTS.md">> \in Seq(Segments)
          /\ <<"AGENTS.local.md">> \in Seq(Segments)
          /\ ".qoder" \in Segments
      BY DEF Segments
    <3> QED
      BY <3>1 DEF QoderTexts
  <2>3. place = RenderScoped(platform, ".qoder", a) /\ KindAt(platform, a.kind) = a.kind
    BY <1>3 DEF Render, RenderQoder, KindAt
  <2> QED
    BY <1>3, <2>1, <2>2, <2>3, ScopedIsFound
<1>4. ASSUME NEW root, NEW at \in Seq(Segments), a.kind \in {"skill", "prompt"},
             platform \in {"codex", "cursor"},
             Look("skills", root, at, "skill") \in LooksOf(platform),
             SamePlace(platform, place) =
                Place(root, at \o <<name>> \o (IF a.kind = "skill" THEN none ELSE skill))
      PROVE  Reads(platform, KindAt(platform, a.kind), place)
  <2> DEFINE more == IF a.kind = "skill" THEN none ELSE skill
  <2>1. more \in {<<>>, <<"SKILL.md">>}
    OBVIOUS
  <2> HIDE DEF more, name, place
  <2>2. Reads(platform, "skill", place)
    BY <1>4, <2>1, SkillIsFound DEF more
  <2> QED
    BY <1>4, <2>2 DEF KindAt
<1>5. CASE platform = "codex"
  <2>1. CASE a.kind = "instruction"
    <3> DEFINE root == Rooted("config", a)
    <3>1. root \in {"config", "workspace"}
      BY DEF Rooted
    <3>2. Look("text", root, <<"AGENTS.md">>, "instruction") \in LooksOf(platform)
      BY <1>5, <3>1, LooksInTable DEF TableOf
    <3>3. place = Place(root, <<"AGENTS.md">>) /\ KindAt(platform, a.kind) = "instruction"
      BY <1>5, <2>1 DEF Render, RenderCodex, KindAt
    <3> HIDE DEF root, place
    <3>4. "text" \notin {"skills", "markdown"}
      OBVIOUS
    <3>5. Reads(platform, "instruction", Place(root, <<"AGENTS.md">>))
      BY <3>1, <3>2, <3>4, TextIsFound
    <3> QED
      BY <3>3, <3>5 DEF place
  <2>2. CASE a.kind = "mcp"
    <3>1. "toml" \notin {"skills", "markdown"} /\ KindAt(platform, a.kind) = "mcp"
      BY <2>2 DEF KindAt
    <3>2. CASE a.scope = "workspace"
      <4>1. place = Place("workspace", <<".codex", "config.toml">>)
        <5>1. <<".codex">> \o <<"config.toml">> = <<".codex", "config.toml">>
          BY TwoSegments
        <5>2. RenderCodex(a) = Place("workspace", <<".codex">> \o <<"config.toml">>)
          BY <2>2, <3>2 DEF RenderCodex, Rooted
        <5> QED
          BY <1>5, <5>1, <5>2 DEF Render
      <4>2. Look("toml", "workspace", <<".codex", "config.toml">>, "mcp") \in LooksOf(platform)
        BY <1>5, LooksInTable DEF TableOf
      <4> HIDE DEF place
      <4>3. Reads(platform, "mcp", Place("workspace", <<".codex", "config.toml">>))
        BY <3>1, <4>2, TextIsFound
      <4> QED
        BY <3>1, <4>1, <4>3 DEF place
    <3>3. CASE a.scope = "user"
      <4>1. place = Place("config", <<"config.toml">>)
        BY <1>5, <2>2, <3>3 DEF Render, RenderCodex, Rooted
      <4>2. Look("toml", "config", <<"config.toml">>, "mcp") \in LooksOf(platform)
        BY <1>5, LooksInTable DEF TableOf
      <4> HIDE DEF place
      <4>3. Reads(platform, "mcp", Place("config", <<"config.toml">>))
        BY <3>1, <4>2, TextIsFound
      <4> QED
        BY <3>1, <4>1, <4>3 DEF place
    <3> QED
      BY <1>1, <3>2, <3>3
  <2>3. CASE a.kind \in {"skill", "prompt"}
    <3> DEFINE root == Rooted("home", a)
               at == <<".agents", "skills">>
               more == IF a.kind = "skill" THEN none ELSE skill
    <3>1. root \in {"home", "workspace"} /\ at \in Seq(Segments)
      BY DEF Rooted, Segments
    <3>2. Look("skills", root, at, "skill") \in LooksOf(platform)
      <4>1. Look("skills", "home", at, "skill") \in LooksOf(platform)
        BY <1>5, LooksInTable DEF TableOf
      <4>2. Look("skills", "workspace", at, "skill") \in LooksOf(platform)
        BY <1>5, LooksInTable DEF TableOf
      <4> QED
        BY <3>1, <4>1, <4>2
    <3>3. place = Place(root, at \o <<name>> \o more)
      <4>1. a.kind = "skill" => RenderCodex(a) = Place(root, <<".agents", "skills", name>>)
        BY DEF RenderCodex
      <4>2. a.kind = "prompt" => RenderCodex(a) = Place(root, <<".agents", "skills", name, "SKILL.md">>)
        BY DEF RenderCodex
      <4>3. place = RenderCodex(a)
        BY <1>5 DEF Render
      <4>4. /\ at \o <<name>> \o none = <<".agents", "skills", name>>
            /\ at \o <<name>> \o skill = <<".agents", "skills", name, "SKILL.md">>
        <5> HIDE DEF name
        <5>1. at \o <<name>> = <<".agents", "skills", name>>
          BY ThreeSegments
        <5>2. <<".agents", "skills", name>> \o none = <<".agents", "skills", name>>
          BY NothingMore
        <5>3. <<".agents", "skills", name>> \o skill = <<".agents", "skills", name, "SKILL.md">>
          BY FourSegments
        <5> HIDE DEF at, none, skill
        <5> QED
          BY <5>1, <5>2, <5>3
      <4> HIDE DEF root, at, none, skill, name, place
      <4> QED
        BY <2>3, <4>1, <4>2, <4>3, <4>4
    <3>4. SamePlace(platform, place) = Place(root, at \o <<name>> \o more)
      <4> HIDE DEF root, at, more, name, place
      <4> QED
        BY <1>5, <3>3, SamePlaceOf
    <3> HIDE DEF root, at
    <3> QED
      BY <1>4, <1>5, <2>3, <3>1, <3>2, <3>4
  <2> QED
    BY <2>1, <2>2, <2>3 DEF Kinds
<1>6. CASE platform = "cursor"
  <2>1. CASE a.kind = "instruction"
    <3> DEFINE otherwise == <<".cursor", "rules", "mnemoport", name>>
    <3>1. a.scope = "workspace" /\ place = Place("workspace", Instruction("cursor", a, otherwise))
          /\ KindAt(platform, a.kind) = "instruction"
      BY <1>6, <2>1 DEF Render, RenderCursor, KindAt
    <3>2. SamePlace(platform, place) = place
      BY <3>1 DEF SamePlace, Place
    <3>3. CASE a.platform = "cursor" /\ IsExact("cursor", a.locator)
      <4>1. PICK look \in LooksOf(platform) : /\ look.kind = "instruction"
                                              /\ ScopeOf(look.root) = a.scope
                                              /\ Finds(look, a.locator)
        BY <1>6, <2>1, <3>3 DEF Located
      <4>2. look.root = "workspace"
        BY <3>1, <4>1 DEF ScopeOf
      <4>3. place = Place("workspace", a.locator)
        BY <3>1, <3>3 DEF Instruction
      <4> QED
        BY <3>1, <3>2, <4>1, <4>2, <4>3, ReadsWhatItFinds DEF Place
    <3>4. CASE ~(a.platform = "cursor" /\ IsExact("cursor", a.locator))
      <4> DEFINE at == <<".cursor", "rules">>
                 more == <<"mnemoport", name>>
                 T == {"mnemoport", name}
      <4>1. at \o more = otherwise /\ more \in Seq(T) /\ more # <<>>
        <5> HIDE DEF name
        <5>1. at \o more = otherwise
          BY FourSegments
        <5>2. "mnemoport" \in T /\ name \in T
          OBVIOUS
        <5> HIDE DEF T
        <5>3. more \in Seq(T) /\ more # <<>>
          BY <5>2
        <5> QED
          BY <5>1, <5>3
      <4>2. at \in Seq(Segments)
        BY DEF Segments
      <4>3. Look("markdown", "workspace", at, "instruction") \in LooksOf(platform)
        BY <1>6, LooksInTable DEF TableOf
      <4> HIDE DEF at, more, T, otherwise
      <4>4. Reads(platform, "instruction", Place("workspace", at \o more))
        BY <4>1, <4>2, <4>3, MarkdownIsFound
      <4>5. place = Place("workspace", otherwise)
        BY <3>1, <3>4 DEF Instruction
      <4> QED
        BY <3>1, <4>1, <4>4, <4>5
    <3> QED
      BY <3>3, <3>4
  <2>2. CASE a.kind = "mcp"
    <3>1. a.scope = "workspace" /\ "json" \notin {"skills", "markdown"} /\ KindAt(platform, a.kind) = "mcp"
      BY <1>1, <1>6, <2>2 DEF KindAt
    <3>2. place = Place("workspace", <<".cursor", "mcp.json">>)
      <4>1. <<".cursor">> \o <<"mcp.json">> = <<".cursor", "mcp.json">>
        BY TwoSegments
      <4>2. RenderCursor(a) = Place("workspace", <<".cursor">> \o <<"mcp.json">>)
        BY <2>2, <3>1 DEF RenderCursor, Rooted
      <4> QED
        BY <1>6, <4>1, <4>2 DEF Render
    <3>3. Look("json", "workspace", <<".cursor", "mcp.json">>, "mcp") \in LooksOf(platform)
      BY <1>6, LooksInTable DEF TableOf
    <3> HIDE DEF place
    <3>4. Reads(platform, "mcp", Place("workspace", <<".cursor", "mcp.json">>))
      BY <3>1, <3>3, TextIsFound
    <3> QED
      BY <3>1, <3>2, <3>4 DEF place
  <2>3. CASE a.kind \in {"skill", "prompt"}
    <3> DEFINE more == IF a.kind = "skill" THEN none ELSE skill
               at == <<".cursor", "skills">>
               mine == <<"skills">>
    <3>1. at \in Seq(Segments) /\ mine \in Seq(Segments)
      BY DEF Segments
    <3>2. /\ at \o <<name>> \o none = <<".cursor", "skills", name>>
          /\ at \o <<name>> \o skill = <<".cursor", "skills", name, "SKILL.md">>
          /\ mine \o <<name>> \o none = <<"skills", name>>
          /\ mine \o <<name>> \o skill = <<"skills", name, "SKILL.md">>
      <4> HIDE DEF name
      <4>1. at \o <<name>> = <<".cursor", "skills", name>> /\ mine \o <<name>> = <<"skills", name>>
        BY TwoSegments, ThreeSegments
      <4>2. /\ <<".cursor", "skills", name>> \o none = <<".cursor", "skills", name>>
            /\ <<"skills", name>> \o none = <<"skills", name>>
        BY NothingMore
      <4>3. /\ <<".cursor", "skills", name>> \o skill = <<".cursor", "skills", name, "SKILL.md">>
            /\ <<"skills", name>> \o skill = <<"skills", name, "SKILL.md">>
        BY ThreeSegments, FourSegments
      <4> HIDE DEF at, mine, none, skill
      <4> QED
        BY <4>1, <4>2, <4>3
    <3>3. place = Place(Rooted("home", a),
                        IF a.kind = "skill" THEN <<".cursor", "skills", name>>
                        ELSE <<".cursor", "skills", name, "SKILL.md">>)
      <4>1. a.kind = "skill" => RenderCursor(a) = Place(Rooted("home", a), <<".cursor", "skills", name>>)
        BY DEF RenderCursor
      <4>2. a.kind = "prompt" =>
                RenderCursor(a) = Place(Rooted("home", a), <<".cursor", "skills", name, "SKILL.md">>)
        BY DEF RenderCursor
      <4>3. place = RenderCursor(a)
        BY <1>6 DEF Render
      <4> HIDE DEF name, place
      <4> QED
        BY <2>3, <4>1, <4>2, <4>3
    <3>4. CASE a.scope = "workspace"
      <4>1. Look("skills", "workspace", at, "skill") \in LooksOf(platform)
        BY <1>6, LooksInTable DEF TableOf
      <4>2. SamePlace(platform, place) = Place("workspace", at \o <<name>> \o more)
        <5>1. place = Place("workspace", at \o <<name>> \o more)
          <6> HIDE DEF at, none, skill, name, place
          <6> QED
            BY <2>3, <3>2, <3>3, <3>4 DEF Rooted
        <5> HIDE DEF at, more, name, place
        <5> QED
          BY <5>1, SamePlaceOf
      <4>3. platform \in {"codex", "cursor"}
        BY <1>6
      <4> HIDE DEF at, place, name
      <4>4. Reads(platform, KindAt(platform, a.kind), place)
        BY <1>4, <2>3, <3>1, <4>1, <4>2, <4>3
      <4> QED
        BY <4>4 DEF place
    <3>5. CASE a.scope = "user"
      <4>1. Look("skills", "config", mine, "skill") \in LooksOf(platform)
        BY <1>6, LooksInTable DEF TableOf
      <4>2. SamePlace(platform, place) = Place("config", mine \o <<name>> \o more)
        <5>1. place.root = "home"
          BY <3>3, <3>5 DEF Rooted, Place
        <5>2. place.at[1] = ".cursor" /\ Tail(place.at) = mine \o <<name>> \o more
          <6>1. a.kind = "skill" => place.at = <<".cursor", "skills", name>>
            BY <3>3 DEF Place
          <6>2. a.kind = "prompt" => place.at = <<".cursor", "skills", name, "SKILL.md">>
            BY <2>3, <3>3 DEF Place
          <6>3. /\ Tail(<<".cursor", "skills", name>>) = <<"skills", name>>
                /\ Tail(<<".cursor", "skills", name, "SKILL.md">>) = <<"skills", name, "SKILL.md">>
            BY TailSegments
          <6>4. a.kind = "skill" => place.at[1] = ".cursor" /\ Tail(place.at) = <<"skills", name>>
            <7>1. <<".cursor", "skills", name>>[1] = ".cursor"
              OBVIOUS
            <7> HIDE DEF name, place
            <7> QED
              BY <6>1, <6>3, <7>1
          <6>5. a.kind = "prompt" => place.at[1] = ".cursor" /\ Tail(place.at) = <<"skills", name, "SKILL.md">>
            <7>1. <<".cursor", "skills", name, "SKILL.md">>[1] = ".cursor"
              OBVIOUS
            <7> HIDE DEF name, place
            <7> QED
              BY <6>2, <6>3, <7>1
          <6> HIDE DEF mine, none, skill, name, place
          <6> QED
            BY <2>3, <3>2, <6>4, <6>5
        <5> HIDE DEF mine, more, name, place
        <5> QED
          BY <1>6, <5>1, <5>2 DEF SamePlace
      <4>3. platform \in {"codex", "cursor"}
        BY <1>6
      <4> HIDE DEF mine, place, name
      <4>4. Reads(platform, KindAt(platform, a.kind), place)
        BY <1>4, <2>3, <3>1, <4>1, <4>2, <4>3
      <4> QED
        BY <4>4 DEF place
    <3> QED
      BY <1>1, <3>4, <3>5
  <2> QED
    BY <2>1, <2>2, <2>3 DEF Kinds
<1> QED
  BY <1>2, <1>3, <1>5, <1>6 DEF Platforms

-----------------------------------------------------------------------------
(* Bundles and archives *)

PackPaths(b) ==
    {Path("workspaces", w) : w \in b.workspaces}
    \union {Path("assets", AssetId(a)) : a \in b.assets}
    \union {Path("blobs", c) : c \in UNION {Blobs(a) : a \in b.assets}}

LEMMA PathFields ==
    ASSUME NEW dir, NEW id
    PROVE  /\ Path(dir, id).dir = dir /\ Path(dir, id).id = id
           /\ Path(dir, id) # ManifestPath /\ Path(dir, id) # SignaturePath
<1>1. DOMAIN Path(dir, id) = {"dir", "id"}
  BY DEF Path
<1>2. DOMAIN ManifestPath = {"dir"} /\ DOMAIN SignaturePath = {"dir"}
  BY DEF ManifestPath, SignaturePath
<1>3. Path(dir, id) # ManifestPath /\ Path(dir, id) # SignaturePath
  BY <1>1, <1>2
<1> QED
  BY <1>3 DEF Path

LEMMA PackDomain ==
    ASSUME NEW b
    PROVE  DOMAIN Pack(b) = PackPaths(b)
  BY DEF Pack, PackPaths

\* What lies at the paths of a packed bundle.
LEMMA PackedObjects ==
    ASSUME NEW b
    PROVE  /\ \A a \in b.assets :
                /\ Path("assets", AssetId(a)) \in DOMAIN Pack(b)
                /\ ~Collide(b.assets) => Pack(b)[Path("assets", AssetId(a))] = a
           /\ \A w \in b.workspaces :
                /\ Path("workspaces", w) \in DOMAIN Pack(b)
                /\ Pack(b)[Path("workspaces", w)] = [label |-> w]
           /\ \A c \in UNION {Blobs(a) : a \in b.assets} :
                /\ Path("blobs", c) \in DOMAIN Pack(b)
                /\ Pack(b)[Path("blobs", c)] = c
<1> DEFINE Content(p) == CASE p.dir = "assets" -> CHOOSE a \in b.assets : AssetId(a) = p.id
                        [] p.dir = "workspaces" -> [label |-> p.id]
                        [] p.dir = "blobs" -> p.id
<1>1. Pack(b) = [p \in PackPaths(b) |-> Content(p)]
  BY DEF Pack, PackPaths
<1> HIDE DEF Content
<1>2. \A p \in PackPaths(b) : Pack(b)[p] = Content(p)
  BY <1>1
<1>3. ASSUME NEW a \in b.assets, ~Collide(b.assets)
      PROVE  Content(Path("assets", AssetId(a))) = a
  <2>1. Content(Path("assets", AssetId(a))) = CHOOSE x \in b.assets : AssetId(x) = AssetId(a)
    BY PathFields DEF Content
  <2>2. \A x \in b.assets : AssetId(x) = AssetId(a) => x = a
    BY <1>3 DEF Collide
  <2> QED
    BY <2>1, <2>2
<1>4. ASSUME NEW w
      PROVE  Content(Path("workspaces", w)) = [label |-> w]
  BY PathFields DEF Content
<1>5. ASSUME NEW c
      PROVE  Content(Path("blobs", c)) = c
  BY PathFields DEF Content
<1>6. /\ \A a \in b.assets : Path("assets", AssetId(a)) \in PackPaths(b)
      /\ \A w \in b.workspaces : Path("workspaces", w) \in PackPaths(b)
      /\ \A c \in UNION {Blobs(a) : a \in b.assets} : Path("blobs", c) \in PackPaths(b)
  BY DEF PackPaths
<1> QED
  BY <1>2, <1>3, <1>4, <1>5, <1>6, PackDomain

LEMMA PackedIn ==
    ASSUME NEW b
    PROVE  /\ In(Pack(b), "assets") = {Path("assets", AssetId(a)) : a \in b.assets}
           /\ In(Pack(b), "workspaces") = {Path("workspaces", w) : w \in b.workspaces}
           /\ In(Pack(b), "blobs") =
                {Path("blobs", c) : c \in UNION {Blobs(a) : a \in b.assets}}
<1>1. \A p \in PackPaths(b) :
        \/ p.dir = "assets" /\ p \in {Path("assets", AssetId(a)) : a \in b.assets}
        \/ p.dir = "workspaces" /\ p \in {Path("workspaces", w) : w \in b.workspaces}
        \/ p.dir = "blobs" /\ p \in {Path("blobs", c) : c \in UNION {Blobs(a) : a \in b.assets}}
  BY PathFields DEF PackPaths
<1>2. /\ \A p \in {Path("assets", AssetId(a)) : a \in b.assets} :
            p \in PackPaths(b) /\ p.dir = "assets"
      /\ \A p \in {Path("workspaces", w) : w \in b.workspaces} :
            p \in PackPaths(b) /\ p.dir = "workspaces"
      /\ \A p \in {Path("blobs", c) : c \in UNION {Blobs(a) : a \in b.assets}} :
            p \in PackPaths(b) /\ p.dir = "blobs"
  BY PathFields DEF PackPaths
<1> QED
  BY <1>1, <1>2, PackDomain DEF In

\* Unpacking undoes packing when no two assets have one id.
LEMMA UnpackedPack ==
    ASSUME NEW assets, NEW workspaces, ~Collide(assets)
    PROVE  LET b == Bundles(assets, workspaces) IN
           /\ Unpacked(Pack(b)) = b
           /\ PathsAgree(Pack(b))
           /\ {p.id : p \in In(Pack(b), "blobs")} = UNION {Blobs(a) : a \in assets}
<1> DEFINE b == Bundles(assets, workspaces)
<1>1. b.assets = assets /\ b.workspaces = workspaces
  BY DEF Bundles
<1> HIDE DEF b
<1>2. \A a \in assets : Pack(b)[Path("assets", AssetId(a))] = a
  BY <1>1, PackedObjects
<1>3. {Pack(b)[p] : p \in In(Pack(b), "assets")} = assets
  BY <1>1, <1>2, PackedIn
<1>4. {p.id : p \in In(Pack(b), "workspaces")} = workspaces
  <2>1. \A p \in In(Pack(b), "workspaces") : p.id \in workspaces
    BY <1>1, PackedIn, PathFields
  <2>2. \A w \in workspaces :
            Path("workspaces", w) \in In(Pack(b), "workspaces") /\ Path("workspaces", w).id = w
    BY <1>1, PackedIn, PathFields
  <2> QED
    BY <2>1, <2>2
<1>5. {p.id : p \in In(Pack(b), "blobs")} = UNION {Blobs(a) : a \in assets}
  <2> DEFINE blobs == UNION {Blobs(a) : a \in b.assets}
  <2> HIDE DEF blobs
  <2>1. In(Pack(b), "blobs") = {Path("blobs", c) : c \in blobs}
    BY PackedIn DEF blobs
  <2>2. {p.id : p \in In(Pack(b), "blobs")} = blobs
    BY <2>1, PathFields
  <2> QED
    BY <1>1, <2>2 DEF blobs
<1>6. PathsAgree(Pack(b))
  <2>1. \A p \in In(Pack(b), "blobs") : Pack(b)[p] = p.id
    <3>1. ASSUME NEW p \in In(Pack(b), "blobs")
          PROVE  Pack(b)[p] = p.id
      <4>1. PICK c \in UNION {Blobs(a) : a \in b.assets} : p = Path("blobs", c)
        BY PackedIn
      <4> QED
        BY <4>1, PackedObjects, PathFields
    <3> QED
      BY <3>1
  <2>2. \A p \in In(Pack(b), "workspaces") : Pack(b)[p].label = p.id
    <3>1. ASSUME NEW p \in In(Pack(b), "workspaces")
          PROVE  Pack(b)[p].label = p.id
      <4>1. PICK w \in b.workspaces : p = Path("workspaces", w)
        BY PackedIn
      <4>2. Pack(b)[p] = [label |-> w] /\ p.id = w
        BY <4>1, PackedObjects, PathFields
      <4> QED
        BY <4>2
    <3> QED
      BY <3>1
  <2>3. \A p \in In(Pack(b), "assets") : AssetId(Pack(b)[p]) = p.id
    BY <1>1, <1>2, PackedIn, PathFields
  <2> QED
    BY <2>1, <2>2, <2>3 DEF PathsAgree
<1> QED
  BY <1>1, <1>3, <1>4, <1>5, <1>6 DEF Unpacked, b

\* Unpacking depends on what is at the paths only.
LEMMA UnpackedBodies ==
    ASSUME NEW objects, NEW bodies, DOMAIN bodies = DOMAIN objects,
           \A p \in DOMAIN objects : bodies[p] = objects[p]
    PROVE  Unpacked(bodies) = Unpacked(objects)
  BY DEF Unpacked, In, Bundles

LEMMA RecordFields ==
    ASSUME NEW path, NEW body
    PROVE  /\ Record(path, body).path = path /\ Record(path, body).body = body
           /\ Record(path, body).regular
  BY DEF Record

LEMMA PathsDiffer == ManifestPath # SignaturePath
<1>1. ManifestPath.dir = "manifest.json" /\ SignaturePath.dir = "signature.ed25519"
  BY DEF ManifestPath, SignaturePath
<1> QED
  BY <1>1

LEMMA PackPathsApart ==
    ASSUME NEW b
    PROVE  ManifestPath \notin PackPaths(b) /\ SignaturePath \notin PackPaths(b)
  BY PathFields DEF PackPaths

\* An archive that was built has one record for every path.
LEMMA BuiltArchive ==
    ASSUME NEW objects, NEW features, NEW key,
           ManifestPath \notin DOMAIN objects, SignaturePath \notin DOMAIN objects
    PROVE  LET archive == Build(objects, features, key)
               manifest == Manifest(objects, features, key) IN
           /\ Record(ManifestPath, manifest) \in archive
           /\ Record(SignaturePath, Sign(manifest, key)) \in archive
           /\ \A p \in DOMAIN objects : Record(p, objects[p]) \in archive
           /\ \A r \in archive :
                \/ r = Record(ManifestPath, manifest)
                \/ r = Record(SignaturePath, Sign(manifest, key))
                \/ r.path \in DOMAIN objects /\ r = Record(r.path, objects[r.path])
           /\ \A r, s \in archive : r.path = s.path => r = s
<1> DEFINE archive == Build(objects, features, key)
           manifest == Manifest(objects, features, key)
<1>1. archive = {Record(ManifestPath, manifest), Record(SignaturePath, Sign(manifest, key))}
                \union {Record(p, objects[p]) : p \in DOMAIN objects}
  BY DEF Build, Archive
<1> HIDE DEF archive, manifest
<1>2. \A r \in archive :
        \/ r = Record(ManifestPath, manifest)
        \/ r = Record(SignaturePath, Sign(manifest, key))
        \/ r.path \in DOMAIN objects /\ r = Record(r.path, objects[r.path])
  <2> SUFFICES ASSUME NEW r \in archive
               PROVE  \/ r = Record(ManifestPath, manifest)
                      \/ r = Record(SignaturePath, Sign(manifest, key))
                      \/ r.path \in DOMAIN objects /\ r = Record(r.path, objects[r.path])
    OBVIOUS
  <2>1. CASE r \in {Record(p, objects[p]) : p \in DOMAIN objects}
    <3>1. PICK p \in DOMAIN objects : r = Record(p, objects[p])
      BY <2>1
    <3>2. r.path = p
      BY <3>1, RecordFields
    <3> QED
      BY <3>1, <3>2
  <2> QED
    BY <1>1, <2>1
<1>3. /\ Record(ManifestPath, manifest) \in archive
      /\ Record(SignaturePath, Sign(manifest, key)) \in archive
      /\ \A p \in DOMAIN objects : Record(p, objects[p]) \in archive
  BY <1>1
<1>4. \A r, s \in archive : r.path = s.path => r = s
  <2>1. ASSUME NEW r \in archive
        PROVE  /\ r.path = ManifestPath => r = Record(ManifestPath, manifest)
               /\ r.path = SignaturePath => r = Record(SignaturePath, Sign(manifest, key))
               /\ r.path \notin {ManifestPath, SignaturePath} => r = Record(r.path, objects[r.path])
    <3>1. CASE r = Record(ManifestPath, manifest)
      <4>1. r.path = ManifestPath
        BY <3>1, RecordFields
      <4> QED
        BY <3>1, <4>1, PathsDiffer
    <3>2. CASE r = Record(SignaturePath, Sign(manifest, key))
      <4>1. r.path = SignaturePath
        BY <3>2, RecordFields
      <4> QED
        BY <3>2, <4>1, PathsDiffer
    <3>3. CASE r.path \in DOMAIN objects /\ r = Record(r.path, objects[r.path])
      <4>1. r.path # ManifestPath /\ r.path # SignaturePath
        BY <3>3
      <4> QED
        BY <3>3, <4>1
    <3> QED
      BY <1>2, <3>1, <3>2, <3>3
  <2> QED
    BY <2>1
<1> QED
  BY <1>2, <1>3, <1>4 DEF archive, manifest

\* The body at a path of an archive without copies.
LEMMA TheBody ==
    ASSUME NEW archive, NEW r \in archive,
           \A s, t \in archive : s.path = t.path => s = t
    PROVE  Body(archive, r.path) = r.body
<1>1. \A s \in archive : s.path = r.path => s = r
  OBVIOUS
<1>2. (CHOOSE s \in archive : s.path = r.path) = r
  BY <1>1
<1> QED
  BY <1>2 DEF Body

LEMMA BodyInArchive ==
    ASSUME NEW archive, NEW path \in PathsOf(archive)
    PROVE  \E r \in archive : r.path = path /\ r.body = Body(archive, path)
<1>1. \E r \in archive : r.path = path
  BY DEF PathsOf
<1>2. (CHOOSE r \in archive : r.path = path) \in archive
      /\ (CHOOSE r \in archive : r.path = path).path = path
  BY <1>1
<1> QED
  BY <1>2 DEF Body

-----------------------------------------------------------------------------
(* Signatures *)

LEMMA GarbledIsNoSignature == ~IsSignature(Garbled) /\ ~IsManifest(Garbled)
<1>1. DOMAIN Garbled = {"garbled"}
  BY DEF Garbled
<1> QED
  BY <1>1 DEF IsSignature, IsManifest

LEMMA SignatureIsNoManifest ==
    ASSUME NEW signature, NEW publications, OfPublished(signature, publications)
    PROVE  ~IsManifest(signature)
<1>1. DOMAIN signature = {"key", "over"}
  BY DEF OfPublished
<1> QED
  BY <1>1 DEF IsManifest

LEMMA BuildGenuine ==
    ASSUME NEW objects, NEW features, NEW key, NEW publications,
           ManifestPath \notin DOMAIN objects, SignaturePath \notin DOMAIN objects,
           [bundle |-> Unpacked(objects), signer |-> key] \in publications
    PROVE  Genuine(Build(objects, features, key), publications)
<1> DEFINE archive == Build(objects, features, key)
           manifest == Manifest(objects, features, key)
<1>1. manifest.signer = key /\ manifest.objects = objects
  BY DEF Manifest
<1>2. Sign(manifest, key) = [key |-> key, over |-> manifest]
  BY DEF Sign
<1> HIDE DEF manifest
<1>3. OfPublished(Sign(manifest, key), publications)
  BY <1>1, <1>2 DEF OfPublished
<1>4. ASSUME NEW r \in archive
      PROVE  /\ r = [path |-> r.path, body |-> r.body, regular |-> r.regular, nr |-> r.nr]
             /\ r.path = SignaturePath => r.body = Sign(manifest, key)
  <2>1. \/ r = Record(ManifestPath, manifest)
        \/ r = Record(SignaturePath, Sign(manifest, key))
        \/ r.path \in DOMAIN objects /\ r = Record(r.path, objects[r.path])
    BY <1>4, BuiltArchive DEF manifest
  <2>2. CASE r = Record(ManifestPath, manifest)
    <3>1. r.path = ManifestPath /\ r = [path |-> ManifestPath, body |-> manifest, regular |-> TRUE, nr |-> 1]
      BY <2>2 DEF Record
    <3> QED
      BY <3>1, PathsDiffer
  <2>3. CASE r = Record(SignaturePath, Sign(manifest, key))
    BY <2>3 DEF Record
  <2>4. CASE r.path \in DOMAIN objects /\ r = Record(r.path, objects[r.path])
    <3>1. r.path # SignaturePath
      BY <2>4
    <3>2. r = [path |-> r.path, body |-> objects[r.path], regular |-> TRUE, nr |-> 1]
      BY <2>4 DEF Record
    <3> QED
      BY <3>1, <3>2
  <2> QED
    BY <2>1, <2>2, <2>3, <2>4
<1> QED
  BY <1>3, <1>4 DEF Genuine

\* What verifies was published under the key that signed it.
LEMMA VerifiedIsPublished ==
    ASSUME NEW archive, NEW publications,
           Genuine(archive, publications), Verifies(archive)
    PROVE  LET v == Verified(archive) IN
           [bundle |-> Unpacked(v.objects), signer |-> v.signer] \in publications
<1> DEFINE manifest == Body(archive, ManifestPath)
           signature == Body(archive, SignaturePath)
           bodies == [p \in DOMAIN manifest.objects |-> Body(archive, p)]
<1>1. IsSignature(signature) /\ signature = Sign(manifest, manifest.signer)
  BY DEF Verifies, Signed
<1>2. OfPublished(signature, publications)
  <2>1. PICK r \in archive : r.path = SignaturePath /\ r.body = signature
    BY BodyInArchive DEF Verifies
  <2> QED
    BY <1>1, <2>1, GarbledIsNoSignature DEF Genuine
<1>3. signature.key = manifest.signer /\ signature.over = manifest
  BY <1>1 DEF Sign
<1>4. \A p \in DOMAIN manifest.objects : Body(archive, p) = manifest.objects[p]
  BY DEF Verifies, Matches
<1>5. Verified(archive).objects = bodies /\ Verified(archive).signer = manifest.signer
  BY DEF Verified
<1> HIDE DEF manifest, signature
<1>6. Unpacked(bodies) = Unpacked(manifest.objects)
  BY <1>4, UnpackedBodies
<1> QED
  BY <1>2, <1>3, <1>5, <1>6 DEF OfPublished

\* Damage makes no signature.
LEMMA DamagedGenuine ==
    ASSUME NEW archive, NEW publications, Genuine(archive, publications),
           NEW damagedArchive \in DamagedArchives(archive)
    PROVE  Genuine(damagedArchive, publications)
<1> DEFINE Fine(r) ==
        /\ r = [path |-> r.path, body |-> r.body, regular |-> r.regular, nr |-> r.nr]
        /\ r.path = SignaturePath => r.body = Garbled \/ OfPublished(r.body, publications)
<1>1. \A r \in archive : Fine(r)
  BY DEF Genuine
<1>2. ASSUME NEW r \in archive
      PROVE  /\ Fine(Copy(r))
             /\ Fine([Copy(r) EXCEPT !.body = Garbled])
             /\ Fine([r EXCEPT !.regular = FALSE])
             /\ \A body \in Altered(r.body) : Fine([r EXCEPT !.body = body])
  <2>1. /\ r = [path |-> r.path, body |-> r.body, regular |-> r.regular, nr |-> r.nr]
        /\ r.path = SignaturePath => r.body = Garbled \/ OfPublished(r.body, publications)
    BY <1>1
  <2>2. Fine(Copy(r)) /\ Fine([Copy(r) EXCEPT !.body = Garbled])
    <3> DEFINE next == r.nr + 1
    <3>1. Copy(r) = [r EXCEPT !.nr = next]
      BY DEF Copy
    <3> HIDE DEF next
    <3>2. Copy(r) = [path |-> r.path, body |-> r.body, regular |-> r.regular, nr |-> next]
      BY <2>1, <3>1
    <3>3. [Copy(r) EXCEPT !.body = Garbled] =
            [path |-> r.path, body |-> Garbled, regular |-> r.regular, nr |-> next]
      BY <3>2
    <3> QED
      BY <2>1, <3>2, <3>3
  <2>4. Fine([r EXCEPT !.regular = FALSE])
    <3> DEFINE irregular == FALSE
    <3> HIDE DEF irregular
    <3>1. [r EXCEPT !.regular = irregular] =
            [path |-> r.path, body |-> r.body, regular |-> irregular, nr |-> r.nr]
      BY <2>1
    <3>2. Fine([r EXCEPT !.regular = irregular])
      BY <2>1, <3>1
    <3> QED
      BY <3>2 DEF irregular
  <2>5. ASSUME NEW body \in Altered(r.body)
        PROVE  Fine([r EXCEPT !.body = body])
    <3>1. [r EXCEPT !.body = body] =
            [path |-> r.path, body |-> body, regular |-> r.regular, nr |-> r.nr]
      BY <2>1
    <3>2. r.path = SignaturePath => ~IsManifest(r.body)
      BY <2>1, GarbledIsNoSignature, SignatureIsNoManifest
    <3>3. r.path = SignaturePath => body = Garbled
      BY <3>2 DEF Altered
    <3> QED
      BY <3>1, <3>3
  <2> QED
    BY <2>2, <2>4, <2>5
<1>3. Fine(Record(Path("blobs", Garbled), Garbled))
  <2> DEFINE path == Path("blobs", Garbled)
  <2>1. path # SignaturePath
    BY PathFields
  <2> HIDE DEF path
  <2>2. Record(path, Garbled) = [path |-> path, body |-> Garbled, regular |-> TRUE, nr |-> 1]
    BY DEF Record
  <2>3. Fine(Record(path, Garbled))
    BY <2>1, <2>2
  <2> QED
    BY <2>3 DEF path
<1> HIDE DEF Fine
<1>4. \A r \in damagedArchive : Fine(r)
  <2>1. \/ \E r \in archive : damagedArchive = archive \ {r}
        \/ \E r \in archive : damagedArchive = archive \union {Copy(r)}
        \/ \E r \in archive :
                damagedArchive = archive \union {[Copy(r) EXCEPT !.body = Garbled]}
        \/ damagedArchive = archive \union {Record(Path("blobs", Garbled), Garbled)}
        \/ \E r \in archive :
                damagedArchive = (archive \ {r}) \union {[r EXCEPT !.regular = FALSE]}
        \/ \E r \in archive : \E body \in Altered(r.body) :
                damagedArchive = (archive \ {r}) \union {[r EXCEPT !.body = body]}
    BY DEF DamagedArchives
  <2> QED
    BY <1>1, <1>2, <1>3, <2>1
<1> QED
  BY <1>4 DEF Genuine, Fine

-----------------------------------------------------------------------------
(* What was built verifies and unpacks *)

LEMMA FiniteImage ==
    ASSUME NEW S, IsFiniteSet(S), NEW T, NEW f \in [S -> T],
           \A t \in T : \E s \in S : f[s] = t
    PROVE  IsFiniteSet(T)
<1>1. f \in Surjection(S, T)
  BY DEF Surjection
<1> QED
  BY <1>1, FS_Surjection

LEMMA BlobsFinite ==
    ASSUME NEW a, WellFormed(a)
    PROVE  IsFiniteSet(Blobs(a))
<1>1. CASE a.kind \in TextKinds
  <2>1. Blobs(a) = {a.payload}
    BY <1>1 DEF Blobs, TextKinds
  <2> QED
    BY <2>1, FS_Singleton
<1>2. CASE a.kind = "skill"
  <2> DEFINE files == DOMAIN a.payload
             bodies == {a.payload[f] : f \in files}
             f == [x \in files |-> a.payload[x]]
  <2>1. IsFiniteSet(files)
    BY <1>2 DEF WellFormed
  <2>2. f \in [files -> bodies] /\ \A t \in bodies : \E x \in files : f[x] = t
    OBVIOUS
  <2> HIDE DEF f
  <2>3. IsFiniteSet(bodies)
    BY <2>1, <2>2, FiniteImage
  <2> QED
    BY <1>2, <2>3 DEF Blobs
<1>3. CASE a.kind \notin TextKinds /\ a.kind # "skill"
  <2>1. Blobs(a) = {}
    BY <1>3 DEF Blobs, TextKinds
  <2> QED
    BY <2>1, FS_EmptySet
<1> QED
  BY <1>1, <1>2, <1>3

LEMMA PackFinite ==
    ASSUME NEW b, IsFiniteSet(b.assets), IsFiniteSet(b.workspaces),
           \A a \in b.assets : WellFormed(a)
    PROVE  IsFiniteSet(DOMAIN Pack(b))
<1> DEFINE blobsOf == [a \in b.assets |-> Blobs(a)]
           sets == {Blobs(a) : a \in b.assets}
           blobs == UNION sets
           W == {Path("workspaces", w) : w \in b.workspaces}
           A == {Path("assets", AssetId(a)) : a \in b.assets}
           B == {Path("blobs", c) : c \in blobs}
           fw == [w \in b.workspaces |-> Path("workspaces", w)]
           fa == [a \in b.assets |-> Path("assets", AssetId(a))]
           fb == [c \in blobs |-> Path("blobs", c)]
<1>1. IsFiniteSet(sets)
  <2>1. blobsOf \in [b.assets -> sets] /\ \A t \in sets : \E a \in b.assets : blobsOf[a] = t
    OBVIOUS
  <2> HIDE DEF blobsOf, sets
  <2> QED
    BY <2>1, FiniteImage
<1>2. \A T \in sets : IsFiniteSet(T)
  BY BlobsFinite
<1>3. IsFiniteSet(blobs)
  <2> HIDE DEF sets
  <2> QED
    BY <1>1, <1>2, FS_UNION
<1>4. IsFiniteSet(W)
  <2>1. fw \in [b.workspaces -> W] /\ \A t \in W : \E w \in b.workspaces : fw[w] = t
    OBVIOUS
  <2> HIDE DEF fw, W
  <2> QED
    BY <2>1, FiniteImage
<1>5. IsFiniteSet(A)
  <2>1. fa \in [b.assets -> A] /\ \A t \in A : \E a \in b.assets : fa[a] = t
    OBVIOUS
  <2> HIDE DEF fa, A
  <2> QED
    BY <2>1, FiniteImage
<1>6. IsFiniteSet(B)
  <2> HIDE DEF blobs
  <2>1. fb \in [blobs -> B] /\ \A t \in B : \E c \in blobs : fb[c] = t
    OBVIOUS
  <2> HIDE DEF fb, B
  <2> QED
    BY <1>3, <2>1, FiniteImage
<1>7. DOMAIN Pack(b) = (W \union A) \union B
  BY PackDomain DEF PackPaths
<1> HIDE DEF W, A, B
<1>8. IsFiniteSet(W \union A)
  BY <1>4, <1>5, FS_Union
<1> QED
  BY <1>6, <1>7, <1>8, FS_Union

LEMMA BuildFinite ==
    ASSUME NEW objects, NEW features, NEW key, IsFiniteSet(DOMAIN objects)
    PROVE  IsFiniteSet(Build(objects, features, key))
<1> DEFINE D == DOMAIN objects
           R == {Record(p, objects[p]) : p \in D}
           f == [p \in D |-> Record(p, objects[p])]
           manifest == Manifest(objects, features, key)
           m == Record(ManifestPath, manifest)
           s == Record(SignaturePath, Sign(manifest, key))
<1>1. IsFiniteSet(R)
  <2>1. f \in [D -> R] /\ \A t \in R : \E p \in D : f[p] = t
    OBVIOUS
  <2> HIDE DEF f, R
  <2> QED
    BY <2>1, FiniteImage
<1>2. Build(objects, features, key) = (R \union {m}) \union {s}
  BY DEF Build, Archive
<1> HIDE DEF R, m, s
<1>3. IsFiniteSet(R \union {m})
  BY <1>1, FS_AddElement
<1> QED
  BY <1>2, <1>3, FS_AddElement

\* An archive has two records more than objects.
LEMMA BuildSize ==
    ASSUME NEW objects, NEW features, NEW key, IsFiniteSet(DOMAIN objects),
           ManifestPath \notin DOMAIN objects, SignaturePath \notin DOMAIN objects
    PROVE  /\ Cardinality(DOMAIN objects) \in Nat
           /\ Cardinality(Build(objects, features, key)) = Cardinality(DOMAIN objects) + 2
<1> DEFINE D == DOMAIN objects
           R == {Record(p, objects[p]) : p \in D}
           f == [p \in D |-> Record(p, objects[p])]
           manifest == Manifest(objects, features, key)
           m == Record(ManifestPath, manifest)
           s == Record(SignaturePath, Sign(manifest, key))
<1>1. ExistsBijection(D, R)
  <2>1. f \in [D -> R] /\ \A t \in R : \E p \in D : f[p] = t
    OBVIOUS
  <2>2. \A p, q \in D : f[p] = f[q] => p = q
    BY RecordFields
  <2>3. f \in Bijection(D, R)
    <3> HIDE DEF f, R
    <3> QED
      BY <2>1, <2>2 DEF Bijection, Injection, Surjection, IsInjective
  <2> QED
    BY <2>3 DEF ExistsBijection
<1>2. Build(objects, features, key) = (R \union {m}) \union {s}
  BY DEF Build, Archive
<1>3. m \notin R /\ s \notin R /\ m # s
  BY RecordFields, PathsDiffer
<1> HIDE DEF R, m, s
<1>4. IsFiniteSet(R) /\ Cardinality(R) = Cardinality(D) /\ Cardinality(D) \in Nat
  BY <1>1, FS_Bijection, FS_CardinalityType
<1>5. IsFiniteSet(R \union {m}) /\ Cardinality(R \union {m}) = Cardinality(R) + 1
  BY <1>3, <1>4, FS_AddElement
<1>6. s \notin R \union {m}
  BY <1>3
<1>7. Cardinality((R \union {m}) \union {s}) = Cardinality(R \union {m}) + 1
  BY <1>5, <1>6, FS_AddElement
<1> QED
  BY <1>2, <1>4, <1>5, <1>7

LEMMA BuiltVerifies ==
    ASSUME NEW b, NEW key, IsFiniteSet(DOMAIN Pack(b)),
           LET archive == Build(Pack(b), Features(b), key) IN
           Cardinality(archive) <= MaxEntries /\ TarBytes(archive) <= MaxBytes
    PROVE  LET archive == Build(Pack(b), Features(b), key) IN
           /\ Verifies(archive)
           /\ Verified(archive).objects = Pack(b)
           /\ Features(b) \subseteq Verified(archive).features
<1> DEFINE objects == Pack(b)
           archive == Build(objects, Features(b), key)
           manifest == Manifest(objects, Features(b), key)
           signature == Sign(manifest, key)
           D == DOMAIN objects
<1>1. ManifestPath \notin D /\ SignaturePath \notin D
  BY PackDomain, PackPathsApart
<1>2. /\ manifest.signer = key /\ manifest.objects = objects /\ manifest.root = objects
      /\ manifest.format = "mnemo/1" /\ manifest.canonical = TRUE
      /\ manifest.features = {"signed-manifest", "sha256-objects"} \union Features(b)
      /\ IsManifest(manifest)
  BY DEF Manifest, IsManifest
<1>3. IsSignature(signature) /\ signature = Sign(manifest, manifest.signer)
  BY <1>2 DEF Sign, IsSignature
<1>4. Cardinality(D) \in Nat /\ Cardinality(archive) = Cardinality(D) + 2
  BY <1>1, BuildSize
<1>5. objects = [p \in D |-> objects[p]]
  <2> DEFINE Content(p) == CASE p.dir = "assets" -> CHOOSE a \in b.assets : AssetId(a) = p.id
                             [] p.dir = "workspaces" -> [label |-> p.id]
                             [] p.dir = "blobs" -> p.id
  <2>1. objects = [p \in PackPaths(b) |-> Content(p)]
    BY DEF Pack, PackPaths
  <2> HIDE DEF Content, objects
  <2> QED
    BY <2>1
<1> HIDE DEF objects, manifest, signature
<1>6. /\ Record(ManifestPath, manifest) \in archive
      /\ Record(SignaturePath, signature) \in archive
      /\ \A p \in D : Record(p, objects[p]) \in archive
      /\ \A r \in archive :
            \/ r = Record(ManifestPath, manifest)
            \/ r = Record(SignaturePath, signature)
            \/ r.path \in D /\ r = Record(r.path, objects[r.path])
      /\ \A r, s \in archive : r.path = s.path => r = s
  BY <1>1, BuiltArchive DEF manifest, signature
<1> HIDE DEF archive
<1>7. /\ Body(archive, ManifestPath) = manifest /\ Body(archive, SignaturePath) = signature
      /\ \A p \in D : Body(archive, p) = objects[p]
  <2>1. ASSUME NEW p, NEW body, Record(p, body) \in archive
        PROVE  Body(archive, p) = body
    <3>1. Body(archive, Record(p, body).path) = Record(p, body).body
      BY <1>6, <2>1, TheBody
    <3> QED
      BY <3>1, RecordFields
  <2> QED
    BY <1>6, <2>1
<1>8. /\ PathsOf(archive) \ {ManifestPath, SignaturePath} = D
      /\ {ManifestPath, SignaturePath} \subseteq PathsOf(archive)
  <2>1. ASSUME NEW p \in PathsOf(archive), p \notin {ManifestPath, SignaturePath}
        PROVE  p \in D
    <3>1. PICK r \in archive : r.path = p
      BY DEF PathsOf
    <3> QED
      BY <1>6, <2>1, <3>1, RecordFields
  <2>2. ASSUME NEW p, NEW body, Record(p, body) \in archive
        PROVE  p \in PathsOf(archive)
    BY <2>2, RecordFields DEF PathsOf
  <2> QED
    BY <1>1, <1>6, <2>1, <2>2
<1>9. ReadTar(archive)
  <2>1. \A r \in archive : r.regular
    BY <1>6, RecordFields
  <2>2. Cardinality(archive) <= MaxEntries
    BY DEF archive, objects
  <2> QED
    BY <1>6, <2>1, <2>2 DEF ReadTar
<1>10. TarBytes(archive) <= MaxBytes /\ Cardinality(archive) <= MaxEntries
  BY DEF archive, objects
<1>11. Contract(manifest)
  <2>1. manifest.features \subseteq Supported
    BY <1>2 DEF Features, Supported
  <2>2. Cardinality(D) <= MaxEntries - 2 /\ Cardinality(D) <= MaxBytes
    BY <1>4, <1>10, LimitsAssumption DEF TarBytes
  <2> QED
    BY <1>2, <2>1, <2>2 DEF Contract
<1>12. Verifies(archive)
  BY <1>2, <1>3, <1>7, <1>8, <1>9, <1>10, <1>11 DEF Verifies, Signed, Matches
<1>13. Verified(archive).objects = [p \in D |-> Body(archive, p)]
       /\ Verified(archive).features = manifest.features
  BY <1>2, <1>7 DEF Verified
<1>14. Verified(archive).objects = objects
  BY <1>5, <1>7, <1>13
<1> QED
  BY <1>2, <1>12, <1>13, <1>14 DEF archive, objects

\* What one side may package, the other side unpacks.
LEMMA PackedUnpacks ==
    ASSUME NEW assets, NEW workspaces, NEW labels, NEW features,
           ~Collide(assets), Packable(Bundles(assets, workspaces), labels),
           workspaces = {labels[i] : i \in DOMAIN labels},
           Features(Bundles(assets, workspaces)) \subseteq features
    PROVE  Unpackable(Pack(Bundles(assets, workspaces)), features)
<1> DEFINE b == Bundles(assets, workspaces)
           blobs == {p.id : p \in In(Pack(b), "blobs")}
<1>1. b.assets = assets /\ b.workspaces = workspaces
  BY DEF Bundles
<1>2. Unpacked(Pack(b)) = b /\ PathsAgree(Pack(b)) /\ blobs = UNION {Blobs(a) : a \in assets}
  BY UnpackedPack
<1>3. ValidDescriptors(labels) /\ \A a \in b.assets : ValidReference(a, b.workspaces) /\ ValidAsset(a)
  BY DEF Packable
<1>4. workspaces \intersect BadLabels = {}
  BY <1>3 DEF ValidDescriptors
<1>5. workspaces # {} => "portable-workspaces" \in features
  BY <1>1 DEF Features
<1> HIDE DEF b
<1>6. \A a \in assets : Blobs(a) \subseteq blobs
  BY <1>2
<1> HIDE DEF blobs
<1>7. Unpackable(Pack(b), features)
  BY <1>1, <1>2, <1>3, <1>4, <1>5, <1>6 DEF Unpackable, blobs
<1> QED
  BY <1>7 DEF b

LEMMA LabelsFinite ==
    ASSUME scene \in Scenes
    PROVE  IsFiniteSet(LabelSet)
<1> DEFINE S == DOMAIN scene.sources
           sent == [i \in S |-> scene.sources[i].label]
           T == {sent[i] : i \in S}
<1>1. CASE Explicit
  <2>1. Labels = sent
    BY <1>1 DEF Labels
  <2>2. LabelSet = T
    BY <2>1 DEF LabelSet
  <2>3. IsFiniteSet(S)
    BY ScenesAreKnown
  <2>4. sent \in [S -> T] /\ \A t \in T : \E i \in S : sent[i] = t
    OBVIOUS
  <2> HIDE DEF sent, T
  <2> QED
    BY <2>2, <2>3, <2>4, FiniteImage
<1>2. CASE ~Explicit
  <2>1. LabelSet = {}
    BY <1>2 DEF LabelSet, Labels
  <2> QED
    BY <2>1, FS_EmptySet
<1> QED
  BY <1>1, <1>2

LEMMA BuiltIsReadable ==
    ASSUME scene \in Scenes, NEW b, Built(b), ~TooLarge,
           \A a \in b.assets : WellFormed(a)
    PROVE  /\ Verifies(signed)
           /\ LET v == Verified(signed) IN Unpackable(v.objects, v.features)
<1>1. /\ b = Bundles(b.assets, LabelSet)
      /\ signed = Build(Pack(b), Features(b), DeviceKey)
      /\ Packable(b, Labels)
      /\ IsFiniteSet(b.assets) /\ ~Collide(b.assets)
  BY DEF Built
<1>2. b.workspaces = LabelSet
  BY <1>1 DEF Bundles
<1>3. IsFiniteSet(DOMAIN Pack(b))
  BY <1>1, <1>2, LabelsFinite, PackFinite
<1>4. IsFiniteSet(signed)
  BY <1>1, <1>3, BuildFinite
<1>5. Cardinality(signed) <= MaxEntries /\ TarBytes(signed) <= MaxBytes
  <2>1. Cardinality(signed) \in Nat
    BY <1>4, FS_CardinalityType
  <2> QED
    BY <2>1, LimitsAssumption DEF TooLarge, TarBytes
<1>6. /\ Verifies(signed)
      /\ Verified(signed).objects = Pack(b)
      /\ Features(b) \subseteq Verified(signed).features
  BY <1>1, <1>3, <1>5, BuiltVerifies
<1>7. Unpackable(Pack(b), Verified(signed).features)
  <2> DEFINE assets == b.assets
             features == Verified(signed).features
  <2>1. b = Bundles(assets, LabelSet)
    BY <1>1
  <2>2. LabelSet = {Labels[i] : i \in DOMAIN Labels}
    BY DEF LabelSet
  <2>3. Features(Bundles(assets, LabelSet)) \subseteq features
    BY <1>6, <2>1
  <2>4. Packable(Bundles(assets, LabelSet), Labels) /\ ~Collide(assets)
    BY <1>1
  <2> HIDE DEF assets, features
  <2>5. Unpackable(Pack(Bundles(assets, LabelSet)), features)
    BY <2>2, <2>3, <2>4, PackedUnpacks
  <2> QED
    BY <2>1, <2>5 DEF features
<1> QED
  BY <1>6, <1>7

LEMMA GenuineGrows ==
    ASSUME NEW archive, NEW publications, NEW more, publications \subseteq more,
           Genuine(archive, publications)
    PROVE  Genuine(archive, more)
  BY DEF Genuine, OfPublished

-----------------------------------------------------------------------------
(* Assets *)

LEMMA Redacted ==
    ASSUME NEW text, IsContent(text)
    PROVE  Redact(text).marks \subseteq Marks
<1>1. text = [text |-> text.text, marks |-> text.marks, servers |-> text.servers]
      /\ text.marks \subseteq Marks
  BY DEF IsContent
<1>2. [text EXCEPT !.marks = (@ \ {"secret", "residue"}) \union {"redacted"}
                            \union IF "residue" \in @ THEN {"secret"} ELSE {}].marks =
        (text.marks \ {"secret", "residue"}) \union {"redacted"}
        \union IF "residue" \in text.marks THEN {"secret"} ELSE {}
  BY <1>1
<1>3. "redacted" \in Marks /\ "secret" \in Marks
  BY DEF Marks
<1> QED
  BY <1>1, <1>2, <1>3 DEF Redact

LEMMA AssetFields ==
    ASSUME NEW look, NEW title, NEW at, NEW payload, NEW source, NEW sensitivity
    PROVE  LET a == Asset(look, title, at, payload, source, sensitivity) IN
           /\ a = [platform |-> a.platform, kind |-> a.kind, scope |-> a.scope,
                   title |-> a.title, locator |-> a.locator, payload |-> a.payload,
                   source |-> a.source, sensitivity |-> a.sensitivity,
                   workspace |-> a.workspace]
           /\ a.kind = look.kind /\ a.payload = payload
           /\ a.platform = scene.from /\ a.scope = ScopeOf(look.root) /\ a.locator = at
  BY DEF Asset

LEMMA AssetLocated ==
    ASSUME NEW look, NEW a, a.platform = scene.from, a.kind = look.kind,
           a.scope = ScopeOf(look.root), scene.from \in Platforms, look \in LooksOf(scene.from),
           look.kind = "instruction" => Finds(look, a.locator)
    PROVE  Located(a)
  BY DEF Located, ScopeOf

LEMMA TextAssetKnown ==
    ASSUME NEW look, Fitting(look), look.how \in {"text", "markdown"},
           scene.from \in Platforms, look \in LooksOf(scene.from),
           NEW at, Finds(look, at), NEW text, IsContent(text)
    PROVE  WellFormed(TextAsset(look, at, text))
<1> DEFINE a == TextAsset(look, at, text)
<1>1. /\ a = [platform |-> a.platform, kind |-> a.kind, scope |-> a.scope,
              title |-> a.title, locator |-> a.locator, payload |-> a.payload,
              source |-> a.source, sensitivity |-> a.sensitivity, workspace |-> a.workspace]
      /\ a.kind = look.kind /\ a.payload = Redact(text)
      /\ a.platform = scene.from /\ a.scope = ScopeOf(look.root) /\ a.locator = at
  BY AssetFields DEF TextAsset
<1>2. look.kind \in TextKinds
  BY DEF Fitting
<1>3. a.payload.marks \subseteq Marks
  BY <1>1, Redacted
<1> HIDE DEF a
<1>5. Located(a)
  BY <1>1, AssetLocated
<1>4. WellFormed(a)
  BY <1>1, <1>2, <1>3, <1>5 DEF WellFormed, TextKinds, Kinds
<1> QED
  BY <1>4 DEF a

LEMMA ServerAssetKnown ==
    ASSUME NEW look, Fitting(look), look.how \in {"json", "toml"},
           scene.from \in Platforms, look \in LooksOf(scene.from), NEW doc, NEW server
    PROVE  WellFormed(ServerAsset(look, doc, server))
<1> DEFINE a == ServerAsset(look, doc, server)
<1>1. /\ a = [platform |-> a.platform, kind |-> a.kind, scope |-> a.scope,
              title |-> a.title, locator |-> a.locator, payload |-> a.payload,
              source |-> a.source, sensitivity |-> a.sensitivity, workspace |-> a.workspace]
      /\ a.kind = look.kind /\ a.platform = scene.from /\ a.scope = ScopeOf(look.root)
  BY AssetFields DEF ServerAsset
<1>2. look.kind = "mcp"
  BY DEF Fitting
<1> HIDE DEF a
<1>4. Located(a)
  BY <1>1, <1>2, AssetLocated
<1>3. WellFormed(a)
  BY <1>1, <1>2, <1>4 DEF WellFormed, TextKinds, Kinds
<1> QED
  BY <1>3 DEF a

LEMMA TreeAssetKnown ==
    ASSUME NEW look, Fitting(look), look.how = "skills",
           scene.from \in Platforms, look \in LooksOf(scene.from), NEW at, NEW files,
           IsFiniteSet(DOMAIN files), \A f \in DOMAIN files : IsContent(files[f])
    PROVE  WellFormed(TreeAsset(look, at, files))
<1> DEFINE a == TreeAsset(look, at, files)
           kept == [f \in DOMAIN files |-> Keep(f, files[f])]
<1>1. /\ a = [platform |-> a.platform, kind |-> a.kind, scope |-> a.scope,
              title |-> a.title, locator |-> a.locator, payload |-> a.payload,
              source |-> a.source, sensitivity |-> a.sensitivity, workspace |-> a.workspace]
      /\ a.kind = look.kind /\ a.payload = kept
      /\ a.platform = scene.from /\ a.scope = ScopeOf(look.root)
  <2> DEFINE class ==
        Sensitivity(UNION {files[f].marks : f \in DOMAIN files}
                    \union {"binary" : f \in DataFiles \intersect DOMAIN files})
  <2>1. a = Asset(look, Last(at), at, kept, files, class)
    BY DEF TreeAsset
  <2> HIDE DEF a, class, kept
  <2> QED
    BY <2>1, AssetFields
<1>2. look.kind = "skill"
  BY DEF Fitting
<1>3. \A f \in DOMAIN files : kept[f].marks \subseteq Marks
  <2>1. ASSUME NEW f \in DOMAIN files
        PROVE  Keep(f, files[f]).marks \subseteq Marks
    BY <2>1, Redacted DEF Keep, IsContent
  <2> QED
    BY <2>1
<1>4. DOMAIN kept = DOMAIN files
  OBVIOUS
<1> HIDE DEF a, kept
<1>6. Located(a)
  BY <1>1, <1>2, AssetLocated
<1>5. WellFormed(a)
  BY <1>1, <1>2, <1>3, <1>4, <1>6 DEF WellFormed, TextKinds, Kinds
<1> QED
  BY <1>5 DEF a

LEMMA WithWorkspaceKnown ==
    ASSUME NEW a, WellFormed(a)
    PROVE  WellFormed(WithWorkspace(a))
<1> DEFINE label == scene.sources[pass].label
           b == [a EXCEPT !.workspace = label]
<1> HIDE DEF label
<1>1. a = [platform |-> a.platform, kind |-> a.kind, scope |-> a.scope, title |-> a.title,
           locator |-> a.locator, payload |-> a.payload, source |-> a.source,
           sensitivity |-> a.sensitivity, workspace |-> a.workspace]
  BY DEF WellFormed
<1>2. b = [platform |-> a.platform, kind |-> a.kind, scope |-> a.scope, title |-> a.title,
           locator |-> a.locator, payload |-> a.payload, source |-> a.source,
           sensitivity |-> a.sensitivity, workspace |-> label]
  BY <1>1
<1> HIDE DEF b
<1>4. Located(b)
  BY <1>2 DEF WellFormed, Located
<1>3. WellFormed(b)
  BY <1>2, <1>4 DEF WellFormed
<1> QED
  BY <1>3 DEF WithWorkspace, b, label

LEMMA Reclassified ==
    ASSUME NEW a, WellFormed(a), NEW value
    PROVE  WellFormed([a EXCEPT !.sensitivity = value]) /\ WellFormed([a EXCEPT !.workspace = value])
<1> DEFINE b == [a EXCEPT !.sensitivity = value]
           c == [a EXCEPT !.workspace = value]
<1>1. a = [platform |-> a.platform, kind |-> a.kind, scope |-> a.scope, title |-> a.title,
           locator |-> a.locator, payload |-> a.payload, source |-> a.source,
           sensitivity |-> a.sensitivity, workspace |-> a.workspace]
  BY DEF WellFormed
<1>2. b = [platform |-> a.platform, kind |-> a.kind, scope |-> a.scope, title |-> a.title,
           locator |-> a.locator, payload |-> a.payload, source |-> a.source,
           sensitivity |-> value, workspace |-> a.workspace]
  BY <1>1
<1>3. c = [platform |-> a.platform, kind |-> a.kind, scope |-> a.scope, title |-> a.title,
           locator |-> a.locator, payload |-> a.payload, source |-> a.source,
           sensitivity |-> a.sensitivity, workspace |-> value]
  BY <1>1
<1> HIDE DEF b, c
<1>5. Located(b) /\ Located(c)
  BY <1>2, <1>3 DEF WellFormed, Located
<1>4. WellFormed(b) /\ WellFormed(c)
  BY <1>2, <1>3, <1>5 DEF WellFormed
<1> QED
  BY <1>4 DEF b, c

\* Another version packs no other content.
LEMMA VariantObjects ==
    ASSUME NEW b, ~Collide(b.assets), \A a \in b.assets : WellFormed(a),
           NEW objects \in Variants(Pack(b))
    PROVE  /\ ManifestPath \notin DOMAIN objects /\ SignaturePath \notin DOMAIN objects
           /\ \A a \in Unpacked(objects).assets : WellFormed(a)
<1> DEFINE packed == Pack(b)
           blobs == In(packed, "blobs")
           assets == In(packed, "assets")
<1>1. \A p \in assets : WellFormed(packed[p])
  BY PackedIn, PackedObjects
<1>2. ManifestPath \notin DOMAIN packed /\ SignaturePath \notin DOMAIN packed
  BY PackDomain, PackPathsApart
<1> HIDE DEF packed
<1>3. /\ DOMAIN objects \subseteq DOMAIN packed
      /\ \A p \in In(objects, "assets") : WellFormed(objects[p])
  <2>1. CASE \E q \in DOMAIN packed : objects = [p \in DOMAIN packed \ {q} |-> packed[p]]
    BY <1>1, <2>1 DEF In
  <2>2. CASE \E p, q \in blobs : objects = [packed EXCEPT ![p] = packed[q]]
    <3>1. PICK p \in blobs, q \in blobs : objects = [packed EXCEPT ![p] = packed[q]]
      BY <2>2
    <3>2. DOMAIN objects = DOMAIN packed
      BY <3>1
    <3>3. p.dir = "blobs"
      BY DEF In
    <3>4. \A x \in DOMAIN packed : x # p => objects[x] = packed[x]
      BY <3>1
    <3>5. \A x \in In(objects, "assets") : x \in assets /\ x # p
      BY <3>2, <3>3 DEF In
    <3> QED
      BY <1>1, <3>2, <3>4, <3>5 DEF In
  <2>3. CASE \E w : \E p \in assets :
                objects = [packed EXCEPT ![p] = [packed[p] EXCEPT !.sensitivity = w]]
    <3>0. PICK w : \E p \in assets :
            objects = [packed EXCEPT ![p] = [packed[p] EXCEPT !.sensitivity = w]]
      BY <2>3
    <3>1. PICK p \in assets :
            objects = [packed EXCEPT ![p] = [packed[p] EXCEPT !.sensitivity = w]]
      BY <3>0
    <3>2. DOMAIN objects = DOMAIN packed /\ p \in DOMAIN packed
      BY <3>1 DEF In
    <3>3. \A x \in DOMAIN packed : x # p => objects[x] = packed[x]
      BY <3>1
    <3>4. objects[p] = [packed[p] EXCEPT !.sensitivity = w]
      BY <3>1, <3>2
    <3> DEFINE a == packed[p]
    <3>5. WellFormed(a)
      BY <1>1
    <3> HIDE DEF a
    <3>6. WellFormed([a EXCEPT !.sensitivity = w])
      BY <3>5, Reclassified
    <3>7. WellFormed(objects[p])
      BY <3>4, <3>6 DEF a
    <3> QED
      BY <1>1, <3>2, <3>3, <3>7 DEF In
  <2>4. CASE \E p \in assets : objects = [packed EXCEPT ![p] = [packed[p] EXCEPT !.workspace = None]]
    <3>1. PICK p \in assets :
            objects = [packed EXCEPT ![p] = [packed[p] EXCEPT !.workspace = None]]
      BY <2>4
    <3>2. DOMAIN objects = DOMAIN packed /\ p \in DOMAIN packed
      BY <3>1 DEF In
    <3>3. \A x \in DOMAIN packed : x # p => objects[x] = packed[x]
      BY <3>1
    <3>4. objects[p] = [packed[p] EXCEPT !.workspace = None]
      BY <3>1, <3>2
    <3> DEFINE a == packed[p]
    <3>5. WellFormed(a)
      BY <1>1
    <3> HIDE DEF a
    <3>6. WellFormed([a EXCEPT !.workspace = None])
      BY <3>5, Reclassified
    <3>7. WellFormed(objects[p])
      BY <3>4, <3>6 DEF a
    <3> QED
      BY <1>1, <3>2, <3>3, <3>7 DEF In
  <2> QED
    BY <2>1, <2>2, <2>3, <2>4 DEF Variants, packed
<1>4. Unpacked(objects).assets = {objects[p] : p \in In(objects, "assets")}
  BY DEF Unpacked, Bundles
<1> QED
  BY <1>2, <1>3, <1>4 DEF packed

-----------------------------------------------------------------------------
(* The invariant holds at the start *)

LEMMA InitInv == Init => Inv
<1> SUFFICES ASSUME Init PROVE Inv
  OBVIOUS
<1> USE DEF Init, InitCollect
<1>1. FilesAreKnown
  <2>1. scene \in Scenes /\ disk = scene.disk /\ pc = "start" /\ row = 1
    OBVIOUS
  <2>2. /\ DOMAIN disk = DOMAIN scene.disk
        /\ \A p \in DOMAIN scene.disk : scene.disk[p] = None \/ IsContent(scene.disk[p])
    BY <2>1, ScenesAreKnown
  <2> QED
    BY <2>1, <2>2 DEF FilesAreKnown
<1>2. TreeIsKnown
  BY DEF TreeIsKnown
<1>3. AssetsAreKnown
  BY FS_EmptySet DEF AssetsAreKnown, Collide
<1>4. PublishedIsKnown
  BY DEF PublishedIsKnown
<1>5. FileIsKnown
  BY DEF FileIsKnown, Genuine
<1>6. BundleIsValid
  BY DEF BundleIsValid
<1>7. RenderedArrives
  BY DEF RenderedArrives, Finished
<1>8. PlannedIsReviewed
  BY DEF PlannedIsReviewed
<1>9. SignedIsBuilt /\ SentIsSealed /\ OpenedLast /\ OpenedIsPublished /\ UndamagedOpens
  BY DEF SignedIsBuilt, SentIsSealed, OpenedLast, OpenedIsPublished, UndamagedOpens
<1>10. TodoFits
  BY DEF TodoFits
<1> QED
  BY <1>10, <1>1, <1>2, <1>3, <1>4, <1>5, <1>6, <1>7, <1>8, <1>9 DEF Inv

-----------------------------------------------------------------------------
(* What an action leaves alone *)

Collected == FilesAreKnown /\ TodoFits /\ TreeIsKnown /\ AssetsAreKnown
Sent == PublishedIsKnown /\ FileIsKnown /\ SignedIsBuilt /\ SentIsSealed
Received ==
    /\ BundleIsValid /\ RenderedArrives /\ PlannedIsReviewed
    /\ OpenedLast /\ OpenedIsPublished /\ UndamagedOpens

\* Nothing was opened yet.
LEMMA ReceivedLater ==
    ASSUME Inv, UNCHANGED receiving, pc \notin Receiving, pc' \notin Receiving
    PROVE  Received'
<1>1. UNCHANGED <<opened, target, map, left, planned, skipped>>
  BY DEF receiving
<1>2. opened = None /\ target = None /\ left = {}
  BY DEF Inv, OpenedLast, BundleIsValid, Receiving
<1>3. BundleIsValid'
  BY <1>1, <1>2 DEF BundleIsValid, Receiving
<1>4. RenderedArrives'
  BY <1>1, <1>2 DEF RenderedArrives, Finished, Receiving
<1>5. PlannedIsReviewed'
  BY <1>1 DEF Inv, PlannedIsReviewed
<1>6. OpenedLast' /\ OpenedIsPublished' /\ UndamagedOpens'
  BY <1>1, <1>2 DEF OpenedLast, OpenedIsPublished, UndamagedOpens
<1> QED
  BY <1>3, <1>4, <1>5, <1>6 DEF Received

\* Nothing is on its way.
LEMMA SentLater ==
    ASSUME Inv, UNCHANGED sending, pc' \notin {"create", "write", "sent"}
    PROVE  Sent'
<1>1. UNCHANGED <<signed, file, published, damaged>>
  BY DEF sending
<1>2. PublishedIsKnown'
  BY <1>1 DEF Inv, PublishedIsKnown
<1>3. FileIsKnown'
  BY <1>1 DEF Inv, FileIsKnown
<1>4. SignedIsBuilt' /\ SentIsSealed'
  BY <1>1 DEF SignedIsBuilt, SentIsSealed
<1> QED
  BY <1>2, <1>3, <1>4 DEF Sent

LEMMA CollectedStays ==
    ASSUME Inv, UNCHANGED <<scene, disk, reading>>, pc' # "collect"
    PROVE  Collected'
<1>1. UNCHANGED <<pass, row, todo, tree, fresh, found>>
  BY DEF reading
<1>2. FilesAreKnown'
  BY <1>1 DEF Inv, FilesAreKnown
<1>3. TreeIsKnown'
  BY <1>1 DEF Inv, TreeIsKnown, TheLook
<1>4. AssetsAreKnown'
  BY <1>1 DEF Inv, AssetsAreKnown
<1>5. TodoFits'
  BY <1>1 DEF Inv, TodoFits, TheLook, Waits, RootIn
<1> QED
  BY <1>2, <1>3, <1>4, <1>5 DEF Collected

LEMMA FailCollects ==
    ASSUME Inv, Fail, UNCHANGED <<scene, disk>>
    PROVE  Collected'
<1>1. UNCHANGED <<pass, row>> /\ todo' = {} /\ tree' = None /\ fresh' = {} /\ found' = {}
      /\ pc' = "failed"
  BY DEF Fail
<1>2. FilesAreKnown'
  BY <1>1 DEF Inv, FilesAreKnown
<1>3. TreeIsKnown'
  BY <1>1 DEF TreeIsKnown
<1>4. AssetsAreKnown'
  BY <1>1, FS_EmptySet DEF AssetsAreKnown, Collide
<1>5. TodoFits'
  BY <1>1 DEF TodoFits
<1> QED
  BY <1>2, <1>3, <1>4, <1>5 DEF Collected

-----------------------------------------------------------------------------
(* Collecting *)

\* One asset more, or the assets of one document.
LEMMA MoreAssets ==
    ASSUME Inv, NEW more, IsFiniteSet(more), \A a \in more : WellFormed(a),
           fresh' = fresh \union more, UNCHANGED found
    PROVE  AssetsAreKnown'
<1>1. IsFiniteSet(fresh \union more)
  BY FS_Union DEF Inv, AssetsAreKnown
<1> QED
  BY <1>1 DEF Inv, AssetsAreKnown

LEMMA HereFits ==
    ASSUME Inv, Here
    PROVE  /\ Fitting(TheLook) /\ row \in Nat \ {0} /\ pc = "collect"
           /\ scene.from \in Platforms /\ TheLook \in LooksOf(scene.from)
           /\ TheLook \in KnownLooks
<1>1. /\ row \in Nat \ {0} /\ scene.from \in Platforms /\ pc = "collect"
      /\ row <= Len(Collector(scene.from))
  BY DEF Inv, FilesAreKnown, Here
<1>2. Len(Collector(scene.from)) \in Nat
  BY <1>1, LooksAreKnown, LenProperties
<1>3. row \in 1..Len(Collector(scene.from))
  BY <1>1, <1>2
<1>4. TheLook \in LooksOf(scene.from) /\ TheLook \in KnownLooks
  <2>1. Collector(scene.from) \in Seq(KnownLooks)
    BY <1>1, LooksAreKnown
  <2>2. row \in DOMAIN Collector(scene.from)
    BY <1>3, <2>1, LenProperties
  <2> QED
    BY <1>3, <2>1, <2>2 DEF LooksOf, Range, TheLook
<1> QED
  BY <1>1, <1>3, <1>4, TheLookFits DEF TheLook

LEMMA DoneRow ==
    ASSUME NEW unit, Done(unit), row \in Nat \ {0}
    PROVE  row' \in Nat \ {0}
  BY DEF Done

LEMMA TodoStays ==
    ASSUME Inv, UNCHANGED <<scene, pass, row, todo>>
    PROVE  TodoFits'
  BY DEF Inv, TodoFits, TheLook, Waits, RootIn

LEMMA DoneTodo ==
    ASSUME Inv, NEW unit, Done(unit), UNCHANGED <<scene, pass>>
    PROVE  TodoFits'
<1>1. todo' = todo \ {unit} /\ (todo' # {} => row' = row)
  BY DEF Done
<1> QED
  BY <1>1 DEF Inv, TodoFits, TheLook, Waits, RootIn

LEMMA PathNames ==
    ASSUME Inv, NEW p \in DOMAIN disk
    PROVE  p = Place(p.root, p.at) /\ IsPath(p.at)
  BY PathsAreNames DEF Inv, FilesAreKnown

LEMMA PlaceFields ==
    ASSUME NEW root, NEW at
    PROVE  Place(root, at).root = root /\ Place(root, at).at = at
  BY DEF Place

LEMMA KnownPath ==
    ASSUME NEW look \in KnownLooks
    PROVE  /\ IsPath(look.at) /\ look.at \in Seq(Segments) /\ Len(look.at) \in Nat
           /\ look.how \in Hows /\ look.root \in Roots /\ look.kind \in Kinds /\ Fitting(look)
<1>1. /\ look.at \in Seq(Segments)
      /\ look.how \in Hows /\ look.root \in Roots /\ look.kind \in Kinds /\ Fitting(look)
  BY DEF KnownLooks
<1>2. IsPath(look.at)
  BY <1>1, SeqOfRange DEF IsPath
<1> QED
  BY <1>1, <1>2, LenProperties

\* The directory of a Skill is one step below the directory of Skills.
LEMMA OneStepBelow ==
    ASSUME NEW s, NEW t, IsPath(s), IsPath(t), IsStrictPrefix(s, t)
    PROVE  LET u == SubSeq(t, 1, Len(s) + 1) IN
           /\ Len(t) >= Len(s) + 1
           /\ IsPath(u) /\ Len(u) = Len(s) + 1 /\ IsPrefix(s, u)
<1> DEFINE n == Len(s)
           m == Len(t)
           u == SubSeq(t, 1, n + 1)
           S == Range(s) \union Range(t)
<1>a. s \in Seq(S) /\ t \in Seq(S)
  BY SeqMonotonic DEF IsPath
<1> HIDE DEF S
<1>1. n \in Nat /\ m \in Nat
  BY <1>a, LenProperties
<1>2. n <= m /\ SubSeq(s, 1, n) = SubSeq(t, 1, n) /\ s # t
  BY DEF IsStrictPrefix, IsPrefix
<1>3. SubSeq(s, 1, n) = s /\ SubSeq(t, 1, m) = t
  BY <1>a, SubSeqFull
<1>4. n + 1 <= m
  <2> SUFFICES ASSUME n = m PROVE FALSE
    BY <1>1, <1>2
  <2> QED
    BY <1>2, <1>3
<1>5. u \in Seq(S) /\ Len(u) = n + 1 /\ \A i \in 1..(n + 1) : u[i] = t[i]
  BY <1>1, <1>4, <1>a, SubSeqProperties
<1>6. SubSeq(u, 1, n) = SubSeq(t, 1, n)
  <2>1. /\ SubSeq(t, 1, n) \in Seq(S) /\ Len(SubSeq(t, 1, n)) = n
        /\ \A i \in 1..n : SubSeq(t, 1, n)[i] = t[i]
    BY <1>1, <1>2, <1>a, SubSeqProperties
  <2> HIDE DEF u, m
  <2>2. /\ SubSeq(u, 1, n) \in Seq(S) /\ Len(SubSeq(u, 1, n)) = n
        /\ \A i \in 1..n : SubSeq(u, 1, n)[i] = u[i]
    BY <1>1, <1>5, SubSeqProperties
  <2> DEFINE v == SubSeq(u, 1, n)
             w == SubSeq(t, 1, n)
  <2>3. v \in Seq(S) /\ w \in Seq(S) /\ Len(v) = Len(w) /\ \A i \in 1..Len(v) : v[i] = w[i]
    BY <1>1, <1>5, <2>1, <2>2
  <2> HIDE DEF v, w
  <2>4. v = w
    BY <2>3, SeqEqual
  <2> QED
    BY <2>4 DEF v, w
<1> HIDE DEF u
<1>7. IsPrefix(s, u)
  BY <1>1, <1>2, <1>5, <1>6 DEF IsPrefix
<1>8. IsPath(u)
  BY <1>5, SeqOfRange DEF IsPath
<1> QED
  BY <1>1, <1>4, <1>5, <1>7, <1>8 DEF u

LEMMA LookAroundWaits ==
    ASSUME Inv, LookAround, NEW place \in todo'
    PROVE  Waits(TheLook, pass, place)
<1> DEFINE look == TheLook
           there == At(look.root, look.at)
           inside == Inside(there.root, there.at)
<1>1. Here
  BY DEF LookAround
<1>2. look \in KnownLooks
  BY <1>1, HereFits
<1> HIDE DEF look
<1>3. there.root = RootIn(pass, look.root) /\ there.at = look.at
      /\ there = Place(RootIn(pass, look.root), look.at)
  BY PlaceFields DEF At, RootIn
<1>4. ASSUME NEW p \in inside
      PROVE  /\ p = Place(p.root, p.at) /\ IsPath(p.at)
             /\ p.root = RootIn(pass, look.root) /\ IsStrictPrefix(look.at, p.at)
  BY <1>3, PathNames DEF Inside
<1>5. place \in CASE look.how = "markdown" -> inside
                 [] look.how = "skills" ->
                        {Place(p.root, SubSeq(p.at, 1, Len(look.at) + 1)) : p \in inside}
                 [] OTHER -> {p \in {there} : There(p)}
  BY DEF LookAround, look
<1> HIDE DEF inside
<1>6. CASE look.how = "markdown"
  <2>1. place \in inside
    BY <1>5, <1>6
  <2> QED
    BY <1>4, <1>6, <2>1 DEF Waits, Finds, look
<1>7. CASE look.how = "skills"
  <2>1. PICK p \in inside : place = Place(p.root, SubSeq(p.at, 1, Len(look.at) + 1))
    BY <1>5, <1>7
  <2>2. IsPath(look.at) /\ Len(look.at) \in Nat
    BY <1>2, KnownPath
  <2>3. /\ IsPath(SubSeq(p.at, 1, Len(look.at) + 1))
        /\ Len(SubSeq(p.at, 1, Len(look.at) + 1)) = Len(look.at) + 1
        /\ IsPrefix(look.at, SubSeq(p.at, 1, Len(look.at) + 1))
    BY <1>4, <2>2, OneStepBelow
  <2> DEFINE at == SubSeq(p.at, 1, Len(look.at) + 1)
  <2> HIDE DEF at
  <2>4. place = Place(RootIn(pass, look.root), at) /\ place.at = at
    BY <1>4, <2>1, PlaceFields DEF at
  <2> QED
    BY <1>7, <2>3, <2>4 DEF Waits, Finds, look, at
<1>8. CASE look.how \notin {"markdown", "skills"}
  <2>1. place = there
    BY <1>5, <1>8
  <2>2. IsPath(look.at)
    BY <1>2, KnownPath
  <2> QED
    BY <1>3, <1>8, <2>1, <2>2 DEF Waits, Finds, look
<1> QED
  BY <1>6, <1>7, <1>8

LEMMA LookAroundCollects ==
    ASSUME Inv, LookAround, UNCHANGED <<scene, disk>>
    PROVE  Collected'
<1>1. tree = None /\ UNCHANGED <<pc, pass, tree, fresh, found>> /\ row' \in {row, row + 1}
  BY DEF LookAround
<1>2. FilesAreKnown'
  BY <1>1 DEF Inv, FilesAreKnown
<1>3. TreeIsKnown'
  BY <1>1 DEF TreeIsKnown
<1>4. AssetsAreKnown'
  BY <1>1 DEF Inv, AssetsAreKnown
<1>5. TodoFits'
  <2>1. todo' # {} => row' = row
    BY DEF LookAround
  <2>2. Here
    BY DEF LookAround
  <2> QED
    BY <1>1, <2>1, <2>2, LookAroundWaits DEF TodoFits, TheLook, Waits, RootIn, Here
<1> QED
  BY <1>2, <1>3, <1>4, <1>5 DEF Collected

LEMMA NoSkillHere ==
    ASSUME Inv, Here, TheLook.how # "skills"
    PROVE  tree = None
  BY DEF Inv, TreeIsKnown

LEMMA ReadTextCollects ==
    ASSUME Inv, NEW place, ReadText(place), UNCHANGED <<scene, disk>>
    PROVE  Collected'
<1>1. CASE Fail
  BY <1>1, FailCollects
<1>2. CASE ~Fail
  <2>1. /\ Here /\ place \in todo /\ TheLook.how \in {"text", "markdown"}
        /\ There(place) /\ fresh' = fresh \union {TextAsset(TheLook, place.at, disk[place])}
        /\ Done(place) /\ UNCHANGED <<pc, pass, tree, found>>
    BY <1>2 DEF ReadText
  <2>2. /\ Fitting(TheLook) /\ row \in Nat \ {0}
        /\ scene.from \in Platforms /\ TheLook \in LooksOf(scene.from)
    BY <2>1, HereFits
  <2>a. Finds(TheLook, place.at)
    BY <2>1 DEF Inv, TodoFits, Waits
  <2>3. IsContent(disk[place])
    BY <2>1 DEF There, Inv, FilesAreKnown
  <2>4. WellFormed(TextAsset(TheLook, place.at, disk[place]))
    BY <2>1, <2>2, <2>3, <2>a, TextAssetKnown
  <2>5. IsFiniteSet({TextAsset(TheLook, place.at, disk[place])})
    BY FS_Singleton
  <2>6. AssetsAreKnown'
    BY <2>1, <2>4, <2>5, MoreAssets
  <2>7. tree' = None
    BY <2>1, NoSkillHere
  <2>8. row' \in Nat \ {0}
    BY <2>1, <2>2, DoneRow
  <2>9. FilesAreKnown' /\ TreeIsKnown'
    BY <2>1, <2>7, <2>8 DEF Inv, FilesAreKnown, TreeIsKnown
  <2>10. TodoFits'
    BY <2>1, DoneTodo
  <2> QED
    BY <2>6, <2>9, <2>10 DEF Collected
<1> QED
  BY <1>1, <1>2

LEMMA TakeServersCollects ==
    ASSUME Inv, Here, TheLook.how \in {"json", "toml"}, UNCHANGED <<scene, disk>>,
           NEW place, NEW doc, NEW servers, IsFiniteSet(servers),
           TakeServers(place, doc, servers)
    PROVE  Collected'
<1>1. CASE Fail
  BY <1>1, FailCollects
<1>2. CASE ~Fail
  <2> DEFINE more == {ServerAsset(TheLook, doc, s) : s \in servers}
             f == [s \in servers |-> ServerAsset(TheLook, doc, s)]
  <2>1. /\ fresh' = fresh \union more
        /\ Done(place) /\ UNCHANGED <<pc, pass, tree, found>>
    BY <1>2 DEF TakeServers
  <2>2. /\ Fitting(TheLook) /\ row \in Nat \ {0}
        /\ scene.from \in Platforms /\ TheLook \in LooksOf(scene.from)
    BY HereFits
  <2>3. \A a \in more : WellFormed(a)
    BY <2>2, ServerAssetKnown
  <2>4. f \in [servers -> more] /\ \A a \in more : \E s \in servers : f[s] = a
    OBVIOUS
  <2> HIDE DEF f, more
  <2>5. IsFiniteSet(more)
    BY <2>4, FiniteImage
  <2>6. AssetsAreKnown'
    BY <2>1, <2>3, <2>5, MoreAssets
  <2>7. tree' = None
    BY <2>1, NoSkillHere
  <2>8. row' \in Nat \ {0}
    BY <2>1, <2>2, DoneRow
  <2>9. FilesAreKnown' /\ TreeIsKnown'
    BY <2>1, <2>7, <2>8 DEF Inv, FilesAreKnown, TreeIsKnown
  <2>10. TodoFits'
    BY <2>1, DoneTodo
  <2> QED
    BY <2>6, <2>9, <2>10 DEF Collected
<1> QED
  BY <1>1, <1>2

LEMMA ServersFinite ==
    ASSUME Inv, NEW place, There(place), disk[place].servers # None
    PROVE  IsFiniteSet(disk[place].servers)
  BY DEF There, Inv, FilesAreKnown, IsContent

LEMMA ReadJsonCollects ==
    ASSUME Inv, NEW place, ReadJson(place), UNCHANGED <<scene, disk>>
    PROVE  Collected'
<1>1. CASE Fail
  BY <1>1, FailCollects
<1>2. CASE ~Fail
  <2>1. /\ Here /\ TheLook.how = "json" /\ There(place) /\ disk[place].servers # None
        /\ TakeServers(place, disk[place], disk[place].servers)
    BY <1>2 DEF ReadJson
  <2> QED
    BY <2>1, ServersFinite, TakeServersCollects
<1> QED
  BY <1>1, <1>2

LEMMA ReadTomlCollects ==
    ASSUME Inv, NEW place, ReadToml(place), UNCHANGED <<scene, disk>>
    PROVE  Collected'
<1> DEFINE servers == IF disk[place].servers = None THEN {} ELSE disk[place].servers
<1>1. CASE Fail
  BY <1>1, FailCollects
<1>2. CASE ~Fail
  <2>1. /\ Here /\ TheLook.how = "toml" /\ There(place)
        /\ TakeServers(place, disk[place], servers)
    BY <1>2 DEF ReadToml
  <2>2. IsFiniteSet(servers)
    BY <2>1, ServersFinite, FS_EmptySet
  <2> HIDE DEF servers
  <2> QED
    BY <2>1, <2>2, TakeServersCollects
<1> QED
  BY <1>1, <1>2

LEMMA EnterSkillCollects ==
    ASSUME Inv, NEW place, EnterSkill(place), UNCHANGED <<scene, disk>>
    PROVE  Collected'
<1>1. /\ Here /\ TheLook.how = "skills" /\ tree = None /\ place \in todo
      /\ UNCHANGED <<pc, pass, fresh, found>>
  BY DEF EnterSkill
<1>2. row \in Nat \ {0}
  BY <1>1, HereFits
<1>3. row' \in Nat \ {0} /\ TreeIsKnown'
  <2>1. CASE There(SkillFile(place, "SKILL.md"))
    <3>1. tree' = [place |-> place, files |-> <<>>, left |-> None] /\ UNCHANGED <<row, todo>>
      BY <2>1 DEF EnterSkill
    <3>2. tree'.files = <<>> /\ DOMAIN tree'.files = {}
      BY <3>1
    <3>3. tree' = [place |-> tree'.place, files |-> tree'.files, left |-> tree'.left]
      BY <3>1
    <3>4. (row <= Len(Collector(scene.from)) /\ TheLook.how = "skills")'
      BY <1>1, <3>1 DEF Here, TheLook
    <3>5. IsFiniteSet(DOMAIN tree'.files)
      BY <3>2, FS_EmptySet
    <3>6. tree'.place \in todo'
      BY <1>1, <3>1
    <3> QED
      BY <1>2, <3>1, <3>2, <3>3, <3>4, <3>5, <3>6 DEF TreeIsKnown
  <2>2. CASE ~There(SkillFile(place, "SKILL.md"))
    <3>1. Done(place) /\ UNCHANGED tree
      BY <2>2 DEF EnterSkill
    <3> QED
      BY <1>1, <1>2, <3>1, DoneRow DEF TreeIsKnown
  <2> QED
    BY <2>1, <2>2
<1>4. FilesAreKnown'
  BY <1>1, <1>3 DEF Inv, FilesAreKnown
<1>5. AssetsAreKnown'
  BY <1>1 DEF Inv, AssetsAreKnown
<1>6. TodoFits'
  <2>1. CASE There(SkillFile(place, "SKILL.md"))
    BY <1>1, <2>1, TodoStays DEF EnterSkill
  <2>2. CASE ~There(SkillFile(place, "SKILL.md"))
    BY <1>1, <2>2, DoneTodo DEF EnterSkill
  <2> QED
    BY <2>1, <2>2
<1> QED
  BY <1>3, <1>4, <1>5, <1>6 DEF Collected

LEMMA TreeFields ==
    ASSUME Inv, tree # None
    PROVE  /\ tree.place \in todo
           /\ tree = [place |-> tree.place, files |-> tree.files, left |-> tree.left]
           /\ IsFiniteSet(DOMAIN tree.files)
           /\ \A f \in DOMAIN tree.files : IsContent(tree.files[f])
           /\ row <= Len(Collector(scene.from)) /\ TheLook.how = "skills"
  BY DEF Inv, TreeIsKnown

LEMMA ListSkillCollects ==
    ASSUME Inv, ListSkill, UNCHANGED <<scene, disk>>
    PROVE  Collected'
<1> DEFINE listed == {Last(p.at) : p \in Inside(tree.place.root, tree.place.at)}
<1>1. /\ tree # None /\ tree' = [tree EXCEPT !.left = listed]
      /\ UNCHANGED <<pc, pass, row, todo, fresh, found>>
  BY DEF ListSkill
<1> HIDE DEF listed
<1>2. tree' = [place |-> tree.place, files |-> tree.files, left |-> listed]
  BY <1>1, TreeFields
<1>3. TreeIsKnown'
  BY <1>1, <1>2, TreeFields DEF TreeIsKnown, TheLook
<1>4. FilesAreKnown'
  BY <1>1 DEF Inv, FilesAreKnown
<1>5. AssetsAreKnown'
  BY <1>1 DEF Inv, AssetsAreKnown
<1>6. TodoFits'
  BY <1>1, TodoStays
<1> QED
  BY <1>3, <1>4, <1>5, <1>6 DEF Collected

LEMMA ReadSkillFileCollects ==
    ASSUME Inv, ReadSkillFile, UNCHANGED <<scene, disk>>
    PROVE  Collected'
<1>1. CASE Fail
  BY <1>1, FailCollects
<1>2. CASE ~Fail
  <2>1. Listed /\ tree # None
    BY DEF ReadSkillFile, Listed
  <2> DEFINE next == IF "SKILL.md" \in tree.left THEN "SKILL.md"
                     ELSE CHOOSE f \in tree.left : TRUE
             read == [tree EXCEPT !.left = @ \ {next},
                        !.files = [g \in DOMAIN @ \union {next} |->
                            IF g = next THEN disk[SkillFile(tree.place, next)] ELSE @[g]]]
  <2>a. There(SkillFile(tree.place, next)) /\ tree' = read
        /\ UNCHANGED <<pc, pass, row, todo, fresh, found>>
    <3> HIDE DEF read
    <3>1. IF /\ There(SkillFile(tree.place, next))
             /\ IsText(next) => Scannable(disk[SkillFile(tree.place, next)])
          THEN tree' = read /\ UNCHANGED <<pc, pass, row, todo, fresh, found>>
          ELSE Fail
      BY DEF ReadSkillFile, read
    <3> QED
      BY <1>2, <3>1
  <2>b. PICK f : f = next
    OBVIOUS
  <2> HIDE DEF next
  <2>2. /\ There(SkillFile(tree.place, f))
        /\ tree' = [tree EXCEPT !.left = @ \ {f},
                !.files = [g \in DOMAIN @ \union {f} |->
                    IF g = f THEN disk[SkillFile(tree.place, f)] ELSE @[g]]]
        /\ UNCHANGED <<pc, pass, row, todo, fresh, found>>
    BY <2>a, <2>b
  <2> DEFINE text == disk[SkillFile(tree.place, f)]
             rest == tree.left \ {f}
             files == [g \in DOMAIN tree.files \union {f} |->
                            IF g = f THEN text ELSE tree.files[g]]
  <2>3. tree' = [tree EXCEPT !.left = rest, !.files = files]
    BY <2>2
  <2>4. IsContent(text)
    BY <2>2 DEF There, Inv, FilesAreKnown
  <2>5. \A g \in DOMAIN files : IsContent(files[g])
    BY <2>1, <2>4, TreeFields
  <2>6. IsFiniteSet(DOMAIN files)
    BY <2>1, TreeFields, FS_AddElement
  <2> HIDE DEF text, rest, files
  <2>7. tree' = [place |-> tree.place, files |-> files, left |-> rest]
    BY <2>1, <2>3, TreeFields
  <2>8. TreeIsKnown'
    <3>1. (row <= Len(Collector(scene.from)) /\ TheLook.how = "skills")'
      BY <2>1, <2>2, TreeFields DEF TheLook
    <3>2. tree'.place \in todo'
      BY <2>1, <2>2, <2>7, TreeFields
    <3> QED
      BY <2>5, <2>6, <2>7, <3>1, <3>2 DEF TreeIsKnown
  <2>9. FilesAreKnown' /\ AssetsAreKnown'
    BY <2>2 DEF Inv, FilesAreKnown, AssetsAreKnown
  <2>10. TodoFits'
    BY <2>2, TodoStays
  <2> QED
    BY <2>8, <2>9, <2>10 DEF Collected
<1> QED
  BY <1>1, <1>2

LEMMA LeaveSkillCollects ==
    ASSUME Inv, LeaveSkill, UNCHANGED <<scene, disk>>
    PROVE  Collected'
<1> DEFINE a == TreeAsset(TheLook, tree.place.at, tree.files)
<1>1. /\ Here /\ tree # None /\ fresh' = fresh \union {a} /\ tree' = None
      /\ Done(tree.place) /\ UNCHANGED <<pc, pass, found>>
  BY DEF LeaveSkill, Listed
<1>2. /\ Fitting(TheLook) /\ row \in Nat \ {0}
      /\ scene.from \in Platforms /\ TheLook \in LooksOf(scene.from)
  BY <1>1, HereFits
<1>3. WellFormed(a)
  BY <1>1, <1>2, TreeFields, TreeAssetKnown
<1> HIDE DEF a
<1>4. AssetsAreKnown'
  <2>1. IsFiniteSet({a}) /\ \A x \in {a} : WellFormed(x)
    BY <1>3, FS_Singleton
  <2> QED
    BY <1>1, <2>1, MoreAssets
<1>5. row' \in Nat \ {0}
  BY <1>1, <1>2, DoneRow
<1>6. FilesAreKnown' /\ TreeIsKnown'
  BY <1>1, <1>5 DEF Inv, FilesAreKnown, TreeIsKnown
<1>7. TodoFits'
  BY <1>1, DoneTodo
<1> QED
  BY <1>4, <1>6, <1>7 DEF Collected

LEMMA EndPassCollects ==
    ASSUME Inv, EndPass, UNCHANGED <<scene, disk>>
    PROVE  Collected'
<1>1. CASE Fail
  BY <1>1, FailCollects
<1>2. CASE ~Fail
  <2> DEFINE S == {WithWorkspace(a) : a \in fresh}
             all == found \union S
             f == [a \in fresh |-> WithWorkspace(a)]
  <2>1. /\ row > Len(Collector(scene.from)) /\ pc = "collect"
        /\ ~Collide(all) /\ found' = all /\ fresh' = {} /\ row' = 1
        /\ UNCHANGED <<todo, tree>>
    BY <1>2 DEF EndPass
  <2>2. pc' \in {"collect", "package"}
    BY <1>2 DEF EndPass
  <2>3. f \in [fresh -> S] /\ \A t \in S : \E a \in fresh : f[a] = t
    OBVIOUS
  <2>4. \A a \in S : WellFormed(a)
    BY WithWorkspaceKnown DEF Inv, AssetsAreKnown
  <2> HIDE DEF f, S
  <2>5. IsFiniteSet(S)
    BY <2>3, FiniteImage DEF Inv, AssetsAreKnown
  <2>6. IsFiniteSet(all)
    BY <2>5, FS_Union DEF Inv, AssetsAreKnown
  <2>7. \A a \in all : WellFormed(a)
    BY <2>4 DEF Inv, AssetsAreKnown
  <2> HIDE DEF all
  <2>8. AssetsAreKnown'
    BY <2>1, <2>6, <2>7, FS_EmptySet DEF AssetsAreKnown
  <2>9. scene.from \in Platforms /\ row \in Nat \ {0}
    BY <2>1 DEF Inv, FilesAreKnown
  <2>10. Len(Collector(scene.from)) \in Nat
    BY <2>9, LooksAreKnown, LenProperties
  <2>11. tree = None
    BY <2>1, <2>9, <2>10, TreeFields
  <2>a. todo = {} /\ TodoFits'
    BY <2>1, <2>9, <2>10 DEF Inv, TodoFits
  <2>12. FilesAreKnown' /\ TreeIsKnown'
    BY <2>1, <2>9, <2>11 DEF Inv, FilesAreKnown, TreeIsKnown
  <2> QED
    BY <2>8, <2>12, <2>a DEF Collected
<1> QED
  BY <1>1, <1>2

LEMMA CollectingStep ==
    ASSUME Inv, Collecting
    PROVE  Inv'
<1>1. pc = "collect" /\ Extract /\ UNCHANGED <<sending, receiving>> /\ UNCHANGED <<scene, disk>>
  BY DEF Collecting, Extract
<1>2. Collected'
  BY <1>1, LookAroundCollects, ListSkillCollects, ReadSkillFileCollects, LeaveSkillCollects,
     EndPassCollects, ReadTextCollects, ReadJsonCollects, ReadTomlCollects, EnterSkillCollects
     DEF Extract
<1>3. pc' \in {"collect", "package", "failed"}
  BY <1>1 DEF Extract, LookAround, ListSkill, ReadSkillFile, LeaveSkill, EndPass, ReadText,
     ReadJson, ReadToml, EnterSkill, TakeServers, Fail
<1>4. Received'
  BY <1>1, <1>3, ReceivedLater DEF Receiving
<1>5. Sent'
  BY <1>1, <1>3, SentLater
<1> QED
  BY <1>2, <1>4, <1>5 DEF Inv, Collected, Sent, Received

-----------------------------------------------------------------------------
(* Sending *)

LEMMA ExportStep ==
    ASSUME Inv, Export
    PROVE  Inv'
<1>1. /\ pc = "start" /\ scene.from # None /\ pc' \in {"collect", "failed"}
      /\ UNCHANGED <<scene, disk, sending, receiving>>
  BY DEF Export, Fail
<1>2. scene.from \in Platforms
  BY <1>1, ScenesAreKnown DEF Inv, FilesAreKnown
<1>3. Collected'
  <2>1. CASE ValidSources
    <3>1. UNCHANGED reading
      BY <2>1 DEF Export
    <3>2. UNCHANGED <<pass, row, todo, tree, fresh, found>>
      BY <3>1 DEF reading
    <3> QED
      BY <1>1, <1>2, <3>2
         DEF Inv, Collected, FilesAreKnown, TreeIsKnown, AssetsAreKnown, TheLook,
             TodoFits, Waits, RootIn
  <2>2. CASE ~ValidSources
    BY <1>1, <2>2, FailCollects DEF Export
  <2> QED
    BY <2>1, <2>2
<1>4. Received'
  BY <1>1, ReceivedLater DEF Receiving
<1>5. Sent'
  BY <1>1, SentLater
<1> QED
  BY <1>3, <1>4, <1>5 DEF Inv, Collected, Sent, Received

LEMMA HandoffStep ==
    ASSUME Inv, Handoff
    PROVE  Inv'
<1> DEFINE a == [platform |-> "codex", kind |-> "handoff", scope |-> "workspace",
                 title |-> "handoff", locator |-> <<"handoff", "capsule.json">>,
                 payload |-> Capsule, source |-> Capsule,
                 sensitivity |-> "private", workspace |-> None]
<1>1. /\ pc = "start" /\ pc' = "package" /\ found' = {a}
      /\ UNCHANGED <<scene, disk, pass, row, todo, tree, fresh, sending, receiving>>
  BY DEF Handoff
<1>2. WellFormed(a)
  BY DEF WellFormed, Located, Kinds, TextKinds
<1> HIDE DEF a
<1>3. IsFiniteSet({a}) /\ ~Collide({a})
  BY FS_Singleton DEF Collide
<1>4. AssetsAreKnown'
  BY <1>1, <1>2, <1>3 DEF Inv, AssetsAreKnown
<1>5. FilesAreKnown' /\ TreeIsKnown'
  BY <1>1 DEF Inv, FilesAreKnown, TreeIsKnown, TheLook
<1>6. Received'
  BY <1>1, ReceivedLater DEF Receiving
<1>7. Sent'
  BY <1>1, SentLater
<1>8. TodoFits'
  BY <1>1, TodoStays
<1> QED
  BY <1>4, <1>5, <1>6, <1>7, <1>8 DEF Inv, Sent, Received

\* What is signed is published.
LEMMA PublishSends ==
    ASSUME Inv, NEW b, NEW objects, NEW features, NEW key,
           Publish(b, objects, features, key), UNCHANGED <<scene, disk, file>>,
           Unpacked(objects) = b, \A a \in b.assets : WellFormed(a),
           ManifestPath \notin DOMAIN objects, SignaturePath \notin DOMAIN objects
    PROVE  /\ Collected' /\ PublishedIsKnown' /\ FileIsKnown' /\ SentIsSealed'
           /\ pc' = "create"
<1> DEFINE s == [bundle |-> b, signer |-> key]
<1>1. /\ signed' = Build(objects, features, key) /\ published' = published \union {s}
      /\ pc' = "create" /\ found' = {} /\ UNCHANGED <<pass, row, todo, tree, fresh>>
  BY DEF Publish
<1>2. Collected'
  <2>1. AssetsAreKnown'
    BY <1>1, FS_EmptySet DEF Inv, AssetsAreKnown, Collide
  <2>2. FilesAreKnown' /\ TreeIsKnown'
    BY <1>1 DEF Inv, FilesAreKnown, TreeIsKnown, TheLook
  <2>3. TodoFits'
    BY <1>1, TodoStays
  <2> QED
    BY <2>1, <2>2, <2>3 DEF Collected
<1>3. PublishedIsKnown'
  <2>1. s = [bundle |-> s.bundle, signer |-> s.signer] /\ s.bundle = b
    OBVIOUS
  <2> HIDE DEF s
  <2> QED
    BY <1>1, <2>1 DEF Inv, PublishedIsKnown
<1>4. Genuine(signed', published')
  <2>1. [bundle |-> Unpacked(objects), signer |-> key] \in published'
    BY <1>1
  <2> QED
    BY <1>1, <2>1, BuildGenuine
<1>5. FileIsKnown'
  <2>1. file = Seal(file.archive, file.wrap) /\ Genuine(file.archive, published)
            => Genuine(file.archive, published')
    BY <1>1, GenuineGrows
  <2> QED
    BY <1>1, <1>4, <2>1 DEF Inv, FileIsKnown
<1>6. SentIsSealed'
  BY <1>1 DEF SentIsSealed
<1> QED
  BY <1>1, <1>2, <1>3, <1>5, <1>6

LEMMA PackageAssetsStep ==
    ASSUME Inv, PackageAssets
    PROVE  Inv'
<1> DEFINE b == Bundles(found, LabelSet)
<1>1. /\ pc = "package" /\ UNCHANGED <<scene, disk, file, damaged, receiving>>
  BY DEF PackageAssets
<1>2. CASE ~Packable(b, Labels)
  <2>1. Fail /\ UNCHANGED <<signed, published>>
    BY <1>2 DEF PackageAssets
  <2>2. Collected' /\ pc' = "failed"
    BY <1>1, <2>1, FailCollects DEF Fail
  <2>3. Received' /\ Sent'
    BY <1>1, <2>1, <2>2, ReceivedLater, SentLater DEF Receiving, sending
  <2> QED
    BY <2>2, <2>3 DEF Inv, Collected, Sent, Received
<1>3. CASE Packable(b, Labels)
  <2>1. Publish(b, Pack(b), Features(b), DeviceKey)
    BY <1>3 DEF PackageAssets
  <2>2. b.assets = found /\ b = Bundles(b.assets, LabelSet)
    BY DEF Bundles
  <2>3. /\ IsFiniteSet(found) /\ ~Collide(found) /\ \A a \in found : WellFormed(a)
    BY DEF Inv, AssetsAreKnown
  <2>4. Unpacked(Pack(b)) = b
    BY <2>3, UnpackedPack
  <2>5. ManifestPath \notin DOMAIN Pack(b) /\ SignaturePath \notin DOMAIN Pack(b)
    BY PackDomain, PackPathsApart
  <2> HIDE DEF b
  <2>6. Collected' /\ PublishedIsKnown' /\ FileIsKnown' /\ SentIsSealed' /\ pc' = "create"
    BY <1>1, <2>1, <2>2, <2>3, <2>4, <2>5, PublishSends
  <2>7. Received'
    BY <1>1, <2>6, ReceivedLater DEF Receiving
  <2>8. SignedIsBuilt'
    <3>a. PICK c : c = b
      OBVIOUS
    <3>1. PICK s : s = [bundle |-> c, signer |-> DeviceKey]
      OBVIOUS
    <3>b. s \in published' /\ s.bundle = c
      BY <2>1, <3>a, <3>1 DEF Publish
    <3>2. signed' = Build(Pack(c), Features(c), DeviceKey)
      BY <2>1, <3>a DEF Publish
    <3>3. (LabelSet = LabelSet') /\ (Labels = Labels')
      BY <1>1 DEF LabelSet, Labels, Explicit
    <3>4. Built(c)'
      BY <1>3, <2>2, <2>3, <3>a, <3>2, <3>3 DEF Built
    <3>5. Built(s.bundle)'
      BY <3>b, <3>4
    <3> QED
      BY <3>b, <3>5 DEF SignedIsBuilt
  <2> QED
    BY <2>6, <2>7, <2>8 DEF Inv, Collected, Received
<1> QED
  BY <1>2, <1>3

LEMMA OtherVersionStep ==
    ASSUME Inv, OtherVersion
    PROVE  Inv'
<1> DEFINE b == Bundles(found, LabelSet)
<1>1. /\ pc = "package" /\ UNCHANGED <<scene, disk, file, damaged, receiving>>
  BY DEF OtherVersion
<1>2. PICK objects \in Variants(Pack(b)), features \in {{}, {"portable-workspaces"}, {"later"}} :
        Publish(Unpacked(objects), objects, features, OtherKey)
  BY DEF OtherVersion
<1>3. b.assets = found
  BY DEF Bundles
<1>4. ~Collide(found) /\ \A a \in found : WellFormed(a)
  BY DEF Inv, AssetsAreKnown
<1> HIDE DEF b
<1>5. /\ ManifestPath \notin DOMAIN objects /\ SignaturePath \notin DOMAIN objects
      /\ \A a \in Unpacked(objects).assets : WellFormed(a)
  BY <1>3, <1>4, VariantObjects
<1>6. Collected' /\ PublishedIsKnown' /\ FileIsKnown' /\ SentIsSealed' /\ pc' = "create"
  BY <1>1, <1>2, <1>5, PublishSends
<1>7. Received'
  BY <1>1, <1>6, ReceivedLater DEF Receiving
<1>8. SignedIsBuilt'
  <2> DEFINE s == [bundle |-> Unpacked(objects), signer |-> OtherKey]
  <2>1. s \in published' /\ s.signer = OtherKey
    BY <1>2 DEF Publish
  <2> HIDE DEF s
  <2>2. OtherKey \in {x.signer : x \in published'}
    BY <2>1
  <2> QED
    BY <2>2, KeysDiffer DEF SignedIsBuilt
<1> QED
  BY <1>6, <1>7, <1>8 DEF Inv, Collected, Received

LEMMA BuiltStays ==
    ASSUME Inv, UNCHANGED <<scene, signed, published>>, pc \in {"create", "write", "sent"}
    PROVE  SignedIsBuilt'
<1>1. (LabelSet = LabelSet') /\ (Labels = Labels')
  BY DEF LabelSet, Labels, Explicit
<1>2. \A b : Built(b) => Built(b)'
  BY <1>1 DEF Built
<1> QED
  BY <1>2 DEF Inv, SignedIsBuilt

LEMMA CreateStep ==
    ASSUME Inv, Create
    PROVE  Inv'
<1>1. /\ pc = "create" /\ UNCHANGED <<scene, disk, signed, published, damaged, receiving>>
  BY DEF Create
<1>2. CASE file = None
  <2>1. file' = Torn /\ pc' = "write" /\ UNCHANGED reading
    BY <1>2 DEF Create
  <2>2. Collected'
    BY <1>1, <2>1, CollectedStays
  <2>3. Received'
    BY <1>1, <2>1, ReceivedLater DEF Receiving
  <2>4. PublishedIsKnown' /\ FileIsKnown' /\ SentIsSealed'
    BY <1>1, <2>1 DEF Inv, PublishedIsKnown, FileIsKnown, SentIsSealed
  <2>5. SignedIsBuilt'
    BY <1>1, BuiltStays
  <2> QED
    BY <2>2, <2>3, <2>4, <2>5 DEF Inv, Collected, Received
<1>3. CASE file # None
  <2>1. Fail /\ UNCHANGED file
    BY <1>3 DEF Create
  <2>2. Collected' /\ pc' = "failed"
    BY <1>1, <2>1, FailCollects DEF Fail
  <2>3. Received' /\ Sent'
    BY <1>1, <2>1, <2>2, ReceivedLater, SentLater DEF Receiving, sending
  <2> QED
    BY <2>2, <2>3 DEF Inv, Collected, Sent, Received
<1> QED
  BY <1>2, <1>3

LEMMA SealFields ==
    ASSUME NEW archive, NEW wrap
    PROVE  /\ Seal(archive, wrap).archive = archive /\ Seal(archive, wrap).wrap = wrap
           /\ Seal(archive, wrap) = [archive |-> archive, wrap |-> wrap]
  BY DEF Seal

LEMMA TornIsNotSealed ==
    ASSUME NEW archive, NEW wrap
    PROVE  Seal(archive, wrap) # Torn
<1>1. DOMAIN Seal(archive, wrap) = {"archive", "wrap"} /\ DOMAIN Torn = {"torn"}
  BY DEF Seal, Torn
<1> QED
  BY <1>1

LEMMA WriteAllStep ==
    ASSUME Inv, WriteAll
    PROVE  Inv'
<1>1. /\ pc = "write" /\ pc' = "sent" /\ file' = Seal(signed, scene.wrap)
      /\ UNCHANGED <<scene, disk, reading, signed, published, damaged, receiving>>
  BY DEF WriteAll
<1>2. Collected'
  BY <1>1, CollectedStays
<1>3. Received'
  BY <1>1, ReceivedLater DEF Receiving
<1>4. FileIsKnown'
  BY <1>1, SealFields DEF Inv, FileIsKnown
<1>5. PublishedIsKnown' /\ SentIsSealed'
  BY <1>1 DEF Inv, PublishedIsKnown, SentIsSealed
<1>6. SignedIsBuilt'
  BY <1>1, BuiltStays
<1> QED
  BY <1>2, <1>3, <1>4, <1>5, <1>6 DEF Inv, Collected, Received

LEMMA WriteErrorStep ==
    ASSUME Inv, WriteError
    PROVE  Inv'
<1>1. /\ pc = "write" /\ pc' = "sent" /\ damaged' = TRUE
      /\ UNCHANGED <<scene, disk, reading, signed, file, published, receiving>>
  BY DEF WriteError
<1>2. Collected'
  BY <1>1, CollectedStays
<1>3. Received'
  BY <1>1, ReceivedLater DEF Receiving
<1>4. PublishedIsKnown' /\ FileIsKnown' /\ SentIsSealed'
  BY <1>1 DEF Inv, PublishedIsKnown, FileIsKnown, SentIsSealed
<1>5. SignedIsBuilt'
  BY <1>1, BuiltStays
<1> QED
  BY <1>2, <1>3, <1>4, <1>5 DEF Inv, Collected, Received

LEMMA AgainStep ==
    ASSUME Inv, Again
    PROVE  Inv'
<1>1. /\ pc = "sent" /\ pc' = "start"
      /\ UNCHANGED <<scene, disk, reading, sending, receiving>>
  BY DEF Again
<1>2. Collected'
  BY <1>1, CollectedStays
<1>3. Received' /\ Sent'
  BY <1>1, ReceivedLater, SentLater DEF Receiving
<1> QED
  BY <1>2, <1>3 DEF Inv, Collected, Sent, Received

LEMMA EditStep ==
    ASSUME Inv, NEW e \in scene.edits, Edit(e.place, e.content),
           UNCHANGED <<sending, receiving>>
    PROVE  Inv'
<1>1. /\ pc = "collect" /\ disk' = [disk EXCEPT ![e.place] = e.content]
      /\ UNCHANGED <<scene, pc, reading>>
  BY DEF Edit
<1>2. UNCHANGED <<pass, row, todo, tree, fresh, found>>
  BY <1>1 DEF reading
<1>3. e.content = None \/ IsContent(e.content)
  BY ScenesAreKnown DEF Inv, FilesAreKnown
<1>4. FilesAreKnown'
  <2>1. DOMAIN disk' = DOMAIN disk
    BY <1>1
  <2>2. \A p \in DOMAIN disk : disk'[p] \in {disk[p], e.content}
    BY <1>1
  <2> QED
    BY <1>1, <1>2, <1>3, <2>1, <2>2 DEF Inv, FilesAreKnown
<1>5. TreeIsKnown' /\ AssetsAreKnown'
  BY <1>1, <1>2 DEF Inv, TreeIsKnown, AssetsAreKnown, TheLook
<1>6. Received' /\ Sent'
  BY <1>1, ReceivedLater, SentLater DEF Receiving
<1>7. TodoFits'
  BY <1>1, <1>2, TodoStays
<1> QED
  BY <1>4, <1>5, <1>6, <1>7 DEF Inv, Sent, Received

LEMMA DamageStep ==
    ASSUME Inv, Damage
    PROVE  Inv'
<1>1. /\ pc = "sent" /\ file # Torn /\ damaged' = TRUE
      /\ UNCHANGED <<scene, disk, pc, reading, signed, published, receiving>>
  BY DEF Damage
<1>2. file = Seal(file.archive, file.wrap) /\ Genuine(file.archive, published)
  BY <1>1 DEF Inv, FileIsKnown
<1>3. Collected'
  BY <1>1, CollectedStays
<1>4. Received'
  BY <1>1, ReceivedLater DEF Receiving
<1>5. FileIsKnown'
  <2>1. CASE file.wrap = Plain
    <3>1. PICK a \in DamagedArchives(file.archive) : file' = [file EXCEPT !.archive = a]
      BY <2>1 DEF Damage
    <3>2. Genuine(a, published)
      BY <1>2, <3>1, DamagedGenuine
    <3>3. file = [archive |-> file.archive, wrap |-> file.wrap]
      BY <1>2 DEF Seal
    <3>4. file' = [archive |-> a, wrap |-> file.wrap]
      BY <3>1, <3>3
    <3>5. file' = Seal(file'.archive, file'.wrap) /\ file'.archive = a
      BY <3>4 DEF Seal
    <3> QED
      BY <1>1, <3>2, <3>5 DEF Inv, FileIsKnown
  <2>2. CASE file.wrap # Plain
    <3>1. file' = Torn
      BY <2>2 DEF Damage
    <3> QED
      BY <1>1, <3>1 DEF Inv, FileIsKnown
  <2> QED
    BY <2>1, <2>2
<1>6. PublishedIsKnown' /\ SentIsSealed'
  BY <1>1 DEF Inv, PublishedIsKnown, SentIsSealed
<1>7. SignedIsBuilt'
  BY <1>1, BuiltStays
<1> QED
  BY <1>3, <1>4, <1>5, <1>6, <1>7 DEF Inv, Collected, Received

-----------------------------------------------------------------------------
(* Receiving *)

\* A readable file is what someone published, and valid.
LEMMA ReadableIsValid ==
    ASSUME Inv, pc = "sent", NEW keys, Readable(keys)
    PROVE  LET v == Verified(file.archive)
               b == Unpacked(v.objects) IN
           [bundle |-> b, signer |-> v.signer] \in published /\ Valid(b)
<1> DEFINE v == Verified(file.archive)
           b == Unpacked(v.objects)
<1>1. file # Torn /\ Verifies(file.archive) /\ Unpackable(v.objects, v.features)
  BY DEF Readable
<1>2. Genuine(file.archive, published)
  BY <1>1 DEF Inv, FileIsKnown
<1>3. [bundle |-> b, signer |-> v.signer] \in published
  BY <1>1, <1>2, VerifiedIsPublished
<1>4. \A a \in b.assets : ValidAsset(a) /\ ValidReference(a, b.workspaces)
  BY <1>1 DEF Unpackable
<1>5. \A a \in b.assets : WellFormed(a)
  <2> DEFINE signer == v.signer
  <2> HIDE DEF b, signer
  <2>1. [bundle |-> b, signer |-> signer] \in published
    BY <1>3 DEF b, signer
  <2>2. [bundle |-> b, signer |-> signer].bundle = b
    OBVIOUS
  <2> QED
    BY <2>1, <2>2 DEF Inv, PublishedIsKnown
<1> QED
  BY <1>3, <1>4, <1>5 DEF Valid

\* An undamaged package of this version is only refused without its key.
LEMMA UndamagedIsReadable ==
    ASSUME Inv, pc = "sent", ~damaged, ~TooLarge, {s.signer : s \in published} = {DeviceKey},
           NEW keys \in {{}, {scene.wrap}}, ~Readable(keys), file # Torn
    PROVE  scene.wrap # Plain /\ keys = {}
<1>1. file = Seal(signed, scene.wrap)
  BY DEF Inv, SentIsSealed
<1>2. file.archive = signed /\ file.wrap = scene.wrap
  BY <1>1, SealFields
<1>3. PICK s \in published : Built(s.bundle)
  BY DEF Inv, SignedIsBuilt
<1>4. scene \in Scenes /\ \A a \in s.bundle.assets : WellFormed(a)
  BY DEF Inv, FilesAreKnown, PublishedIsKnown
<1>5. /\ Verifies(signed)
      /\ LET v == Verified(signed) IN Unpackable(v.objects, v.features)
  BY <1>3, <1>4, BuiltIsReadable
<1>6. ~Opens(file, keys)
  BY <1>2, <1>5 DEF Readable
<1> QED
  BY <1>2, <1>6 DEF Opens

LEMMA OpenStep ==
    ASSUME Inv, NEW keys \in {{}, {scene.wrap}}, Open(keys)
    PROVE  Inv'
<1>1. /\ pc = "sent"
      /\ UNCHANGED <<scene, disk, reading, sending, target, map, left, planned, skipped>>
  BY DEF Open
<1>2. UNCHANGED <<signed, file, published, damaged>>
  BY <1>1 DEF sending
<1>3. target = None /\ left = {}
  BY <1>1 DEF Inv, BundleIsValid
<1>4. pc' \in {"map", "end"}
  BY DEF Open
<1>5. Collected' /\ Sent'
  BY <1>1, <1>4, CollectedStays, SentLater
<1>6. PlannedIsReviewed' /\ RenderedArrives' /\ OpenedLast'
  BY <1>1, <1>3, <1>4
     DEF Inv, PlannedIsReviewed, RenderedArrives, Finished, OpenedLast, Receiving
<1>7. BundleIsValid' /\ OpenedIsPublished' /\ UndamagedOpens'
  <2>1. CASE Readable(keys)
    <3> DEFINE b == Unpacked(Verified(file.archive).objects)
               signer == Verified(file.archive).signer
    <3>1. opened' = [bundle |-> b, signer |-> signer] /\ pc' = "map"
      BY <2>1 DEF Open
    <3>2. [bundle |-> b, signer |-> signer] \in published /\ Valid(b)
      BY <1>1, <2>1, ReadableIsValid
    <3> HIDE DEF b, signer
    <3>3. /\ opened' = [bundle |-> opened'.bundle, signer |-> opened'.signer]
          /\ opened'.bundle = b /\ opened'.signer = signer /\ "bundle" \in DOMAIN opened'
      BY <3>1
    <3>4. BundleIsValid'
      BY <1>1, <1>3, <3>1, <3>2, <3>3 DEF BundleIsValid
    <3> QED
      BY <1>2, <3>2, <3>3, <3>4 DEF OpenedIsPublished, UndamagedOpens
  <2>2. CASE ~Readable(keys)
    <3>1. opened' = Refused(keys) /\ pc' = "end"
      BY <2>2 DEF Open
    <3>2. opened'.refused = keys /\ "bundle" \notin DOMAIN opened'
      BY <3>1 DEF Refused
    <3>3. BundleIsValid' /\ OpenedIsPublished'
      BY <1>1, <1>3, <3>1, <3>2 DEF BundleIsValid, OpenedIsPublished
    <3>4. UndamagedOpens'
      <4>1. SUFFICES ASSUME ~damaged, ~TooLarge, {s.signer : s \in published} = {DeviceKey}
                     PROVE  scene.wrap # Plain /\ keys = {}
        BY <1>1, <1>2, <3>2 DEF UndamagedOpens, TooLarge
      <4>2. file # Torn
        BY <1>1, <4>1, TornIsNotSealed DEF Inv, SentIsSealed
      <4> QED
        BY <1>1, <2>2, <4>1, <4>2, UndamagedIsReadable
    <3> QED
      BY <3>3, <3>4
  <2> QED
    BY <2>1, <2>2
<1> QED
  BY <1>5, <1>6, <1>7 DEF Inv, Collected, Sent

LEMMA OpenedStays ==
    ASSUME Inv, UNCHANGED <<scene, sending, opened>>, pc' \in Receiving
    PROVE  OpenedLast' /\ OpenedIsPublished' /\ UndamagedOpens'
<1>1. UNCHANGED <<signed, file, published, damaged>>
  BY DEF sending
<1> QED
  BY <1>1 DEF Inv, OpenedLast, OpenedIsPublished, UndamagedOpens, TooLarge

LEMMA ResolveMapStep ==
    ASSUME Inv, NEW to \in scene.targets, NEW m \in Maps, ResolveMap(to, m)
    PROVE  Inv'
<1>1. /\ pc = "map" /\ target' = to /\ map' = m /\ pc' \in {"render", "end"}
      /\ UNCHANGED <<scene, disk, reading, sending, opened, planned, skipped>>
  BY DEF ResolveMap
<1>2. to \in Platforms
  BY ScenesAreKnown DEF Inv, FilesAreKnown
<1>3. target = None /\ left = {}
  BY <1>1 DEF Inv, BundleIsValid
<1>4. Collected' /\ Sent'
  BY <1>1, CollectedStays, SentLater
<1>5. OpenedLast' /\ OpenedIsPublished' /\ UndamagedOpens'
  BY <1>1, OpenedStays DEF Receiving
<1>6. PlannedIsReviewed'
  BY <1>1 DEF Inv, PlannedIsReviewed
<1>7. /\ opened = [bundle |-> opened.bundle, signer |-> opened.signer]
      /\ Valid(opened.bundle)
  BY <1>1 DEF Inv, BundleIsValid
<1>8. BundleIsValid' /\ RenderedArrives'
  <2>1. CASE ResolvedMap(opened.bundle.workspaces, m)
    <3>1. left' = opened.bundle.assets /\ pc' = "render"
      BY <2>1 DEF ResolveMap
    <3>2. ASSUME NEW a \in opened.bundle.assets, a.workspace # None
          PROVE  IsPath(m[a.workspace].at)
      <4>1. a.workspace \in opened.bundle.workspaces
        BY <1>7, <3>2 DEF Valid, ValidReference
      <4>2. m # MissingMap /\ a.workspace \in DOMAIN m
        BY <2>1, <4>1 DEF ResolvedMap
      <4> QED
        BY <4>2, MapsAreDirectories
    <3>3. \A a \in opened.bundle.assets : Mapped(a)'
      BY <1>1, <3>2 DEF Mapped
    <3> QED
      BY <1>1, <1>2, <1>7, <3>1, <3>3 DEF BundleIsValid, RenderedArrives
  <2>2. CASE ~ResolvedMap(opened.bundle.workspaces, m)
    <3>1. UNCHANGED left /\ pc' = "end"
      BY <2>2 DEF ResolveMap
    <3> QED
      BY <1>1, <1>2, <1>3, <1>7, <2>2, <3>1 DEF BundleIsValid, RenderedArrives, Finished
  <2> QED
    BY <2>1, <2>2
<1> QED
  BY <1>4, <1>5, <1>6, <1>8 DEF Inv, Collected, Sent

FileAt(content) == IF IsDocument(content) THEN content = [servers |-> content.servers]
                   ELSE content = [text |-> content.text, header |-> content.header]

\* A rendered text is no document.
LEMMA RenderedIsText ==
    ASSUME NEW a, NEW text
    PROVE  /\ Rendered(a, text).text = text /\ ~IsDocument(Rendered(a, text))
           /\ Rendered(a, text) =
                [text |-> Rendered(a, text).text, header |-> Rendered(a, text).header]
<1> DEFINE header == CASE KindAt(target, a.kind) # a.kind -> "prompt"
                       [] target = "cursor" /\ a.kind = "instruction" /\
                             ~(a.platform = target /\ IsExact(target, a.locator)) -> "rule"
                       [] OTHER -> "none"
<1>1. Rendered(a, text) = [text |-> text, header |-> header]
  BY DEF Rendered
<1> HIDE DEF header
<1>2. DOMAIN Rendered(a, text) = {"text", "header"}
  BY <1>1
<1> QED
  BY <1>1, <1>2 DEF IsDocument

\* The last segment of a file of a Skill is its name.
LEMMA SkillFileName ==
    ASSUME NEW place, NEW S, place.at \in Seq(S), NEW f
    PROVE  Last(SkillFile(place, f).at) = f
<1> DEFINE at == place.at
           T == S \union {f}
<1>1. SkillFile(place, f).at = Append(at, f)
  BY DEF SkillFile, Place
<1> HIDE DEF at
<1>2. at \in Seq(T)
  BY SeqMonotonic DEF at
<1> HIDE DEF T
<1>3. f \in T
  BY DEF T
<1>4. Append(at, f)[Len(Append(at, f))] = f
  BY <1>2, <1>3
<1> QED
  BY <1>1, <1>4 DEF Last

LEMMA SkillPlace ==
    ASSUME NEW a, a.kind = "skill", NEW platform \in Platforms
    PROVE  \E S : Render(platform, a).at \in Seq(S)
<1> DEFINE name == PortableName(a.title)
           S == {"skills", ".agents", ".claude", ".cursor", ".qoder", name}
<1> HIDE DEF name
<1>1. /\ <<"skills", name>> \in Seq(S) /\ <<".agents", "skills", name>> \in Seq(S)
      /\ <<".cursor", "skills", name>> \in Seq(S)
      /\ <<".claude">> \in Seq(S) /\ <<".qoder">> \in Seq(S) /\ <<>> \in Seq(S)
  OBVIOUS
<1> HIDE DEF S
<1>2. CASE platform = "codex"
  <2>1. Render(platform, a).at = <<".agents", "skills", name>>
    BY <1>2 DEF Render, RenderCodex, Place, name
  <2> QED
    BY <1>1, <2>1
<1>3. CASE platform = "cursor"
  <2>1. Render(platform, a).at = <<".cursor", "skills", name>>
    BY <1>3 DEF Render, RenderCursor, Place, name
  <2> QED
    BY <1>1, <2>1
<1>4. CASE platform = "claude-code"
  <2> DEFINE below == Below(".claude", Rooted("config", a))
  <2>1. Render(platform, a).at = below \o <<"skills", name>>
    BY <1>4 DEF Render, RenderClaude, RenderScoped, Place, name
  <2>2. below \in Seq(S)
    BY <1>1 DEF Below
  <2> HIDE DEF below
  <2>3. below \o <<"skills", name>> \in Seq(S)
    BY <1>1, <2>2
  <2> QED
    BY <2>1, <2>3
<1>5. CASE platform = "qoder"
  <2> DEFINE below == Below(".qoder", Rooted("config", a))
  <2>1. Render(platform, a).at = below \o <<"skills", name>>
    BY <1>5 DEF Render, RenderQoder, RenderScoped, Place, name
  <2>2. below \in Seq(S)
    BY <1>1 DEF Below
  <2> HIDE DEF below
  <2>3. below \o <<"skills", name>> \in Seq(S)
    BY <1>1, <2>2
  <2> QED
    BY <2>1, <2>3
<1> QED
  BY <1>2, <1>3, <1>4, <1>5 DEF Platforms

\* What is rendered lies below the directory of its workspace, if it has one.
LEMMA ResolvedAt ==
    ASSUME NEW a, NEW place, NEW S, place.at \in Seq(S), Mapped(a)
    PROVE  \E T : Resolve(a, place).at \in Seq(T)
<1>1. CASE place.root # "workspace" \/ a.workspace = None
  <2>1. Resolve(a, place).at = place.at
    BY <1>1 DEF Resolve, Place
  <2> QED
    BY <2>1
<1>2. CASE place.root = "workspace" /\ a.workspace # None
  <2> DEFINE dir == map[a.workspace].at
             at == place.at
             T == S \union Range(dir)
  <2>1. Resolve(a, place).at = dir \o at
    BY <1>2 DEF Resolve, Place
  <2>2. dir \in Seq(Range(dir))
    BY <1>2 DEF Mapped, IsPath
  <2> HIDE DEF dir, at
  <2>3. dir \in Seq(T) /\ at \in Seq(T)
    BY <2>2, SeqMonotonic DEF at
  <2> HIDE DEF T
  <2>4. dir \o at \in Seq(T)
    BY <2>3
  <2> QED
    BY <2>1, <2>4
<1> QED
  BY <1>1, <1>2

\* What is in an asset of a valid bundle and is planned neither runs nor scans as
\* a credential.
LEMMA ReviewedText ==
    ASSUME NEW a, ValidAsset(a), a.sensitivity # "quarantined", NEW text \in Blobs(a)
    PROVE  text.marks \intersect {"secret", "active", "binary"} = {}
<1>1. ValidObject(a, text)
  BY DEF ValidAsset
<1> QED
  BY <1>1 DEF ValidObject

LEMMA ReviewedFiles ==
    ASSUME NEW a, WellFormed(a), ValidAsset(a), a.sensitivity # "quarantined", a.kind # "mcp",
           target \in Platforms, Mapped(a), NEW p \in DOMAIN FilesOf(a)
    PROVE  /\ FileAt(FilesOf(a)[p]) /\ ~IsDocument(FilesOf(a)[p]) /\ Reviewed(FilesOf(a)[p])
<1> DEFINE place == Resolve(a, Render(target, a))
<1>1. CASE a.kind = "skill"
  <2>1. PICK f \in DOMAIN a.payload : p = SkillFile(place, f)
    BY <1>1 DEF FilesOf
  <2>2. PICK S : Render(target, a).at \in Seq(S)
    BY <1>1, SkillPlace
  <2>3. PICK T : place.at \in Seq(T)
    BY <2>2, ResolvedAt
  <2> HIDE DEF place
  <2>4. Last(p.at) = f
    BY <2>1, <2>3, SkillFileName
  <2>5. FilesOf(a)[p] = Rendered(a, a.payload[f])
    BY <1>1, <2>1, <2>4 DEF FilesOf, place
  <2>6. a.payload[f] \in Blobs(a)
    BY <1>1 DEF Blobs
  <2>7. a.payload[f].marks \intersect {"secret", "active", "binary"} = {}
    BY <2>6, ReviewedText
  <2> QED
    BY <2>5, <2>7, RenderedIsText DEF FileAt, Reviewed
<1>2. CASE a.kind # "skill"
  <2>1. FilesOf(a) = [q \in {place} |-> Rendered(a, a.payload)]
    BY <1>2 DEF FilesOf
  <2>2. FilesOf(a)[p] = Rendered(a, a.payload)
    BY <2>1
  <2>3. CASE a.kind \in TextKinds
    <3>1. a.payload \in Blobs(a)
      BY <2>3 DEF Blobs, TextKinds
    <3>2. a.payload.marks \intersect {"secret", "active", "binary"} = {}
      BY <3>1, ReviewedText
    <3> QED
      BY <2>2, <3>2, RenderedIsText DEF FileAt, Reviewed
  <2>4. CASE a.kind = "handoff"
    <3>1. a.payload = Capsule /\ ~Capsule.secret
      BY <2>4 DEF WellFormed, ValidAsset, SecretPayload
    <3>2. Capsule.marks \intersect {"secret", "active", "binary"} \subseteq {"active"}
      BY <3>1, CapsuleIsScanned
    <3> QED
      BY <2>2, <3>1, <3>2, RenderedIsText DEF FileAt, Reviewed
  <2> QED
    BY <1>2, <2>3, <2>4 DEF WellFormed, Kinds, TextKinds
<1> QED
  BY <1>1, <1>2

\* Planning another asset takes nothing away.
LEMMA WholeStays ==
    ASSUME NEW a, Whole(a), UNCHANGED <<target, map>>,
           a.kind # "mcp" => \A p \in DOMAIN FilesOf(a) : ~IsDocument(FilesOf(a)[p]),
           \A p \in DOMAIN planned :
                /\ p \in DOMAIN planned'
                /\ \/ planned'[p] = planned[p]
                   \/ /\ IsDocument(planned[p]) /\ IsDocument(planned'[p])
                      /\ planned[p].servers \subseteq planned'[p].servers
    PROVE  Whole(a)'
<1>1. /\ Resolve(a, Render(target, a))' = Resolve(a, Render(target, a))
      /\ FilesOf(a)' = FilesOf(a)
  BY DEF Resolve, FilesOf, Rendered
<1>2. CASE a.kind = "mcp"
  BY <1>1, <1>2 DEF Whole
<1>3. CASE a.kind # "mcp"
  BY <1>1, <1>3 DEF Whole
<1> QED
  BY <1>2, <1>3

LEMMA RenderServerPlans ==
    ASSUME Inv, NEW a, a.kind = "mcp", ~a.payload.secret, RenderServer(a),
           UNCHANGED <<target, map>>
    PROVE  /\ PlannedIsReviewed'
           /\ \A p \in DOMAIN planned :
                /\ p \in DOMAIN planned'
                /\ \/ planned'[p] = planned[p]
                   \/ /\ IsDocument(planned[p]) /\ IsDocument(planned'[p])
                      /\ planned[p].servers \subseteq planned'[p].servers
           /\ skipped' \in {skipped, skipped \union {a}}
           /\ a \notin skipped' => Whole(a)'
<1> DEFINE at == Resolve(a, Render(target, a))
           old == Servers(at)
           document == [servers |-> old \union {a.payload}]
<1>1. CASE Skip(a)
  BY <1>1 DEF Skip, Inv, PlannedIsReviewed
<1>2. CASE ~Skip(a)
  <2>1. /\ at \in DOMAIN planned => IsDocument(planned[at])
        /\ planned' = [q \in DOMAIN planned \union {at} |->
                        IF q = at THEN document ELSE planned[q]]
        /\ UNCHANGED skipped
    BY <1>2 DEF RenderServer
  <2>2. IsDocument(document) /\ document.servers = old \union {a.payload}
        /\ document = [servers |-> document.servers]
    BY DEF IsDocument
  <2>3. Resolve(a, Render(target, a))' = at
    BY DEF Resolve
  <2>4. at \in DOMAIN planned => planned[at].servers = old /\ Reviewed(planned[at])
    BY DEF Servers, Inv, PlannedIsReviewed
  <2>5. at \notin DOMAIN planned => old = {}
    BY DEF Servers
  <2>6. Reviewed(document)
    BY <2>1, <2>2, <2>4, <2>5 DEF Reviewed
  <2> HIDE DEF at, old, document
  <2>7. DOMAIN planned' = DOMAIN planned \union {at} /\ planned'[at] = document
        /\ \A p \in DOMAIN planned : p # at => planned'[p] = planned[p]
    BY <2>1
  <2>8. PlannedIsReviewed'
    BY <2>2, <2>6, <2>7 DEF Inv, PlannedIsReviewed
  <2>9. Whole(a)'
    BY <2>2, <2>3, <2>7 DEF Whole
  <2> QED
    BY <2>1, <2>2, <2>4, <2>7, <2>8, <2>9
<1> QED
  BY <1>1, <1>2

LEMMA RenderFilesPlans ==
    ASSUME Inv, NEW a, WellFormed(a), ValidAsset(a), a.sensitivity # "quarantined",
           a.kind # "mcp", target \in Platforms, Mapped(a), RenderFiles(a), UNCHANGED <<target, map>>
    PROVE  /\ PlannedIsReviewed'
           /\ \A p \in DOMAIN planned : p \in DOMAIN planned' /\ planned'[p] = planned[p]
           /\ skipped' \in {skipped, skipped \union {a}}
           /\ a \notin skipped' => Whole(a)'
<1> DEFINE files == FilesOf(a)
           taken == DOMAIN files \intersect DOMAIN planned
<1>1. /\ planned' = [p \in DOMAIN planned \union DOMAIN files |->
                        IF p \in DOMAIN planned THEN planned[p] ELSE files[p]]
      /\ skipped' = skipped \union IF \E p \in taken : planned[p] # files[p] THEN {a} ELSE {}
  BY DEF RenderFiles
<1>2. \A p \in DOMAIN files : FileAt(files[p]) /\ Reviewed(files[p])
  BY ReviewedFiles
<1>3. FilesOf(a)' = files
  BY DEF FilesOf, Resolve, Rendered
<1> HIDE DEF files
<1>4. /\ DOMAIN planned' = DOMAIN planned \union DOMAIN files
      /\ \A p \in DOMAIN planned : planned'[p] = planned[p]
      /\ \A p \in DOMAIN files \ DOMAIN planned : planned'[p] = files[p]
  BY <1>1
<1>5. PlannedIsReviewed'
  BY <1>2, <1>4 DEF Inv, PlannedIsReviewed, FileAt
<1>6. ASSUME a \notin skipped'
      PROVE  Whole(a)'
  <2>1. \A p \in DOMAIN files : p \in DOMAIN planned' /\ planned'[p] = files[p]
    BY <1>1, <1>4, <1>6
  <2> QED
    BY <1>3, <2>1 DEF Whole
<1>7. skipped' \in {skipped, skipped \union {a}}
  BY <1>1
<1> QED
  BY <1>4, <1>5, <1>6, <1>7

LEMMA RenderAssetStep ==
    ASSUME Inv, NEW a \in left, RenderAsset(a)
    PROVE  Inv'
<1>1. /\ pc = "render" /\ left' = left \ {a}
      /\ UNCHANGED <<scene, disk, pc, reading, sending, opened, target, map>>
  BY DEF RenderAsset
<1>2. /\ target \in Platforms /\ left \subseteq opened.bundle.assets
      /\ Valid(opened.bundle)
  BY <1>1 DEF Inv, BundleIsValid
<1>3. \A x \in opened.bundle.assets : WellFormed(x) /\ ValidAsset(x) /\ Mapped(x)
  BY <1>1, <1>2 DEF Valid, Inv, BundleIsValid
<1>4. Collected' /\ Sent'
  BY <1>1, CollectedStays, SentLater
<1>5. OpenedLast' /\ OpenedIsPublished' /\ UndamagedOpens'
  BY <1>1, OpenedStays DEF Receiving
<1>6. BundleIsValid'
  BY <1>1 DEF Inv, BundleIsValid, Mapped
<1>7. /\ PlannedIsReviewed'
      /\ \A p \in DOMAIN planned :
            /\ p \in DOMAIN planned'
            /\ \/ planned'[p] = planned[p]
               \/ /\ IsDocument(planned[p]) /\ IsDocument(planned'[p])
                  /\ planned[p].servers \subseteq planned'[p].servers
      /\ skipped' \in {skipped, skipped \union {a}}
      /\ a \notin skipped' =>
            /\ a.sensitivity # "quarantined" /\ Render(target, a) # Manual /\ Whole(a)'
  <2>1. CASE a.sensitivity = "quarantined" \/ Render(target, a) = Manual
    <3>1. Skip(a)
      BY <2>1 DEF RenderAsset
    <3> QED
      BY <3>1 DEF Skip, Inv, PlannedIsReviewed
  <2>2. CASE ~(a.sensitivity = "quarantined" \/ Render(target, a) = Manual) /\ a.kind = "mcp"
    <3>1. RenderServer(a) /\ ~a.payload.secret
      BY <1>2, <1>3, <2>2 DEF RenderAsset, ValidAsset, SecretPayload
    <3> QED
      BY <1>1, <2>2, <3>1, RenderServerPlans
  <2>3. CASE ~(a.sensitivity = "quarantined" \/ Render(target, a) = Manual) /\ a.kind # "mcp"
    <3>1. RenderFiles(a) /\ WellFormed(a) /\ ValidAsset(a) /\ Mapped(a)
      BY <1>2, <1>3, <2>3 DEF RenderAsset
    <3> QED
      BY <1>1, <1>2, <2>3, <3>1, RenderFilesPlans
  <2> QED
    BY <2>1, <2>2, <2>3
<1>8. RenderedArrives'
  <2>1. ASSUME NEW x \in opened.bundle.assets, x \notin left', x \notin skipped'
        PROVE  Render(target, x) # Manual /\ x.sensitivity # "quarantined" /\ Whole(x)'
    <3>1. CASE x = a
      BY <1>7, <2>1, <3>1
    <3>2. CASE x # a
      <4>1. x \notin left \union skipped
        BY <1>1, <1>7, <2>1, <3>2
      <4>2. Render(target, x) # Manual /\ x.sensitivity # "quarantined" /\ Whole(x)
        BY <1>1, <4>1 DEF Inv, RenderedArrives
      <4>3. x.kind # "mcp" => \A p \in DOMAIN FilesOf(x) : ~IsDocument(FilesOf(x)[p])
        BY <1>2, <1>3, <4>2, ReviewedFiles
      <4> QED
        BY <1>1, <1>7, <4>2, <4>3, WholeStays
    <3> QED
      BY <3>1, <3>2
  <2> QED
    BY <1>1, <2>1 DEF RenderedArrives, Finished
<1> QED
  BY <1>4, <1>5, <1>6, <1>7, <1>8 DEF Inv, Collected, Sent

LEMMA FinishPlanStep ==
    ASSUME Inv, FinishPlan
    PROVE  Inv'
<1>1. /\ pc = "render" /\ left = {} /\ pc' = "end"
      /\ UNCHANGED <<scene, disk, reading, sending, receiving>>
  BY DEF FinishPlan
<1>2. UNCHANGED <<opened, target, map, left, planned, skipped>>
  BY <1>1 DEF receiving
<1>3. Collected' /\ Sent'
  BY <1>1, CollectedStays, SentLater
<1>4. OpenedLast' /\ OpenedIsPublished' /\ UndamagedOpens'
  BY <1>1, <1>2, OpenedStays DEF Receiving
<1>5. BundleIsValid' /\ PlannedIsReviewed'
  BY <1>1, <1>2 DEF Inv, BundleIsValid, Mapped, PlannedIsReviewed
<1>6. RenderedArrives'
  <2>1. \A x : Whole(x)' = Whole(x)
    BY <1>2 DEF Whole, FilesOf, Resolve, Rendered
  <2> QED
    BY <1>1, <1>2, <2>1 DEF Inv, RenderedArrives
<1> QED
  BY <1>3, <1>4, <1>5, <1>6 DEF Inv, Collected, Sent

LEMMA StutterStep ==
    ASSUME Inv, UNCHANGED vars
    PROVE  Inv'
<1>1. UNCHANGED <<scene, disk, pc, reading, sending, receiving>>
  BY DEF vars, collectVars
<1>2. UNCHANGED <<opened, target, map, left, planned, skipped>>
  BY <1>1 DEF receiving
<1>3. UNCHANGED <<pass, row, todo, tree, fresh, found>>
  BY <1>1 DEF reading
<1>4. UNCHANGED <<signed, file, published, damaged>>
  BY <1>1 DEF sending
<1>5. FilesAreKnown' /\ TreeIsKnown' /\ AssetsAreKnown'
  BY <1>1, <1>3 DEF Inv, FilesAreKnown, TreeIsKnown, AssetsAreKnown, TheLook
<1>6. PublishedIsKnown' /\ FileIsKnown'
  BY <1>1, <1>4 DEF Inv, PublishedIsKnown, FileIsKnown
<1>7. SignedIsBuilt' /\ SentIsSealed'
  BY <1>1, <1>4 DEF Inv, SignedIsBuilt, SentIsSealed, Built, Labels, LabelSet, Explicit
<1>8. BundleIsValid' /\ PlannedIsReviewed'
  BY <1>1, <1>2 DEF Inv, BundleIsValid, Mapped, PlannedIsReviewed
<1>9. RenderedArrives'
  <2>1. \A x : Whole(x)' = Whole(x)
    BY <1>2 DEF Whole, FilesOf, Resolve, Rendered
  <2> QED
    BY <1>1, <1>2, <2>1 DEF Inv, RenderedArrives, Finished
<1>10. OpenedLast' /\ OpenedIsPublished' /\ UndamagedOpens'
  BY <1>1, <1>2, <1>4 DEF Inv, OpenedLast, OpenedIsPublished, UndamagedOpens, TooLarge
<1>11. TodoFits'
  BY <1>1, <1>3, TodoStays
<1> QED
  BY <1>11, <1>5, <1>6, <1>7, <1>8, <1>9, <1>10 DEF Inv

LEMMA NextInv == Inv /\ [Next]_vars => Inv'
<1> SUFFICES ASSUME Inv, [Next]_vars PROVE Inv'
  OBVIOUS
<1>1. CASE Export
  BY <1>1, ExportStep
<1>2. CASE Handoff
  BY <1>2, HandoffStep
<1>3. CASE Collecting
  BY <1>3, CollectingStep
<1>4. CASE PackageAssets
  BY <1>4, PackageAssetsStep
<1>5. CASE OtherVersion
  BY <1>5, OtherVersionStep
<1>6. CASE Create
  BY <1>6, CreateStep
<1>7. CASE WriteAll
  BY <1>7, WriteAllStep
<1>8. CASE WriteError
  BY <1>8, WriteErrorStep
<1>9. CASE Again
  BY <1>9, AgainStep
<1>10. CASE Damage
  BY <1>10, DamageStep
<1>11. ASSUME NEW e \in scene.edits, Edit(e.place, e.content), UNCHANGED <<sending, receiving>>
       PROVE  Inv'
  BY <1>11, EditStep
<1>12. ASSUME NEW keys \in {{}, {scene.wrap}}, Open(keys)
       PROVE  Inv'
  BY <1>12, OpenStep
<1>13. ASSUME NEW to \in scene.targets, NEW m \in Maps, ResolveMap(to, m)
       PROVE  Inv'
  BY <1>13, ResolveMapStep
<1>14. ASSUME NEW a \in left, RenderAsset(a)
       PROVE  Inv'
  BY <1>14, RenderAssetStep
<1>15. CASE FinishPlan
  BY <1>15, FinishPlanStep
<1>16. CASE UNCHANGED vars
  BY <1>16, StutterStep
<1> QED
  BY <1>1, <1>2, <1>3, <1>4, <1>5, <1>6, <1>7, <1>8, <1>9, <1>10, <1>11, <1>12, <1>13,
     <1>14, <1>15, <1>16 DEF Next

LEMMA AlwaysInv == Spec => []Inv
  BY InitInv, NextInv, PTL DEF Spec

-----------------------------------------------------------------------------
(* One path is read in one way *)

\* Two paths part at a name that both have.
Apart(s, t) == s[1] # t[1] \/ (Len(s) = 2 /\ Len(t) = 2 /\ s[2] # t[2])

\* What two looks of one collector have in common.
Distinct(look, other) ==
    /\ \/ Apart(look.at, other.at)
       \/ look.at = other.at /\ look.how = other.how /\ look.kind = other.kind
    /\ ScopeOf(look.root) = ScopeOf(other.root) /\ look.at = other.at => look.root = other.root
    /\ ScopeOf(look.root) = ScopeOf(other.root) /\ look.kind = "mcp" /\ other.kind = "mcp" =>
        look.at = other.at

\* How long the path of a look is.
Short(look) == Len(look.at) \in {1, 2}

LEMMA NothingBefore ==
    ASSUME NEW x
    PROVE  <<>> \o <<x>> = <<x>>
<1> DEFINE S == {x}
<1>1. <<x>> \in Seq(S)
  OBVIOUS
<1> HIDE DEF S
<1> QED
  BY <1>1, ConcatEmptySeq

LEMMA CodexLooks ==
    /\ \A look, other \in TableOf("codex") : Distinct(look, other)
    /\ \A look \in TableOf("codex") : Short(look)
  BY DEF TableOf, Distinct, Apart, ScopeOf, Look, Short

LEMMA CursorLooks ==
    /\ \A look, other \in TableOf("cursor") : Distinct(look, other)
    /\ \A look \in TableOf("cursor") : Short(look)
  BY DEF TableOf, Distinct, Apart, ScopeOf, Look, Short

LEMMA ClaudeLooks ==
    /\ \A look, other \in TableOf("claude-code") : Distinct(look, other)
    /\ \A look \in TableOf("claude-code") : Short(look)
<1> DEFINE User ==
        {Look("text", "config", <<"CLAUDE.md">>, "instruction"),
         Look("markdown", "config", <<"rules">>, "instruction"),
         Look("markdown", "config", <<"commands">>, "prompt"),
         Look("skills", "config", <<"skills">>, "skill")}
           Workspace ==
        {Look("text", "workspace", <<"CLAUDE.md">>, "instruction"),
         Look("text", "workspace", <<"CLAUDE.local.md">>, "instruction"),
         Look("text", "workspace", <<".claude", "CLAUDE.md">>, "instruction"),
         Look("markdown", "workspace", <<".claude", "rules">>, "instruction"),
         Look("markdown", "workspace", <<".claude", "commands">>, "prompt"),
         Look("skills", "workspace", <<".claude", "skills">>, "skill"),
         Look("json", "workspace", <<".mcp.json">>, "mcp")}
<1>1. /\ Below(".claude", "config") \o <<"rules">> = <<"rules">>
      /\ Below(".claude", "config") \o <<"commands">> = <<"commands">>
      /\ Below(".claude", "config") \o <<"skills">> = <<"skills">>
      /\ Below(".claude", "workspace") \o <<"rules">> = <<".claude", "rules">>
      /\ Below(".claude", "workspace") \o <<"commands">> = <<".claude", "commands">>
      /\ Below(".claude", "workspace") \o <<"skills">> = <<".claude", "skills">>
  BY TwoSegments, NothingBefore DEF Below
<1>2. DOMAIN ClaudeTexts = {1, 2, 3}
  BY DEF ClaudeTexts
<1>3. ScopeTable("config", ClaudeTexts, ".claude") \subseteq User
  <2> SUFFICES ASSUME NEW look \in ScopeTable("config", ClaudeTexts, ".claude")
               PROVE  look \in User
    OBVIOUS
  <2>1. \/ look = Look("text", "config", ClaudeTexts[1], "instruction")
        \/ look = Look("markdown", "config", <<"rules">>, "instruction")
        \/ look = Look("markdown", "config", <<"commands">>, "prompt")
        \/ look = Look("skills", "config", <<"skills">>, "skill")
    BY <1>1 DEF ScopeTable
  <2> QED
    BY <2>1 DEF ClaudeTexts
<1>4. ScopeTable("workspace", ClaudeTexts, ".claude") \subseteq Workspace
  <2> SUFFICES ASSUME NEW look \in ScopeTable("workspace", ClaudeTexts, ".claude")
               PROVE  look \in Workspace
    OBVIOUS
  <2>1. \/ \E i \in DOMAIN ClaudeTexts : look = Look("text", "workspace", ClaudeTexts[i], "instruction")
        \/ look = Look("markdown", "workspace", <<".claude", "rules">>, "instruction")
        \/ look = Look("markdown", "workspace", <<".claude", "commands">>, "prompt")
        \/ look = Look("skills", "workspace", <<".claude", "skills">>, "skill")
        \/ look = Look("json", "workspace", <<".mcp.json">>, "mcp")
    BY <1>1 DEF ScopeTable
  <2> QED
    BY <1>2, <2>1 DEF ClaudeTexts
<1>5. TableOf("claude-code") \subseteq User \union Workspace
  BY <1>3, <1>4 DEF TableOf
<1>6. /\ \A look, other \in User \union Workspace : Distinct(look, other)
      /\ \A look \in User \union Workspace : Short(look)
  BY DEF Distinct, Apart, ScopeOf, Look, Short
<1> HIDE DEF User, Workspace
<1> QED
  BY <1>5, <1>6

LEMMA QoderLooks ==
    /\ \A look, other \in TableOf("qoder") : Distinct(look, other)
    /\ \A look \in TableOf("qoder") : Short(look)
<1> DEFINE User ==
        {Look("text", "config", <<"AGENTS.md">>, "instruction"),
         Look("markdown", "config", <<"rules">>, "instruction"),
         Look("markdown", "config", <<"commands">>, "prompt"),
         Look("skills", "config", <<"skills">>, "skill")}
           Workspace ==
        {Look("text", "workspace", <<"AGENTS.md">>, "instruction"),
         Look("text", "workspace", <<"AGENTS.local.md">>, "instruction"),
         Look("markdown", "workspace", <<".qoder", "rules">>, "instruction"),
         Look("markdown", "workspace", <<".qoder", "commands">>, "prompt"),
         Look("skills", "workspace", <<".qoder", "skills">>, "skill"),
         Look("json", "workspace", <<".mcp.json">>, "mcp")}
<1>1. /\ Below(".qoder", "config") \o <<"rules">> = <<"rules">>
      /\ Below(".qoder", "config") \o <<"commands">> = <<"commands">>
      /\ Below(".qoder", "config") \o <<"skills">> = <<"skills">>
      /\ Below(".qoder", "workspace") \o <<"rules">> = <<".qoder", "rules">>
      /\ Below(".qoder", "workspace") \o <<"commands">> = <<".qoder", "commands">>
      /\ Below(".qoder", "workspace") \o <<"skills">> = <<".qoder", "skills">>
  BY TwoSegments, NothingBefore DEF Below
<1>2. DOMAIN QoderTexts = {1, 2}
  BY DEF QoderTexts
<1>3. ScopeTable("config", QoderTexts, ".qoder") \subseteq User
  <2> SUFFICES ASSUME NEW look \in ScopeTable("config", QoderTexts, ".qoder")
               PROVE  look \in User
    OBVIOUS
  <2>1. \/ look = Look("text", "config", QoderTexts[1], "instruction")
        \/ look = Look("markdown", "config", <<"rules">>, "instruction")
        \/ look = Look("markdown", "config", <<"commands">>, "prompt")
        \/ look = Look("skills", "config", <<"skills">>, "skill")
    BY <1>1 DEF ScopeTable
  <2> QED
    BY <2>1 DEF QoderTexts
<1>4. ScopeTable("workspace", QoderTexts, ".qoder") \subseteq Workspace
  <2> SUFFICES ASSUME NEW look \in ScopeTable("workspace", QoderTexts, ".qoder")
               PROVE  look \in Workspace
    OBVIOUS
  <2>1. \/ \E i \in DOMAIN QoderTexts : look = Look("text", "workspace", QoderTexts[i], "instruction")
        \/ look = Look("markdown", "workspace", <<".qoder", "rules">>, "instruction")
        \/ look = Look("markdown", "workspace", <<".qoder", "commands">>, "prompt")
        \/ look = Look("skills", "workspace", <<".qoder", "skills">>, "skill")
        \/ look = Look("json", "workspace", <<".mcp.json">>, "mcp")
    BY <1>1 DEF ScopeTable
  <2> QED
    BY <1>2, <2>1 DEF QoderTexts
<1>5. TableOf("qoder") \subseteq User \union Workspace
  BY <1>3, <1>4 DEF TableOf
<1>6. /\ \A look, other \in User \union Workspace : Distinct(look, other)
      /\ \A look \in User \union Workspace : Short(look)
  BY DEF Distinct, Apart, ScopeOf, Look, Short
<1> HIDE DEF User, Workspace
<1> QED
  BY <1>5, <1>6

LEMMA LooksDiffer ==
    ASSUME NEW platform \in Platforms, NEW look \in LooksOf(platform),
           NEW other \in LooksOf(platform)
    PROVE  Distinct(look, other) /\ Short(look)
<1>1. look \in TableOf(platform) /\ other \in TableOf(platform)
  BY LooksInTable
<1> QED
  BY <1>1, ClaudeLooks, CodexLooks, CursorLooks, QoderLooks DEF Platforms

LEMMA LooksKnown ==
    ASSUME NEW platform \in Platforms, NEW look \in LooksOf(platform)
    PROVE  look \in KnownLooks
<1>1. Collector(platform) \in Seq(KnownLooks)
  BY LooksAreKnown
<1> QED
  BY <1>1 DEF LooksOf, Range

\* What is found below a path begins with it.
LEMMA FoundBelow ==
    ASSUME NEW look, IsPath(look.at), NEW at, IsPath(at), Finds(look, at)
    PROVE  /\ Len(look.at) <= Len(at) /\ Len(at) \in Nat /\ Len(look.at) \in Nat
           /\ \A i \in 1..Len(look.at) : at[i] = look.at[i]
<1> DEFINE s == look.at
           S == Range(s) \union Range(at)
           n == Len(s)
<1>1. s \in Seq(S) /\ at \in Seq(S)
  BY SeqMonotonic DEF IsPath
<1> HIDE DEF S
<1>2. n \in Nat /\ Len(at) \in Nat
  BY <1>1, LenProperties
<1>3. CASE s = at
  BY <1>2, <1>3
<1>4. CASE s # at
  <2>1. IsPrefix(s, at)
    BY <1>4 DEF Finds, IsStrictPrefix
  <2>2. n <= Len(at) /\ SubSeq(s, 1, n) = SubSeq(at, 1, n)
    BY <2>1 DEF IsPrefix
  <2>3. /\ \A i \in 1..n : SubSeq(at, 1, n)[i] = at[i]
        /\ \A i \in 1..n : SubSeq(s, 1, n)[i] = s[i]
    BY <1>1, <1>2, <2>2, SubSeqProperties
  <2> QED
    BY <1>2, <2>2, <2>3
<1> QED
  BY <1>3, <1>4

\* One path is found by looks that read it in one way.
LEMMA FoundAlike ==
    ASSUME NEW platform \in Platforms, NEW look \in LooksOf(platform),
           NEW other \in LooksOf(platform), NEW at, IsPath(at),
           Finds(look, at), Finds(other, at)
    PROVE  look.at = other.at /\ look.how = other.how /\ look.kind = other.kind
<1>1. Distinct(look, other) /\ Short(look) /\ Short(other)
  BY LooksDiffer
<1>2. IsPath(look.at) /\ IsPath(other.at)
  BY LooksKnown, KnownPath
<1>3. /\ \A i \in 1..Len(look.at) : at[i] = look.at[i]
      /\ \A i \in 1..Len(other.at) : at[i] = other.at[i]
  BY <1>2, FoundBelow
<1>4. ~Apart(look.at, other.at)
  BY <1>1, <1>3 DEF Short, Apart
<1> QED
  BY <1>1, <1>4 DEF Distinct

-----------------------------------------------------------------------------
(* Where an asset comes from *)

\* The files of a Skill, as ListSkill sees them.
Listing(place) == {Last(p.at) : p \in Inside(place.root, place.at)}
TreeAt(place) == [f \in Listing(place) |-> disk[SkillFile(place, f)]]

\* A look finds the place in a pass, and reads the asset there.
Makes(look, k, place, a) ==
    /\ Waits(look, k, place)
    /\ look.how \in {"text", "markdown"} =>
        There(place) /\ a = TextAsset(look, place.at, disk[place])
    /\ look.how \in {"json", "toml"} =>
        /\ There(place) /\ disk[place].servers # None
        /\ \E s \in disk[place].servers : a = ServerAsset(look, disk[place], s)
    /\ look.how = "skills" => a = TreeAsset(look, place.at, TreeAt(place))

Sourced(k, a) == \E look \in LooksOf(scene.from) : \E place : Makes(look, k, place, a)

\* with_workspace_id in a pass
Labelled(k, a) ==
    IF a.scope = "workspace" THEN [a EXCEPT !.workspace = scene.sources[k].label] ELSE a

LEMMA MadeFields ==
    ASSUME NEW look \in KnownLooks, NEW k, NEW place, NEW a, Makes(look, k, place, a)
    PROVE  /\ a.platform = scene.from /\ a.kind = look.kind /\ a.scope = ScopeOf(look.root)
           /\ a.workspace = None
           /\ a = [platform |-> a.platform, kind |-> a.kind, scope |-> a.scope,
                   title |-> a.title, locator |-> a.locator, payload |-> a.payload,
                   source |-> a.source, sensitivity |-> a.sensitivity,
                   workspace |-> a.workspace]
           /\ look.how \in {"text", "markdown", "skills"} => a.locator = place.at
<1>1. look.how \in Hows
  BY KnownPath
<1>2. ASSUME NEW title, NEW at, NEW payload, NEW source, NEW class,
             a = Asset(look, title, at, payload, source, class)
      PROVE  /\ a.platform = scene.from /\ a.kind = look.kind /\ a.scope = ScopeOf(look.root)
             /\ a.workspace = None /\ a.locator = at
             /\ a = [platform |-> a.platform, kind |-> a.kind, scope |-> a.scope,
                     title |-> a.title, locator |-> a.locator, payload |-> a.payload,
                     source |-> a.source, sensitivity |-> a.sensitivity,
                     workspace |-> a.workspace]
  BY <1>2 DEF Asset
<1>3. CASE look.how \in {"text", "markdown"}
  BY <1>2, <1>3 DEF Makes, TextAsset
<1>4. CASE look.how \in {"json", "toml"}
  BY <1>2, <1>4 DEF Makes, ServerAsset
<1>5. CASE look.how = "skills"
  BY <1>2, <1>5 DEF Makes, TreeAsset
<1> QED
  BY <1>1, <1>3, <1>4, <1>5 DEF Hows

\* The name of a server can be read from its locator.
LEMMA LocatorNames ==
    ASSUME NEW at, IsPath(at), NEW name, NEW other,
           at \o <<"#", name>> = at \o <<"#", other>>
    PROVE  name = other
<1> DEFINE S == Range(at) \union {"#", name, other}
           n == Len(at)
           u == at \o <<"#", name>>
           v == at \o <<"#", other>>
<1>1. "#" \in S /\ name \in S /\ other \in S
  OBVIOUS
<1>2. at \in Seq(S)
  BY SeqMonotonic DEF IsPath
<1> HIDE DEF S
<1>3. <<"#", name>> \in Seq(S) /\ <<"#", other>> \in Seq(S)
  BY <1>1
<1>4. n \in Nat
  BY <1>2, LenProperties
<1>5. u[n + 2] = name
  BY <1>2, <1>3, <1>4, ConcatProperties
<1>6. v[n + 2] = other
  BY <1>2, <1>3, <1>4, ConcatProperties
<1> QED
  BY <1>5, <1>6

LEMMA OneAsset ==
    ASSUME scene.from \in Platforms,
           \A p \in DOMAIN disk : disk[p] = None \/ IsContent(disk[p]),
           NEW look \in LooksOf(scene.from), NEW other \in LooksOf(scene.from),
           NEW k, NEW l, NEW place, NEW that, NEW a, NEW b,
           Makes(look, k, place, a), Makes(other, l, that, b),
           a.kind = b.kind, a.scope = b.scope, a.locator = b.locator,
           a.scope = "user" \/ k = l
    PROVE  a = b
<1>1. look \in KnownLooks /\ other \in KnownLooks
  BY LooksKnown
<1>2. /\ look.kind = other.kind /\ ScopeOf(look.root) = ScopeOf(other.root)
      /\ a.scope = ScopeOf(look.root)
  BY <1>1, MadeFields
<1>3. /\ Waits(look, k, place) /\ Waits(other, l, that)
      /\ Finds(look, place.at) /\ Finds(other, that.at) /\ IsPath(place.at) /\ IsPath(that.at)
  BY DEF Makes, Waits
<1>4. /\ Fitting(look) /\ Fitting(other) /\ look.how \in Hows /\ other.how \in Hows
      /\ IsPath(look.at)
  BY <1>1, KnownPath
<1>5. Distinct(look, other)
  BY LooksDiffer
<1>6. look.at = other.at /\ look.how = other.how
  <2>1. CASE look.kind = "mcp"
    <3>1. look.at = other.at
      BY <1>2, <1>5, <2>1 DEF Distinct
    <3>2. Finds(look, place.at) /\ Finds(other, look.at)
      BY <1>2, <1>3, <1>4, <2>1, <3>1 DEF Finds, Fitting, Hows, TextKinds
    <3>3. Finds(look, look.at)
      BY <1>4, <2>1, <3>1 DEF Finds, Fitting, Hows, TextKinds
    <3> QED
      BY <1>4, <3>2, <3>3, FoundAlike
  <2>2. CASE look.kind # "mcp"
    <3>1. look.how \in {"text", "markdown", "skills"} /\ other.how \in {"text", "markdown", "skills"}
      BY <1>2, <1>4, <2>2 DEF Fitting, Hows
    <3>2. place.at = that.at
      BY <1>1, <3>1, MadeFields
    <3> QED
      BY <1>3, <3>2, FoundAlike
  <2> QED
    BY <2>1, <2>2
<1>7. look.root = other.root
  BY <1>2, <1>5, <1>6 DEF Distinct
<1>8. look = other
  BY <1>1, <1>2, <1>6, <1>7 DEF KnownLooks
<1>9. RootIn(k, look.root) = RootIn(l, look.root)
  BY <1>2 DEF RootIn, ScopeOf
<1>10. place.at = that.at => place = that
  BY <1>3, <1>7, <1>9 DEF Waits
<1>11. CASE look.how \in {"text", "markdown", "skills"}
  <2>1. place = that
    BY <1>1, <1>8, <1>10, <1>11, MadeFields
  <2> QED
    BY <1>8, <1>11, <2>1 DEF Makes
<1>12. CASE look.how \in {"json", "toml"}
  <2>1. place.at = look.at /\ that.at = look.at
    BY <1>3, <1>8, <1>12 DEF Finds
  <2>2. place = that /\ disk[place].servers # None /\ There(place)
    BY <1>10, <1>12, <2>1 DEF Makes
  <2>3. PICK s \in disk[place].servers : a = ServerAsset(look, disk[place], s)
    BY <1>12 DEF Makes
  <2>4. PICK t \in disk[place].servers : b = ServerAsset(look, disk[place], t)
    BY <1>8, <1>12, <2>2 DEF Makes
  <2>5. a.locator = look.at \o <<"#", s.name>> /\ b.locator = look.at \o <<"#", t.name>>
    BY <2>3, <2>4 DEF ServerAsset, Asset
  <2>6. s.name = t.name
    BY <1>4, <2>5, LocatorNames
  <2>7. IsContent(disk[place])
    BY <2>2 DEF There
  <2>8. s = t
    BY <2>2, <2>6, <2>7 DEF IsContent
  <2> QED
    BY <2>3, <2>4, <2>8
<1> QED
  BY <1>4, <1>11, <1>12 DEF Hows

\* A file of a Skill lies in its directory.
LEMMA BelowSkill ==
    ASSUME Inv, scene.from \in Platforms, scene.from # None,
           NEW look \in LooksOf(scene.from), look.how = "skills", NEW k, NEW place, Waits(look, k, place),
           NEW p \in Inside(place.root, place.at)
    PROVE  /\ p = SkillFile(place, Last(p.at)) /\ Finds(look, p.at) /\ IsPath(p.at)
           /\ p \in DOMAIN disk /\ disk[p] # None
<1> DEFINE s == look.at
           q == place.at
           t == p.at
           n == Len(s)
           S == Range(s) \union Range(q) \union Range(t)
           f == Last(t)
           u == Append(q, f)
<1>1. p \in DOMAIN disk /\ disk[p] # None /\ p.root = place.root /\ IsStrictPrefix(q, t)
  BY DEF Inside
<1>2. p = Place(p.root, t) /\ IsPath(t)
  BY <1>1, PathNames
<1>3. IsPath(q) /\ IsPrefix(s, q) /\ Len(q) = n + 1
  BY DEF Waits, Finds
<1>4. IsPath(s) /\ n \in Nat
  BY LooksKnown, KnownPath
<1>5. s \in Seq(S) /\ q \in Seq(S) /\ t \in Seq(S)
  BY <1>2, <1>3, <1>4, SeqMonotonic DEF IsPath
<1> HIDE DEF S
<1>6. Len(t) \in Nat /\ Len(q) \in Nat
  BY <1>5, LenProperties
<1>7. Len(t) >= n + 2
  BY <1>1, <1>2, <1>3, <1>4, OneStepBelow
<1>8. /\ \A i \in 1..(n + 1) : t[i] = q[i]
      /\ \A i \in 1..n : q[i] = s[i]
  <2>1. SubSeq(q, 1, n + 1) = SubSeq(t, 1, n + 1) /\ SubSeq(s, 1, n) = SubSeq(q, 1, n)
    BY <1>1, <1>3, <1>4 DEF IsStrictPrefix, IsPrefix
  <2>2. /\ \A i \in 1..(n + 1) : SubSeq(q, 1, n + 1)[i] = q[i] /\ SubSeq(t, 1, n + 1)[i] = t[i]
        /\ \A i \in 1..n : SubSeq(s, 1, n)[i] = s[i] /\ SubSeq(q, 1, n)[i] = q[i]
    BY <1>3, <1>4, <1>5, <1>6, <1>7, SubSeqProperties
  <2> QED
    BY <2>1, <2>2
<1>9. IsPrefix(s, t) /\ s # t
  <2> DEFINE v == SubSeq(s, 1, n)
             w == SubSeq(t, 1, n)
  <2>1. /\ v \in Seq(S) /\ Len(v) = n /\ \A i \in 1..n : v[i] = s[i]
        /\ w \in Seq(S) /\ Len(w) = n /\ \A i \in 1..n : w[i] = t[i]
    BY <1>4, <1>5, <1>6, <1>7, SubSeqProperties
  <2> HIDE DEF v, w
  <2>2. \A i \in 1..n : v[i] = w[i]
    BY <1>4, <1>8, <2>1
  <2>3. v = w
    BY <2>1, <2>2, SeqEqual
  <2> QED
    BY <1>4, <1>6, <1>7, <2>3 DEF IsPrefix, v, w
<1>10. Len(t) <= n + 2
  <2>1. IsStrictPrefix(s, t)
    BY <1>9 DEF IsStrictPrefix
  <2>2. PICK i \in DOMAIN Collector(scene.from) : Collector(scene.from)[i] = look
    BY DEF LooksOf, Range
  <2>3. scene \in Scenes /\ p \in DOMAIN scene.disk
    BY <1>1 DEF Inv, FilesAreKnown
  <2> QED
    BY <2>1, <2>2, <2>3, PathsAreNames
<1>11. Len(t) = n + 2
  BY <1>4, <1>6, <1>7, <1>10
<1>12. f = t[n + 2] /\ f \in S
  BY <1>4, <1>5, <1>11 DEF Last
<1>13. u \in Seq(S) /\ Len(u) = n + 2 /\ u[n + 2] = f /\ \A i \in 1..(n + 1) : u[i] = q[i]
  BY <1>3, <1>4, <1>5, <1>12, AppendProperties
<1> HIDE DEF u
<1>14. u = t
  <2>1. \A i \in 1..(n + 2) : u[i] = t[i]
    BY <1>4, <1>8, <1>12, <1>13
  <2> QED
    BY <1>5, <1>11, <1>13, <2>1, SeqEqual
<1>15. p = SkillFile(place, f)
  BY <1>1, <1>2, <1>14 DEF SkillFile, u
<1> QED
  BY <1>1, <1>2, <1>9, <1>11, <1>15 DEF Finds

-----------------------------------------------------------------------------
(* While the user edits nothing *)

TodoIsThere == edited = {} => \A place \in todo : TheLook.how # "skills" => There(place)

\* How far the files of a Skill are read.
TreeIsRead ==
    tree # None /\ edited = {} =>
        \/ tree.left = None /\ tree.files = <<>>
        \/ /\ DOMAIN tree.files \union tree.left = Listing(tree.place)
           /\ tree.files = [f \in DOMAIN tree.files |-> disk[SkillFile(tree.place, f)]]

FreshIsSourced == edited = {} => \A a \in fresh : Sourced(pass, a)

FoundIsSourced ==
    edited = {} /\ scene.from # None =>
        \A a \in found : \E k \in DOMAIN scene.sources : \E b :
            Sourced(k, b) /\ a = Labelled(k, b)

IsHandoff(a) ==
    /\ a.kind = "handoff" /\ a.scope = "workspace" /\ a.workspace = None
    /\ a.payload = Capsule

HandoffIsAlone == scene.from = None => \A a, b \in found : a = b /\ IsHandoff(a)

PassIsGiven ==
    /\ pass \in DOMAIN scene.sources
    /\ pc = "collect" => scene.from # None
    /\ pc \in {"collect", "package"} /\ scene.from # None => ValidSources

EditsAreFaults ==
    /\ faults \in Nat /\ (edited # {} => faults # 0)
    /\ edited = {} => disk = scene.disk

FileIsWhole ==
    faults = 0 =>
        /\ pc \in {"start", "collect", "package", "create"} => file = None
        /\ pc = "sent" => file # Torn

CalmInv ==
    /\ TodoIsThere /\ TreeIsRead /\ FreshIsSourced /\ FoundIsSourced /\ HandoffIsAlone
    /\ PassIsGiven /\ EditsAreFaults /\ FileIsWhole /\ CleanExports

\* What the user can find in his files when an export fails.
Reason ==
    \/ ~ValidSources
    \/ scene.from = None /\ Capsule.secret
    \/ \E place \in DOMAIN scene.disk : scene.disk[place] # None /\ ~Accepted(place, scene.disk[place])

LEMMA InitCalm == Init => CalmInv
<1> SUFFICES ASSUME Init PROVE CalmInv
  OBVIOUS
<1>1. /\ scene \in Scenes /\ disk = scene.disk /\ pc = "start" /\ pass = 1 /\ row = 1
      /\ todo = {} /\ tree = None /\ fresh = {} /\ found = {} /\ faults = 0 /\ edited = {}
      /\ file = None
  BY DEF Init, InitCollect
<1>2. pass \in DOMAIN scene.sources
  BY <1>1, SourcesAreGiven
<1> QED
  BY <1>1, <1>2 DEF CalmInv, TodoIsThere, TreeIsRead, FreshIsSourced, FoundIsSourced,
     HandoffIsAlone, PassIsGiven, EditsAreFaults, FileIsWhole, CleanExports

LEMMA SourcedStays ==
    ASSUME UNCHANGED <<scene, disk>>, NEW k, NEW a
    PROVE  /\ Sourced(k, a)' <=> Sourced(k, a)
           /\ Labelled(k, a)' = Labelled(k, a)
  BY DEF Sourced, Makes, Waits, RootIn, TextAsset, ServerAsset, TreeAsset, TreeAt, Listing,
     Inside, There, Asset, Labelled, LooksOf

LEMMA ListingStays ==
    ASSUME UNCHANGED disk, NEW place
    PROVE  Listing(place)' = Listing(place)
  BY DEF Listing, Inside

LEMMA FoundStays ==
    ASSUME CalmInv, UNCHANGED <<scene, disk, found, edited>>
    PROVE  FoundIsSourced' /\ HandoffIsAlone'
  BY SourcedStays DEF CalmInv, FoundIsSourced, HandoffIsAlone, IsHandoff

LEMMA FreshStays ==
    ASSUME CalmInv, UNCHANGED <<scene, disk, pass, fresh, edited>>
    PROVE  FreshIsSourced'
<1>1. PICK k : k = pass
  OBVIOUS
<1>2. FreshIsSourced' <=> (edited' = {} => \A a \in fresh' : Sourced(k, a)')
  BY <1>1 DEF FreshIsSourced, Sourced
<1> QED
  BY <1>1, <1>2, SourcedStays DEF CalmInv, FreshIsSourced

LEMMA TreeStays ==
    ASSUME CalmInv, UNCHANGED <<disk, tree, edited>>
    PROVE  TreeIsRead'
  BY DEF CalmInv, TreeIsRead, Listing, Inside

LEMMA TodoIsThereStays ==
    ASSUME CalmInv, UNCHANGED <<scene, disk, row, edited>>, todo' \subseteq todo
    PROVE  TodoIsThere'
  BY DEF CalmInv, TodoIsThere, There, TheLook

LEMMA FilesStay ==
    ASSUME CalmInv, UNCHANGED <<scene, disk, edited>>, faults' \in {faults, faults + 1}
    PROVE  EditsAreFaults'
  BY DEF CalmInv, EditsAreFaults

\* An action that collects nothing.
ReadingStays ==
    TodoIsThere' /\ TreeIsRead' /\ FreshIsSourced' /\ FoundIsSourced' /\ HandoffIsAlone'
        /\ EditsAreFaults' /\ pass' \in DOMAIN scene'.sources
LEMMA CalmReading ==
    ASSUME CalmInv, UNCHANGED <<scene, disk, reading, edited>>, faults' \in {faults, faults + 1}
    PROVE  ReadingStays
<1>1. UNCHANGED <<pass, row, todo, tree, fresh, found>>
  BY DEF reading
<1> QED
  BY <1>1, FoundStays, FreshStays, TreeStays, TodoIsThereStays, FilesStay
     DEF ReadingStays, CalmInv, PassIsGiven

\* An action after the package was built.
LEMMA CalmLater ==
    ASSUME CalmInv, UNCHANGED <<scene, disk, reading, edited>>, faults' \in {faults, faults + 1},
           pc' \notin {"collect", "package", "failed"}, FileIsWhole'
    PROVE  CalmInv'
<1>1. ReadingStays
  BY CalmReading
<1>2. PassIsGiven' /\ CleanExports'
  BY <1>1 DEF ReadingStays, PassIsGiven, CleanExports
<1> QED
  BY <1>1, <1>2 DEF ReadingStays, CalmInv

LEMMA ReasonStays ==
    ASSUME UNCHANGED scene
    PROVE  /\ ValidSources' <=> ValidSources
           /\ Reason' <=> Reason
  BY DEF Reason, ValidSources, Labels, Explicit, Accepted, ReadAs

LEMMA CalmFails ==
    ASSUME CalmInv, Fail, UNCHANGED <<scene, disk, faults, edited>>, faults = 0 => Reason
    PROVE  CalmInv'
<1>1. UNCHANGED <<pass, row>> /\ todo' = {} /\ tree' = None /\ fresh' = {} /\ found' = {}
      /\ pc' = "failed"
  BY DEF Fail
<1>2. TodoIsThere' /\ TreeIsRead' /\ FreshIsSourced' /\ FoundIsSourced' /\ HandoffIsAlone'
  BY <1>1 DEF TodoIsThere, TreeIsRead, FreshIsSourced, FoundIsSourced, HandoffIsAlone
<1>3. PassIsGiven' /\ EditsAreFaults' /\ FileIsWhole'
  BY <1>1, FilesStay DEF CalmInv, PassIsGiven, FileIsWhole
<1>4. CleanExports'
  <2>1. faults' = 0 => Reason'
    BY ReasonStays
  <2> QED
    BY <2>1 DEF CleanExports, Reason
<1> QED
  BY <1>2, <1>3, <1>4 DEF CalmInv

-----------------------------------------------------------------------------
(* Collecting while the user edits nothing *)

\* A step of a collector that does not end the pass or the export.
LEMMA CalmReads ==
    ASSUME CalmInv, UNCHANGED <<scene, disk, faults, edited, file, pc, pass, found>>, pc = "collect",
           TodoIsThere', TreeIsRead', FreshIsSourced'
    PROVE  CalmInv'
<1>1. FoundIsSourced' /\ HandoffIsAlone'
  BY FoundStays
<1>2. PassIsGiven'
  BY ReasonStays DEF CalmInv, PassIsGiven
<1>3. EditsAreFaults' /\ FileIsWhole' /\ CleanExports'
  BY FilesStay DEF CalmInv, FileIsWhole, CleanExports
<1> QED
  BY <1>1, <1>2, <1>3 DEF CalmInv

\* Nothing the user did is in the way.
Still == UNCHANGED <<scene, disk, faults, edited, file>>

LEMMA DoneTodoThere ==
    ASSUME CalmInv, NEW unit, Done(unit), UNCHANGED <<scene, disk, edited>>
    PROVE  TodoIsThere'
<1>1. todo' = todo \ {unit} /\ (todo' # {} => row' = row)
  BY DEF Done
<1>2. CASE todo' = {}
  BY <1>2 DEF TodoIsThere
<1>3. CASE row' = row
  BY <1>1, <1>3, TodoIsThereStays
<1> QED
  BY <1>1, <1>2, <1>3

LEMMA LookAroundCalm ==
    ASSUME Inv, CalmInv, LookAround, Still
    PROVE  CalmInv'
<1>1. UNCHANGED <<scene, disk, faults, edited, file>>
  BY DEF Still
<1>2. Here /\ pc = "collect" /\ UNCHANGED <<pc, pass, tree, fresh, found>>
  BY DEF LookAround, Here
<1>3. TodoIsThere'
  <2> SUFFICES ASSUME NEW place \in todo', TheLook.how # "skills"
               PROVE  There(place) /\ (TheLook' = TheLook)
    BY <1>1 DEF TodoIsThere, There, LookAround, TheLook
  <2>1. row' = row
    BY DEF LookAround
  <2>2. There(place)
    BY DEF LookAround, There, Inside
  <2> QED
    BY <1>1, <2>1, <2>2 DEF TheLook
<1> QED
  BY <1>1, <1>2, <1>3, TreeStays, FreshStays, CalmReads

\* One asset more, or the assets of one document.
LEMMA MoreSourced ==
    ASSUME CalmInv, NEW more, edited = {} => \A a \in more : Sourced(pass, a),
           fresh' = fresh \union more, UNCHANGED <<scene, disk, pass, edited>>
    PROVE  FreshIsSourced'
<1>1. PICK k : k = pass
  OBVIOUS
<1>2. FreshIsSourced' <=> (edited' = {} => \A a \in fresh' : Sourced(k, a)')
  BY <1>1 DEF FreshIsSourced, Sourced
<1> QED
  BY <1>1, <1>2, SourcedStays DEF CalmInv, FreshIsSourced

\* What waits is where the look is.
LEMMA HereWaits ==
    ASSUME Inv, CalmInv, Here, NEW place \in todo
    PROVE  /\ Waits(TheLook, pass, place) /\ Finds(TheLook, place.at) /\ IsPath(place.at)
           /\ TheLook.how # "skills" /\ edited = {} => There(place)
  BY DEF Inv, TodoFits, Waits, CalmInv, TodoIsThere

\* How a place is read, when the current look finds it.
LEMMA ReadHere ==
    ASSUME Inv, Here, NEW place, IsPath(place.at), Finds(TheLook, place.at), NEW hows
    PROVE  ReadAs(hows, place) <=> TheLook.how \in hows
<1>1. scene.from \in Platforms /\ TheLook \in LooksOf(scene.from)
  BY HereFits
<1>2. \A look \in LooksOf(scene.from) : Finds(look, place.at) => look.how = TheLook.how
  BY <1>1, FoundAlike
<1>3. ReadAs(hows, place) <=>
        \E look \in LooksOf(scene.from) : look.how \in hows /\ Finds(look, place.at)
  BY DEF ReadAs, LooksOf, Range
<1> QED
  BY <1>1, <1>2, <1>3

\* A place that is not accepted is a reason to fail, when the user edits nothing.
LEMMA NotAccepted ==
    ASSUME CalmInv, faults = 0, NEW place, There(place), ~Accepted(place, disk[place])
    PROVE  Reason
<1>1. disk = scene.disk
  BY DEF CalmInv, EditsAreFaults
<1> QED
  BY <1>1 DEF Reason, There

LEMMA ReadTextCalm ==
    ASSUME Inv, CalmInv, NEW place, ReadText(place), Still
    PROVE  CalmInv'
<1> DEFINE a == TextAsset(TheLook, place.at, disk[place])
<1>1. UNCHANGED <<scene, disk, faults, edited, file>>
  BY DEF Still
<1>2. Here /\ pc = "collect" /\ TheLook.how \in {"text", "markdown"} /\ place \in todo
  BY DEF ReadText, Here
<1>3. /\ Waits(TheLook, pass, place) /\ Finds(TheLook, place.at) /\ IsPath(place.at)
      /\ edited = {} => There(place)
  BY <1>2, HereWaits
<1>4. CASE There(place) /\ Scannable(disk[place])
  <2>1. fresh' = fresh \union {a} /\ Done(place) /\ UNCHANGED <<pc, pass, tree, found>>
    BY <1>4 DEF ReadText
  <2>2. Sourced(pass, a)
    <3>1. TheLook \in LooksOf(scene.from)
      BY <1>2, HereFits
    <3>2. Makes(TheLook, pass, place, a)
      BY <1>2, <1>3, <1>4 DEF Makes
    <3> QED
      BY <3>1, <3>2 DEF Sourced
  <2> HIDE DEF a
  <2>3. FreshIsSourced'
    BY <1>1, <2>1, <2>2, MoreSourced
  <2> QED
    BY <1>1, <1>2, <2>1, <2>3, DoneTodoThere, TreeStays, CalmReads
<1>5. CASE ~(There(place) /\ Scannable(disk[place]))
  <2>1. Fail
    BY <1>5 DEF ReadText
  <2>2. ASSUME faults = 0 PROVE Reason
    <3>1. There(place)
      BY <1>3, <2>2 DEF CalmInv, EditsAreFaults
    <3>2. ReadAs({"text", "markdown"}, place) /\ ~ReadAs({"json", "toml"}, place)
      BY <1>2, <1>3, ReadHere
    <3>3. ~Accepted(place, disk[place])
      BY <1>5, <3>1, <3>2 DEF Accepted, Scannable
    <3> QED
      BY <2>2, <3>1, <3>3, NotAccepted
  <2> QED
    BY <1>1, <2>1, <2>2, CalmFails
<1> QED
  BY <1>4, <1>5

LEMMA TakeServersCalm ==
    ASSUME Inv, CalmInv, Here, TheLook.how \in {"json", "toml"}, NEW place \in todo,
           There(place), NEW servers,
           servers = IF disk[place].servers = None THEN {} ELSE disk[place].servers,
           TheLook.how = "json" => disk[place].servers # None,
           TakeServers(place, disk[place], servers), Still
    PROVE  CalmInv'
<1> DEFINE more == {ServerAsset(TheLook, disk[place], s) : s \in servers}
<1>1. UNCHANGED <<scene, disk, faults, edited, file>> /\ pc = "collect"
  BY DEF Still, Here
<1>2. Waits(TheLook, pass, place) /\ Finds(TheLook, place.at) /\ IsPath(place.at)
  BY HereWaits
<1>3. CASE \E s \in servers : Literal(s)
  <2>1. Fail
    BY <1>3 DEF TakeServers
  <2>2. ReadAs({"json", "toml"}, place)
    BY <1>2, ReadHere
  <2>3. ~Accepted(place, disk[place])
    BY <1>3, <2>2 DEF Accepted, Portable, Literal
  <2> QED
    BY <1>1, <2>1, <2>3, NotAccepted, CalmFails
<1>4. CASE ~\E s \in servers : Literal(s)
  <2>1. fresh' = fresh \union more /\ Done(place) /\ UNCHANGED <<pc, pass, tree, found>>
    BY <1>4 DEF TakeServers
  <2>2. ASSUME NEW a \in more PROVE Sourced(pass, a)
    <3>1. TheLook \in LooksOf(scene.from)
      BY HereFits
    <3>2. Makes(TheLook, pass, place, a)
      BY <1>2, <2>2 DEF Makes
    <3> QED
      BY <3>1, <3>2 DEF Sourced
  <2> HIDE DEF more
  <2>3. FreshIsSourced'
    BY <1>1, <2>1, <2>2, MoreSourced
  <2> QED
    BY <1>1, <2>1, <2>3, DoneTodoThere, TreeStays, CalmReads
<1> QED
  BY <1>3, <1>4

LEMMA ReadJsonCalm ==
    ASSUME Inv, CalmInv, NEW place, ReadJson(place), Still
    PROVE  CalmInv'
<1>1. UNCHANGED <<scene, disk, faults, edited, file>>
  BY DEF Still
<1>2. Here /\ TheLook.how = "json" /\ place \in todo
  BY DEF ReadJson
<1>3. /\ Finds(TheLook, place.at) /\ IsPath(place.at)
      /\ edited = {} => There(place)
  BY <1>2, HereWaits
<1>4. CASE There(place) /\ disk[place].servers # None
  <2>1. TakeServers(place, disk[place], disk[place].servers)
    BY <1>4 DEF ReadJson
  <2> QED
    BY <1>2, <1>4, <2>1, TakeServersCalm
<1>5. CASE ~(There(place) /\ disk[place].servers # None)
  <2>1. Fail
    BY <1>5 DEF ReadJson
  <2>2. ASSUME faults = 0 PROVE Reason
    <3>1. There(place)
      BY <1>3, <2>2 DEF CalmInv, EditsAreFaults
    <3>2. ReadAs({"json", "toml"}, place)
      BY <1>2, <1>3, ReadHere
    <3>3. ~Accepted(place, disk[place])
      BY <1>5, <3>1, <3>2 DEF Accepted
    <3> QED
      BY <2>2, <3>1, <3>3, NotAccepted
  <2> QED
    BY <1>1, <2>1, <2>2, CalmFails
<1> QED
  BY <1>4, <1>5

LEMMA ReadTomlCalm ==
    ASSUME Inv, CalmInv, NEW place, ReadToml(place), Still
    PROVE  CalmInv'
<1> DEFINE servers == IF disk[place].servers = None THEN {} ELSE disk[place].servers
<1>1. UNCHANGED <<scene, disk, faults, edited, file>>
  BY DEF Still
<1>2. Here /\ TheLook.how = "toml" /\ place \in todo
  BY DEF ReadToml
<1>3. edited = {} => There(place)
  BY <1>2, HereWaits
<1>4. CASE There(place)
  <2>1. TakeServers(place, disk[place], servers)
    BY <1>4 DEF ReadToml
  <2> QED
    BY <1>2, <1>4, <2>1, TakeServersCalm
<1>5. CASE ~There(place)
  <2>1. Fail
    BY <1>5 DEF ReadToml
  <2>2. faults # 0
    BY <1>3, <1>5 DEF CalmInv, EditsAreFaults
  <2> QED
    BY <1>1, <2>1, <2>2, CalmFails
<1> QED
  BY <1>4, <1>5

LEMMA EnterSkillCalm ==
    ASSUME Inv, CalmInv, NEW place, EnterSkill(place), Still
    PROVE  CalmInv'
<1>1. UNCHANGED <<scene, disk, faults, edited, file>>
  BY DEF Still
<1>2. pc = "collect" /\ tree = None /\ UNCHANGED <<pc, pass, fresh, found>>
  BY DEF EnterSkill, Here
<1>3. FreshIsSourced'
  BY <1>1, <1>2, FreshStays
<1>4. CASE There(SkillFile(place, "SKILL.md"))
  <2>1. tree' = [place |-> place, files |-> <<>>, left |-> None] /\ UNCHANGED <<todo, row>>
    BY <1>4 DEF EnterSkill
  <2>2. TreeIsRead'
    BY <2>1 DEF TreeIsRead
  <2>3. TodoIsThere'
    BY <1>1, <2>1, TodoIsThereStays
  <2> QED
    BY <1>1, <1>2, <1>3, <2>2, <2>3, CalmReads
<1>5. CASE ~There(SkillFile(place, "SKILL.md"))
  <2>1. Done(place) /\ UNCHANGED tree
    BY <1>5 DEF EnterSkill
  <2> QED
    BY <1>1, <1>2, <1>3, <2>1, DoneTodoThere, TreeStays, CalmReads
<1> QED
  BY <1>4, <1>5

LEMMA ListSkillCalm ==
    ASSUME Inv, CalmInv, ListSkill, Still
    PROVE  CalmInv'
<1>1. UNCHANGED <<scene, disk, faults, edited, file>>
  BY DEF Still
<1>2. /\ pc = "collect" /\ tree # None /\ tree.left = None
      /\ tree' = [tree EXCEPT !.left = Listing(tree.place)]
      /\ UNCHANGED <<pc, pass, row, todo, fresh, found>>
  BY DEF ListSkill, Here, Listing
<1>3. PICK place : place = tree.place
  OBVIOUS
<1>4. PICK listing : listing = Listing(place)
  OBVIOUS
<1>5. tree' = [place |-> place, files |-> tree.files, left |-> listing]
  BY <1>2, <1>3, <1>4, TreeFields
<1>6. Listing(place)' = listing
  BY <1>1, <1>4, ListingStays
<1>7. TreeIsRead'
  <2> SUFFICES ASSUME edited = {}
               PROVE  TreeIsRead'
    BY <1>1 DEF TreeIsRead
  <2>1. \/ tree.files = <<>>
        \/ /\ DOMAIN tree.files \subseteq listing
           /\ tree.files = [f \in DOMAIN tree.files |-> disk[SkillFile(place, f)]]
    BY <1>2, <1>3, <1>4 DEF CalmInv, TreeIsRead
  <2>2. tree'.files = tree.files /\ tree'.left = listing /\ tree'.place = place
    BY <1>5
  <2>3. DOMAIN tree'.files \union tree'.left = listing
    BY <2>1, <2>2
  <2>4. tree'.files = [f \in DOMAIN tree'.files |-> disk'[SkillFile(place, f)]]
    BY <1>1, <2>1, <2>2
  <2>5. (DOMAIN tree.files \union tree.left = Listing(tree.place))'
    BY <1>6, <2>2, <2>3
  <2>6. (tree.files = [f \in DOMAIN tree.files |-> disk[SkillFile(tree.place, f)]])'
    BY <2>2, <2>4 DEF SkillFile
  <2> QED
    BY <2>5, <2>6 DEF TreeIsRead
<1> QED
  BY <1>1, <1>2, <1>7, FreshStays, TodoIsThereStays, CalmReads

LEMMA ReadSkillFileCalm ==
    ASSUME Inv, CalmInv, ReadSkillFile, Still
    PROVE  CalmInv'
<1> DEFINE next == IF "SKILL.md" \in tree.left THEN "SKILL.md" ELSE CHOOSE f \in tree.left : TRUE
<1>1. UNCHANGED <<scene, disk, faults, edited, file>>
  BY DEF Still
<1>2. Here /\ pc = "collect" /\ tree # None /\ tree.left # None /\ tree.left # {}
  BY DEF ReadSkillFile, Listed, Here
<1>3. PICK f : f = next /\ f \in tree.left
  BY <1>2
<1> HIDE DEF next
<1>4. PICK place : place = tree.place
  OBVIOUS
<1> DEFINE text == disk[SkillFile(place, f)]
           read == [tree EXCEPT !.left = @ \ {f},
                    !.files = [g \in DOMAIN @ \union {f} |-> IF g = f THEN text ELSE @[g]]]
           Fine == There(SkillFile(place, f)) /\ (IsText(f) => Scannable(text))
<1>5. IF Fine THEN tree' = read /\ UNCHANGED <<pc, pass, row, todo, fresh, found>> ELSE Fail
  BY <1>3, <1>4 DEF ReadSkillFile, next
<1>6. /\ TheLook \in LooksOf(scene.from) /\ TheLook.how = "skills" /\ place \in todo
      /\ scene.from \in Platforms /\ scene.from # None
  BY <1>2, <1>4, HereFits, TreeFields DEF CalmInv, PassIsGiven
<1>7. Waits(TheLook, pass, place)
  BY <1>2, <1>6, HereWaits
<1>8. ASSUME edited = {}
      PROVE  /\ DOMAIN tree.files \union tree.left = Listing(place)
             /\ tree.files = [g \in DOMAIN tree.files |-> disk[SkillFile(place, g)]]
  BY <1>2, <1>4, <1>8 DEF CalmInv, TreeIsRead
<1>9. CASE Fine
  <2>1. tree' = read /\ UNCHANGED <<pc, pass, row, todo, fresh, found>>
    BY <1>5, <1>9
  <2>2. TreeIsRead'
    <3> SUFFICES ASSUME edited = {}
                 PROVE  TreeIsRead'
      BY <1>1 DEF TreeIsRead
    <3> DEFINE files == [g \in DOMAIN tree.files \union {f} |->
                            IF g = f THEN text ELSE tree.files[g]]
               rest == tree.left \ {f}
    <3>1. tree' = [tree EXCEPT !.left = rest, !.files = files]
      BY <2>1
    <3>2. /\ DOMAIN files = DOMAIN tree.files \union {f}
          /\ files = [g \in DOMAIN files |-> disk[SkillFile(place, g)]]
      BY <1>8
    <3>3. DOMAIN files \union rest = Listing(place)
      BY <1>3, <1>8
    <3> HIDE DEF files, rest
    <3>4. tree' = [place |-> place, files |-> files, left |-> rest]
      BY <1>2, <1>4, <3>1, TreeFields
    <3>5. (DOMAIN tree.files \union tree.left = Listing(tree.place))'
      BY <1>1, <3>3, <3>4, ListingStays
    <3>6. (tree.files = [g \in DOMAIN tree.files |-> disk[SkillFile(tree.place, g)]])'
      BY <1>1, <3>2, <3>4 DEF SkillFile
    <3> QED
      BY <3>5, <3>6 DEF TreeIsRead
  <2> QED
    BY <1>1, <1>2, <2>1, <2>2, FreshStays, TodoIsThereStays, CalmReads
<1>10. CASE ~Fine
  <2>1. Fail
    BY <1>5, <1>10
  <2>2. ASSUME faults = 0 PROVE Reason
    <3>1. edited = {}
      BY <2>2 DEF CalmInv, EditsAreFaults
    <3>2. PICK p \in Inside(place.root, place.at) : f = Last(p.at)
      BY <1>3, <1>8, <3>1 DEF Listing
    <3>3. /\ p = SkillFile(place, f) /\ Finds(TheLook, p.at) /\ IsPath(p.at)
          /\ There(p)
      BY <1>6, <1>7, <3>2, BelowSkill DEF There
    <3>4. IsText(Last(p.at)) /\ ~Scannable(disk[p])
      BY <1>10, <3>2, <3>3
    <3>5. ~ReadAs({"json", "toml"}, p) /\ ~ReadAs({"text", "markdown"}, p)
      BY <1>2, <1>6, <3>3, ReadHere
    <3>6. ~Accepted(p, disk[p])
      BY <3>4, <3>5 DEF Accepted, Scannable
    <3> QED
      BY <2>2, <3>3, <3>6, NotAccepted
  <2> QED
    BY <1>1, <2>1, <2>2, CalmFails
<1> QED
  BY <1>9, <1>10

LEMMA LeaveSkillCalm ==
    ASSUME Inv, CalmInv, LeaveSkill, Still
    PROVE  CalmInv'
<1> DEFINE a == TreeAsset(TheLook, tree.place.at, tree.files)
<1>1. UNCHANGED <<scene, disk, faults, edited, file>>
  BY DEF Still
<1>2. /\ Here /\ pc = "collect" /\ tree # None /\ tree.left = {} /\ tree.left # None
      /\ fresh' = fresh \union {a} /\ tree' = None /\ Done(tree.place)
      /\ UNCHANGED <<pc, pass, found>>
  BY DEF LeaveSkill, Listed, Here
<1>3. /\ TheLook \in LooksOf(scene.from) /\ TheLook.how = "skills" /\ tree.place \in todo
  BY <1>2, HereFits, TreeFields
<1>4. Waits(TheLook, pass, tree.place)
  BY <1>2, <1>3, HereWaits
<1>5. edited = {} => Sourced(pass, a)
  <2> SUFFICES ASSUME edited = {}
               PROVE  Sourced(pass, a)
    OBVIOUS
  <2>1. tree.files = TreeAt(tree.place)
    <3>1. CASE tree.files = <<>> /\ tree.left = None
      BY <1>2, <3>1
    <3>2. CASE ~(tree.files = <<>> /\ tree.left = None)
      <4>1. /\ DOMAIN tree.files = Listing(tree.place)
            /\ tree.files = [f \in DOMAIN tree.files |-> disk[SkillFile(tree.place, f)]]
        BY <1>2, <3>2 DEF CalmInv, TreeIsRead
      <4> QED
        BY <4>1 DEF TreeAt
    <3> QED
      BY <3>1, <3>2
  <2>2. Makes(TheLook, pass, tree.place, a)
    BY <1>3, <1>4, <2>1 DEF Makes
  <2> QED
    BY <1>3, <2>2 DEF Sourced
<1> HIDE DEF a
<1>6. FreshIsSourced'
  BY <1>1, <1>2, <1>5, MoreSourced
<1>7. TreeIsRead'
  BY <1>2 DEF TreeIsRead
<1> QED
  BY <1>1, <1>2, <1>6, <1>7, DoneTodoThere, CalmReads

\* A label belongs to one workspace.
LEMMA OneLabel ==
    ASSUME scene \in Scenes, ValidSources, NEW k \in DOMAIN scene.sources,
           NEW l \in DOMAIN scene.sources, scene.sources[k].label = scene.sources[l].label
    PROVE  k = l
<1>1. CASE Explicit
  <2>1. Labels = [i \in DOMAIN scene.sources |-> scene.sources[i].label]
    BY <1>1 DEF Labels
  <2>2. \A i, j \in DOMAIN Labels : Labels[i] = Labels[j] => i = j
    BY DEF ValidSources, ValidDescriptors
  <2> HIDE DEF ValidSources
  <2>3. Labels[k] = Labels[l] /\ k \in DOMAIN Labels /\ l \in DOMAIN Labels
    BY <2>1
  <2> QED
    BY <2>2, <2>3
<1>2. CASE ~Explicit
  <2>1. DOMAIN scene.sources = 1..1
    BY <1>2, SourcesAreGiven DEF Explicit
  <2> QED
    BY <2>1
<1> QED
  BY <1>1, <1>2

LEMMA LabelledFields ==
    ASSUME scene.from \in Platforms, NEW k, NEW b, Sourced(k, b), NEW a, a = Labelled(k, b)
    PROVE  /\ b.workspace = None /\ b.scope \in {"user", "workspace"}
           /\ a = [platform |-> b.platform, kind |-> b.kind, scope |-> b.scope,
                   title |-> b.title, locator |-> b.locator, payload |-> b.payload,
                   source |-> b.source, sensitivity |-> b.sensitivity,
                   workspace |-> IF b.scope = "workspace" THEN scene.sources[k].label ELSE None]
<1>1. PICK look, place : look \in LooksOf(scene.from) /\ Makes(look, k, place, b)
  BY DEF Sourced
<1>2. look \in KnownLooks
  BY <1>1, LooksKnown
<1>3. /\ b.scope = ScopeOf(look.root) /\ b.workspace = None
      /\ b = [platform |-> b.platform, kind |-> b.kind, scope |-> b.scope,
              title |-> b.title, locator |-> b.locator, payload |-> b.payload,
              source |-> b.source, sensitivity |-> b.sensitivity, workspace |-> b.workspace]
  BY <1>1, <1>2, MadeFields
<1>4. b.scope \in {"user", "workspace"}
  BY <1>3 DEF ScopeOf
<1> DEFINE label == scene.sources[k].label
<1> HIDE DEF label
<1>5. Labelled(k, b) = IF b.scope = "workspace" THEN [b EXCEPT !.workspace = label] ELSE b
  BY DEF Labelled, label
<1>6. CASE b.scope = "workspace"
  BY <1>3, <1>4, <1>5, <1>6 DEF label
<1>7. CASE b.scope # "workspace"
  BY <1>3, <1>4, <1>5, <1>7
<1> QED
  BY <1>6, <1>7

\* An asset of the user, or of a workspace, has one source.
LEMMA OneSource ==
    ASSUME scene \in Scenes, scene.from \in Platforms, ValidSources,
           \A p \in DOMAIN disk : disk[p] = None \/ IsContent(disk[p]),
           NEW k \in DOMAIN scene.sources, NEW l \in DOMAIN scene.sources,
           NEW c, NEW d, Sourced(k, c), Sourced(l, d),
           NEW a, NEW b, a = Labelled(k, c), b = Labelled(l, d),
           a.kind = b.kind, a.scope = b.scope, a.locator = b.locator,
           a.scope = "user" \/ a.workspace = b.workspace
    PROVE  a = b
<1>1. /\ c.kind = d.kind /\ c.scope = d.scope /\ c.locator = d.locator
      /\ c.scope \in {"user", "workspace"} /\ a.scope = c.scope
      /\ c.scope = "workspace" => /\ a.workspace = scene.sources[k].label
                                 /\ b.workspace = scene.sources[l].label
  BY LabelledFields
<1>2. c.scope = "user" \/ k = l
  BY <1>1, OneLabel
<1>3. PICK look, place : look \in LooksOf(scene.from) /\ Makes(look, k, place, c)
  BY DEF Sourced
<1>4. PICK other, that : other \in LooksOf(scene.from) /\ Makes(other, l, that, d)
  BY DEF Sourced
<1>5. c = d
  BY <1>1, <1>2, <1>3, <1>4, OneAsset
<1> QED
  BY <1>1, <1>2, <1>5 DEF Labelled

LEMMA EndPassTodo ==
    ASSUME Inv, EndPass
    PROVE  todo = {}
<1>1. row > Len(Collector(scene.from)) /\ pc = "collect"
  BY DEF EndPass
<1>2. scene.from \in Platforms /\ row \in Nat
  BY <1>1 DEF Inv, FilesAreKnown
<1>3. Len(Collector(scene.from)) \in Nat
  BY <1>2, LooksAreKnown, LenProperties
<1> QED
  BY <1>1, <1>2, <1>3 DEF Inv, TodoFits

LEMMA EndPassCalm ==
    ASSUME Inv, CalmInv, EndPass, Still
    PROVE  CalmInv'
<1> DEFINE all == found \union {WithWorkspace(a) : a \in fresh}
<1>1. UNCHANGED <<scene, disk, faults, edited, file>>
  BY DEF Still
<1>2. /\ pc = "collect" /\ scene.from # None /\ scene.from \in Platforms /\ scene \in Scenes
      /\ ValidSources /\ pass \in DOMAIN scene.sources
      /\ \A p \in DOMAIN disk : disk[p] = None \/ IsContent(disk[p])
  BY DEF EndPass, CalmInv, PassIsGiven, Inv, FilesAreKnown
<1>3. ASSUME edited = {}, NEW a \in all
      PROVE  \E k \in DOMAIN scene.sources : \E b : Sourced(k, b) /\ a = Labelled(k, b)
  <2>1. CASE a \in found
    BY <1>2, <1>3, <2>1 DEF CalmInv, FoundIsSourced
  <2>2. CASE a \notin found
    <3>1. PICK b \in fresh : a = WithWorkspace(b)
      BY <1>3, <2>2
    <3>2. Sourced(pass, b) /\ a = Labelled(pass, b)
      BY <1>3, <3>1 DEF CalmInv, FreshIsSourced, WithWorkspace, Labelled
    <3> QED
      BY <1>2, <3>2
  <2> QED
    BY <2>1, <2>2
<1>4. CASE Collide(all)
  <2>1. Fail
    BY <1>4 DEF EndPass
  <2>2. edited # {}
    <3> SUFFICES ASSUME edited = {} PROVE FALSE
      OBVIOUS
    <3>1. PICK a \in all, b \in all : AssetId(a) = AssetId(b) /\ a # b
      BY <1>4 DEF Collide
    <3>2. /\ a.kind = b.kind /\ a.scope = b.scope /\ a.locator = b.locator
          /\ a.workspace = b.workspace
      BY <3>1 DEF AssetId
    <3>3. PICK k, c : k \in DOMAIN scene.sources /\ Sourced(k, c) /\ a = Labelled(k, c)
      BY <1>3
    <3>4. PICK l, d : l \in DOMAIN scene.sources /\ Sourced(l, d) /\ b = Labelled(l, d)
      BY <1>3
    <3>5. a = b
      BY <1>2, <3>2, <3>3, <3>4, OneSource
    <3> QED
      BY <3>1, <3>5
  <2>3. faults # 0
    BY <2>2 DEF CalmInv, EditsAreFaults
  <2> QED
    BY <1>1, <2>1, <2>3, CalmFails
<1>5. CASE ~Collide(all)
  <2>1. /\ found' = all /\ fresh' = {} /\ row' = 1 /\ UNCHANGED <<todo, tree>>
        /\ \/ LastPass /\ pc' = "package" /\ pass' = 1
           \/ ~LastPass /\ pc' = pc /\ pass' = pass + 1
    BY <1>5 DEF EndPass
  <2> HIDE DEF all
  <2>2. FreshIsSourced'
    BY <2>1 DEF FreshIsSourced
  <2>3. FoundIsSourced'
    BY <1>1, <1>3, <2>1, SourcedStays DEF FoundIsSourced
  <2>4. HandoffIsAlone'
    BY <1>1, <1>2 DEF HandoffIsAlone
  <2>5. pass' \in DOMAIN scene'.sources
    BY <1>1, <1>2, <2>1, SourcesAreGiven DEF LastPass
  <2>6. PassIsGiven'
    BY <1>1, <1>2, <2>1, <2>5, ReasonStays DEF PassIsGiven
  <2>7. TodoIsThere'
    <3>1. todo = {}
      BY EndPassTodo
    <3> QED
      BY <2>1, <3>1 DEF TodoIsThere
  <2>8. TreeIsRead'
    BY <1>1, <2>1, TreeStays
  <2>9. EditsAreFaults' /\ FileIsWhole' /\ CleanExports'
    BY <1>1, <1>2, <2>1, FilesStay DEF CalmInv, FileIsWhole, CleanExports
  <2> QED
    BY <2>2, <2>3, <2>4, <2>6, <2>7, <2>8, <2>9 DEF CalmInv
<1> QED
  BY <1>4, <1>5

-----------------------------------------------------------------------------
(* Packaging what was collected *)

\* A text is redacted, and classified by the marks that stay, unless the redaction
\* leaves a credential.
LEMMA TextIsValid ==
    ASSUME NEW text, IsContent(text), "residue" \notin text.marks,
           NEW a, a.sensitivity = Sensitivity(text.marks)
    PROVE  /\ ValidObject(a, Redact(text))
           /\ Redact(text).marks \subseteq text.marks \union {"redacted"}
<1>1. text = [text |-> text.text, marks |-> text.marks, servers |-> text.servers]
  BY DEF IsContent
<1> DEFINE marks == (text.marks \ {"secret", "residue"}) \union {"redacted"}
                    \union IF "residue" \in text.marks THEN {"secret"} ELSE {}
           redacted == [text EXCEPT !.marks = marks]
<1>2. redacted.marks = marks
  BY <1>1
<1>3. CASE "secret" \in text.marks
  <2>1. Redact(text) = redacted
    BY <1>3 DEF Redact
  <2> HIDE DEF redacted
  <2> QED
    BY <1>2, <2>1 DEF ValidObject, Sensitivity
<1>4. CASE "secret" \notin text.marks
  BY <1>4 DEF Redact, ValidObject, Sensitivity
<1> QED
  BY <1>3, <1>4

\* Of a file that is not text by its name the scanner only says what it is.
LEMMA SkillIsValid ==
    ASSUME NEW files, \A f \in DOMAIN files : IsContent(files[f]), NEW a,
           a.sensitivity = Sensitivity(UNION {files[f].marks : f \in DOMAIN files}
                              \union {"binary" : f \in DataFiles \intersect DOMAIN files}),
           NEW f \in DOMAIN files,
           IsText(f) => "residue" \notin files[f].marks,
           ~IsText(f) => ("secret" \in files[f].marks => "binary" \in files[f].marks)
    PROVE  ValidObject(a, Keep(f, files[f]))
<1> DEFINE marks == UNION {files[g].marks : g \in DOMAIN files}
                    \union {"binary" : g \in DataFiles \intersect DOMAIN files}
<1>1. files[f].marks \subseteq marks
  OBVIOUS
<1>2. a.sensitivity = Sensitivity(marks)
  OBVIOUS
<1> HIDE DEF marks
<1>3. files[f].marks \intersect {"active", "binary"} # {} => a.sensitivity = "quarantined"
  BY <1>1, <1>2 DEF Sensitivity
<1>4. CASE IsText(f)
  <2> DEFINE b == [sensitivity |-> Sensitivity(files[f].marks)]
  <2>1. ValidObject(b, Redact(files[f]))
    <3>1. b.sensitivity = Sensitivity(files[f].marks)
      OBVIOUS
    <3> HIDE DEF b
    <3> QED
      BY <1>4, <3>1, TextIsValid
  <2>2. Redact(files[f]).marks \intersect {"active", "binary"} # {} =>
            files[f].marks \intersect {"active", "binary"} # {}
    BY <2>1 DEF ValidObject, Sensitivity
  <2>3. "secret" \in Redact(files[f]).marks => "binary" \in Redact(files[f]).marks
    BY <2>1 DEF ValidObject
  <2> QED
    BY <1>3, <1>4, <2>2, <2>3 DEF ValidObject, Keep
<1>5. CASE ~IsText(f)
  BY <1>3, <1>5 DEF ValidObject, Keep
<1> QED
  BY <1>4, <1>5

\* What was read where the user edits nothing is packaged, or he can see why not.
LEMMA SourcedIsValid ==
    ASSUME Inv, CalmInv, faults = 0, scene.from \in Platforms, scene.from # None, ~Reason,
           NEW k, NEW b, Sourced(k, b), NEW a, a = Labelled(k, b)
    PROVE  ValidAsset(a)
<1>1. /\ disk = scene.disk /\ DOMAIN disk = DOMAIN scene.disk
      /\ \A p \in DOMAIN disk : disk[p] = None \/ IsContent(disk[p])
  BY DEF CalmInv, EditsAreFaults, Inv, FilesAreKnown
<1>2. PICK look, place : look \in LooksOf(scene.from) /\ Makes(look, k, place, b)
  BY DEF Sourced
<1>3. look \in KnownLooks /\ look.how \in Hows /\ Fitting(look)
  BY <1>2, LooksKnown, KnownPath
<1>4. b.kind = look.kind /\ Waits(look, k, place) /\ Finds(look, place.at) /\ IsPath(place.at)
  <2>1. b.kind = look.kind
    BY <1>2, <1>3, MadeFields
  <2> QED
    BY <1>2, <2>1 DEF Makes, Waits
<1>5. /\ a.kind = b.kind /\ a.title = b.title /\ a.payload = b.payload
      /\ a.sensitivity = b.sensitivity
  BY LabelledFields
<1>6. ASSUME NEW p, There(p)
      PROVE  Accepted(p, disk[p])
  BY <1>1, <1>6 DEF Reason, There
<1>7. CASE look.how \in {"text", "markdown"}
  <2>1. b = TextAsset(look, place.at, disk[place])
    BY <1>2, <1>7 DEF Makes
  <2>2. b.payload = Redact(disk[place]) /\ b.sensitivity = Sensitivity(disk[place].marks)
    BY <2>1 DEF TextAsset, Asset
  <2>3. b.kind \in TextKinds
    BY <1>3, <1>4, <1>7 DEF Fitting
  <2>4. IsContent(disk[place])
    BY <1>1, <1>2, <1>7 DEF Makes, There
  <2>5. disk[place].marks \intersect {"binary", "residue", "spanning"} = {}
    <3>1. There(place)
      BY <1>2, <1>7 DEF Makes
    <3>2. \A other \in LooksOf(scene.from) : Finds(other, place.at) => other.how = look.how
      BY <1>2, <1>4, FoundAlike
    <3>3. ReadAs({"text", "markdown"}, place) /\ ~ReadAs({"json", "toml"}, place)
      BY <1>2, <1>4, <1>7, <3>2 DEF ReadAs, LooksOf, Range
    <3> QED
      BY <1>6, <3>1, <3>3 DEF Accepted
  <2>6. /\ ValidObject(a, Redact(disk[place]))
        /\ Redact(disk[place]).marks \subseteq disk[place].marks \union {"redacted"}
    BY <1>5, <2>2, <2>4, <2>5, TextIsValid
  <2>7. "spanning" \notin Redact(disk[place]).marks
    BY <2>5, <2>6
  <2> QED
    BY <1>5, <2>2, <2>3, <2>6, <2>7 DEF ValidAsset, Blobs, SecretPayload, TextKinds
<1>8. CASE look.how \in {"json", "toml"}
  <2>1. There(place) /\ disk[place].servers # None
    BY <1>2, <1>8 DEF Makes
  <2>2. PICK s \in disk[place].servers : b = ServerAsset(look, disk[place], s)
    BY <1>2, <1>8 DEF Makes
  <2>3. ReadAs({"json", "toml"}, place)
    BY <1>2, <1>4, <1>8 DEF ReadAs, LooksOf, Range
  <2>4. Portable(s)
    BY <1>6, <2>1, <2>2, <2>3 DEF Accepted
  <2>5. b.title = s.name /\ b.payload = s
    BY <2>2 DEF ServerAsset, Asset
  <2>6. a.kind = "mcp"
    BY <1>3, <1>4, <1>5, <1>8 DEF Fitting
  <2> QED
    BY <1>5, <2>4, <2>5, <2>6 DEF ValidAsset, Blobs, SecretPayload, Portable
<1>9. CASE look.how = "skills"
  <2> DEFINE files == TreeAt(place)
  <2>1. b = TreeAsset(look, place.at, files)
    BY <1>2, <1>9 DEF Makes
  <2>2. DOMAIN files = Listing(place)
    BY DEF TreeAt
  <2>3. ASSUME NEW f \in DOMAIN files
        PROVE  /\ IsContent(files[f]) /\ f \notin SecretNames
               /\ IsText(f) => "residue" \notin files[f].marks
               /\ ~IsText(f) => ("secret" \in files[f].marks => "binary" \in files[f].marks)
    <3>1. PICK p \in Inside(place.root, place.at) : f = Last(p.at)
      BY <2>2, <2>3 DEF Listing
    <3>2. /\ p = SkillFile(place, f) /\ Finds(look, p.at) /\ IsPath(p.at)
          /\ There(p)
      BY <1>2, <1>4, <1>9, <3>1, BelowSkill DEF There
    <3>3. files[f] = disk[p] /\ IsContent(disk[p])
      BY <1>1, <2>2, <3>2 DEF TreeAt, There
    <3>4. \A other \in LooksOf(scene.from) : Finds(other, p.at) => other.how = "skills"
      BY <1>2, <1>9, <3>2, FoundAlike
    <3>5. ~ReadAs({"json", "toml"}, p) /\ ~ReadAs({"text", "markdown"}, p)
      BY <3>4 DEF ReadAs, LooksOf, Range
    <3>6. Accepted(p, disk[p])
      BY <1>6, <3>2
    <3> QED
      BY <3>1, <3>3, <3>5, <3>6 DEF Accepted
  <2> HIDE DEF files
  <2> DEFINE kept == [f \in DOMAIN files |-> Keep(f, files[f])]
  <2>4. /\ b.payload = kept
        /\ b.sensitivity = Sensitivity(UNION {files[f].marks : f \in DOMAIN files}
                              \union {"binary" : f \in DataFiles \intersect DOMAIN files})
    BY <2>1 DEF TreeAsset, Asset
  <2>5. a.kind = "skill"
    BY <1>3, <1>4, <1>5, <1>9 DEF Fitting
  <2>6. \A f \in DOMAIN files : ValidObject(a, Keep(f, files[f]))
    BY <1>5, <2>3, <2>4, SkillIsValid
  <2>7. Blobs(a) = {kept[f] : f \in DOMAIN kept}
    BY <1>5, <2>4, <2>5 DEF Blobs
  <2>8. ~SecretPayload(a)
    BY <1>5, <2>3, <2>4, <2>5 DEF SecretPayload
  <2> QED
    BY <2>5, <2>6, <2>7, <2>8 DEF ValidAsset
<1> QED
  BY <1>3, <1>7, <1>8, <1>9 DEF Hows

LEMMA SourcedIsReferred ==
    ASSUME scene \in Scenes, scene.from \in Platforms, NEW k \in DOMAIN scene.sources,
           NEW b, Sourced(k, b), NEW a, a = Labelled(k, b)
    PROVE  ValidReference(a, LabelSet)
<1>1. /\ a.scope \in {"user", "workspace"}
      /\ a.workspace = IF a.scope = "workspace" THEN scene.sources[k].label ELSE None
  BY LabelledFields
<1>2. CASE Explicit
  <2>1. scene.sources[k].label \in LabelSet
    BY <1>2 DEF LabelSet, Labels
  <2> QED
    BY <1>1, <2>1 DEF ValidReference
<1>3. CASE ~Explicit
  <2>1. LabelSet = {}
    BY <1>3 DEF LabelSet, Labels
  <2>2. DOMAIN scene.sources = 1..1
    BY <1>3, SourcesAreGiven DEF Explicit
  <2>3. scene.sources[k].label = None
    BY <1>3, <2>2 DEF Explicit
  <2> QED
    BY <1>1, <2>1, <2>3 DEF ValidReference
<1> QED
  BY <1>2, <1>3

LEMMA CollectedIsPackable ==
    ASSUME Inv, CalmInv, pc = "package", faults = 0, ~Reason
    PROVE  Packable(Bundles(found, LabelSet), Labels)
<1> DEFINE b == Bundles(found, LabelSet)
<1>1. b.assets = found /\ b.workspaces = LabelSet
  BY DEF Bundles
<1> HIDE DEF b
<1>2. scene \in Scenes /\ edited = {}
  BY DEF Inv, FilesAreKnown, CalmInv, EditsAreFaults
<1>3. ValidDescriptors(Labels)
  BY DEF Reason, ValidSources
<1>4. CASE scene.from = None
  <2>1. LabelSet = {}
    <3>1. ~Explicit
      BY <1>2, <1>4, SourcesAreGiven DEF Explicit
    <3> QED
      BY <3>1 DEF LabelSet, Labels
  <2>2. ASSUME NEW a \in found
        PROVE  ValidReference(a, LabelSet) /\ ValidAsset(a)
    <3>1. IsHandoff(a)
      BY <1>4, <2>2 DEF CalmInv, HandoffIsAlone
    <3>2. ~Capsule.secret
      BY <1>4 DEF Reason
    <3> QED
      BY <2>1, <3>1, <3>2 DEF IsHandoff, ValidReference, ValidAsset, SecretPayload, Blobs
  <2> QED
    BY <1>1, <1>3, <2>2 DEF Packable, b
<1>5. CASE scene.from # None
  <2>1. scene.from \in Platforms
    BY <1>2, <1>5, ScenesAreKnown
  <2>2. ASSUME NEW a \in found
        PROVE  ValidReference(a, LabelSet) /\ ValidAsset(a)
    <3>1. PICK k, c : k \in DOMAIN scene.sources /\ Sourced(k, c) /\ a = Labelled(k, c)
      BY <1>2, <1>5, <2>2 DEF CalmInv, FoundIsSourced
    <3> QED
      BY <1>2, <1>5, <2>1, <3>1, SourcedIsReferred, SourcedIsValid
  <2> QED
    BY <1>1, <1>3, <2>2 DEF Packable, b
<1> QED
  BY <1>4, <1>5

LEMMA PublishCalm ==
    ASSUME CalmInv, NEW b, NEW objects, NEW features, NEW key, pc = "package",
           Publish(b, objects, features, key), UNCHANGED <<scene, disk, edited, file>>,
           faults' \in {faults, faults + 1}
    PROVE  CalmInv'
<1>1. pc' = "create" /\ found' = {} /\ UNCHANGED <<pass, row, todo, tree, fresh>>
  BY DEF Publish
<1>2. TodoIsThere' /\ TreeIsRead' /\ FreshIsSourced' /\ EditsAreFaults'
  BY <1>1, TodoIsThereStays, TreeStays, FreshStays, FilesStay
<1>3. FoundIsSourced' /\ HandoffIsAlone'
  BY <1>1 DEF FoundIsSourced, HandoffIsAlone
<1>4. PassIsGiven' /\ CleanExports'
  BY <1>1 DEF CalmInv, PassIsGiven, CleanExports
<1>5. FileIsWhole'
  BY <1>1 DEF CalmInv, FileIsWhole, EditsAreFaults
<1> QED
  BY <1>2, <1>3, <1>4, <1>5 DEF CalmInv

LEMMA PackageAssetsCalm ==
    ASSUME Inv, CalmInv, PackageAssets
    PROVE  CalmInv'
<1> DEFINE b == Bundles(found, LabelSet)
<1>1. pc = "package" /\ UNCHANGED <<scene, disk, faults, edited, file>>
  BY DEF PackageAssets
<1>2. CASE Packable(b, Labels)
  <2>1. Publish(b, Pack(b), Features(b), DeviceKey)
    BY <1>2 DEF PackageAssets
  <2> HIDE DEF b
  <2> QED
    BY <1>1, <2>1, PublishCalm
<1>3. CASE ~Packable(b, Labels)
  <2>1. Fail
    BY <1>3 DEF PackageAssets
  <2>2. faults = 0 => Reason
    BY <1>1, <1>3, CollectedIsPackable
  <2> QED
    BY <1>1, <2>1, <2>2, CalmFails
<1> QED
  BY <1>2, <1>3

LEMMA OtherVersionCalm ==
    ASSUME Inv, CalmInv, OtherVersion
    PROVE  CalmInv'
<1>1. pc = "package" /\ UNCHANGED <<scene, disk, edited, file>> /\ faults' = faults + 1
  BY DEF OtherVersion
<1>2. PICK objects, features : Publish(Unpacked(objects), objects, features, OtherKey)
  BY DEF OtherVersion
<1> QED
  BY <1>1, <1>2, PublishCalm

LEMMA ExportCalm ==
    ASSUME Inv, CalmInv, Export
    PROVE  CalmInv'
<1>1. /\ pc = "start" /\ scene.from # None
      /\ UNCHANGED <<scene, disk, faults, edited, file>>
  BY DEF Export, sending
<1>2. CASE ValidSources
  <2>1. pc' = "collect" /\ UNCHANGED reading
    BY <1>2 DEF Export
  <2>2. ReadingStays
    BY <1>1, <2>1, CalmReading
  <2>3. PassIsGiven'
    BY <1>1, <1>2, <2>1, <2>2, ReasonStays DEF PassIsGiven, ReadingStays
  <2>4. FileIsWhole' /\ CleanExports'
    BY <1>1, <2>1 DEF CalmInv, FileIsWhole, CleanExports
  <2> QED
    BY <2>2, <2>3, <2>4 DEF CalmInv, ReadingStays
<1>3. CASE ~ValidSources
  <2>1. Fail /\ Reason
    BY <1>3 DEF Export, Reason
  <2> QED
    BY <1>1, <2>1, CalmFails
<1> QED
  BY <1>2, <1>3

LEMMA HandoffCalm ==
    ASSUME Inv, CalmInv, Handoff
    PROVE  CalmInv'
<1>1. /\ pc = "start" /\ scene.from = None /\ pc' = "package"
      /\ UNCHANGED <<scene, disk, pass, row, todo, tree, fresh, faults, edited, file>>
  BY DEF Handoff, sending
<1>2. TodoIsThere' /\ TreeIsRead' /\ FreshIsSourced' /\ EditsAreFaults'
  BY <1>1, TodoIsThereStays, TreeStays, FreshStays, FilesStay
<1>3. FoundIsSourced'
  BY <1>1 DEF FoundIsSourced
<1>4. HandoffIsAlone'
  BY DEF Handoff, HandoffIsAlone, IsHandoff
<1>5. PassIsGiven'
  BY <1>1 DEF CalmInv, PassIsGiven
<1>6. FileIsWhole' /\ CleanExports'
  BY <1>1 DEF CalmInv, FileIsWhole, CleanExports
<1> QED
  BY <1>2, <1>3, <1>4, <1>5, <1>6 DEF CalmInv

LEMMA CollectingCalm ==
    ASSUME Inv, CalmInv, Collecting
    PROVE  CalmInv'
<1>1. Still /\ Extract
  BY DEF Collecting, Extract, Still, sending
<1> QED
  BY <1>1, LookAroundCalm, ListSkillCalm, ReadSkillFileCalm, LeaveSkillCalm, EndPassCalm,
     ReadTextCalm, ReadJsonCalm, ReadTomlCalm, EnterSkillCalm DEF Extract

LEMMA CreateCalm ==
    ASSUME Inv, CalmInv, Create
    PROVE  CalmInv'
<1>1. pc = "create" /\ UNCHANGED <<scene, disk, faults, edited>>
  BY DEF Create
<1>2. CASE file = None
  <2>1. pc' = "write" /\ UNCHANGED reading
    BY <1>2 DEF Create
  <2>2. FileIsWhole'
    BY <2>1 DEF FileIsWhole
  <2> QED
    BY <1>1, <2>1, <2>2, CalmLater
<1>3. CASE file # None
  <2>1. Fail /\ faults # 0
    BY <1>1, <1>3 DEF Create, CalmInv, FileIsWhole
  <2> QED
    BY <1>1, <2>1, CalmFails
<1> QED
  BY <1>2, <1>3

LEMMA WriteAllCalm ==
    ASSUME Inv, CalmInv, WriteAll
    PROVE  CalmInv'
<1>1. /\ pc = "write" /\ file' = Seal(signed, scene.wrap) /\ pc' = "sent"
      /\ UNCHANGED <<scene, disk, reading, faults, edited>>
  BY DEF WriteAll
<1>2. file' # Torn
  BY <1>1, TornIsNotSealed
<1>3. FileIsWhole'
  BY <1>1, <1>2 DEF FileIsWhole
<1> QED
  BY <1>1, <1>3, CalmLater

LEMMA WriteErrorCalm ==
    ASSUME Inv, CalmInv, WriteError
    PROVE  CalmInv'
<1>1. /\ pc' = "sent" /\ faults' = faults + 1 /\ UNCHANGED <<scene, disk, reading, edited>>
  BY DEF WriteError
<1>2. FileIsWhole'
  BY <1>1 DEF FileIsWhole, CalmInv, EditsAreFaults
<1> QED
  BY <1>1, <1>2, CalmLater

LEMMA AgainCalm ==
    ASSUME Inv, CalmInv, Again
    PROVE  CalmInv'
<1>1. /\ pc = "sent" /\ file = Torn /\ pc' = "start"
      /\ UNCHANGED <<scene, disk, reading, faults, edited>>
  BY DEF Again
<1>2. FileIsWhole'
  BY <1>1 DEF FileIsWhole, CalmInv
<1> QED
  BY <1>1, <1>2, CalmLater

LEMMA DamageCalm ==
    ASSUME Inv, CalmInv, Damage
    PROVE  CalmInv'
<1>1. /\ pc = "sent" /\ pc' = "sent" /\ faults' = faults + 1
      /\ UNCHANGED <<scene, disk, reading, edited>>
  BY DEF Damage
<1>2. FileIsWhole'
  BY <1>1 DEF FileIsWhole, CalmInv, EditsAreFaults
<1> QED
  BY <1>1, <1>2, CalmLater

LEMMA EditCalm ==
    ASSUME Inv, CalmInv, NEW e \in scene.edits, Edit(e.place, e.content),
           UNCHANGED <<sending, receiving>>
    PROVE  CalmInv'
<1>1. /\ pc = "collect" /\ faults' = faults + 1 /\ edited' # {}
      /\ UNCHANGED <<scene, pc, reading>>
  BY DEF Edit
<1>2. UNCHANGED <<pass, row, todo, tree, fresh, found>>
  BY <1>1 DEF reading
<1>3. faults' \in Nat /\ faults' # 0
  BY <1>1 DEF CalmInv, EditsAreFaults
<1>4. TodoIsThere' /\ TreeIsRead' /\ FreshIsSourced' /\ FoundIsSourced' /\ EditsAreFaults'
      /\ FileIsWhole' /\ CleanExports'
  BY <1>1, <1>3 DEF TodoIsThere, TreeIsRead, FreshIsSourced, FoundIsSourced, EditsAreFaults,
     FileIsWhole, CleanExports
<1>5. HandoffIsAlone' /\ PassIsGiven'
  BY <1>1, <1>2, ReasonStays DEF CalmInv, HandoffIsAlone, IsHandoff, PassIsGiven
<1> QED
  BY <1>4, <1>5 DEF CalmInv

\* Plan changes nothing of the sender.
LEMMA ReceivingCalm ==
    ASSUME CalmInv, UNCHANGED <<scene, disk, reading, faults, edited>>, pc' \in {"map", "render", "end"}
    PROVE  CalmInv'
<1>1. FileIsWhole'
  BY DEF FileIsWhole
<1> QED
  BY <1>1, CalmLater

LEMMA StutterCalm ==
    ASSUME CalmInv, UNCHANGED vars
    PROVE  CalmInv'
<1>1. UNCHANGED <<scene, disk, pc, reading, faults, edited, file>>
  BY DEF vars, collectVars, sending
<1>2. ReadingStays
  BY <1>1, CalmReading
<1>3. PassIsGiven'
  BY <1>1, <1>2, ReasonStays DEF CalmInv, PassIsGiven, ReadingStays
<1>4. FileIsWhole' /\ CleanExports'
  <2>1. Reason' <=> Reason
    BY <1>1, ReasonStays
  <2> QED
    BY <1>1, <2>1 DEF CalmInv, FileIsWhole, CleanExports, Reason
<1> QED
  BY <1>2, <1>3, <1>4 DEF CalmInv, ReadingStays

LEMMA NextCalm == Inv /\ CalmInv /\ [Next]_vars => CalmInv'
<1> SUFFICES ASSUME Inv, CalmInv, [Next]_vars PROVE CalmInv'
  OBVIOUS
<1>1. CASE Export
  BY <1>1, ExportCalm
<1>2. CASE Handoff
  BY <1>2, HandoffCalm
<1>3. CASE Collecting
  BY <1>3, CollectingCalm
<1>4. CASE PackageAssets
  BY <1>4, PackageAssetsCalm
<1>5. CASE OtherVersion
  BY <1>5, OtherVersionCalm
<1>6. CASE Create
  BY <1>6, CreateCalm
<1>7. CASE WriteAll
  BY <1>7, WriteAllCalm
<1>8. CASE WriteError
  BY <1>8, WriteErrorCalm
<1>9. CASE Again
  BY <1>9, AgainCalm
<1>10. CASE Damage
  BY <1>10, DamageCalm
<1>11. ASSUME NEW e \in scene.edits, Edit(e.place, e.content), UNCHANGED <<sending, receiving>>
       PROVE  CalmInv'
  BY <1>11, EditCalm
<1>12. ASSUME NEW keys \in {{}, {scene.wrap}}, Open(keys)
       PROVE  CalmInv'
  BY <1>12, ReceivingCalm DEF Open
<1>13. ASSUME NEW to \in scene.targets, NEW m \in Maps, ResolveMap(to, m)
       PROVE  CalmInv'
  BY <1>13, ReceivingCalm DEF ResolveMap
<1>14. ASSUME NEW a \in left, RenderAsset(a)
       PROVE  CalmInv'
  BY <1>14, ReceivingCalm DEF RenderAsset
<1>15. CASE FinishPlan
  BY <1>15, ReceivingCalm DEF FinishPlan
<1>16. CASE UNCHANGED vars
  BY <1>16, StutterCalm
<1> QED
  BY <1>1, <1>2, <1>3, <1>4, <1>5, <1>6, <1>7, <1>8, <1>9, <1>10, <1>11, <1>12, <1>13,
     <1>14, <1>15, <1>16 DEF Next

LEMMA AlwaysCalm == Spec => []CalmInv
  BY InitCalm, AlwaysInv, NextCalm, PTL DEF Spec

LEMMA CalmFindsOnce == Inv /\ CalmInv => OncePerSource
<1> SUFFICES ASSUME Inv, CalmInv, pc = "package", NEW a \in found, NEW b \in found
             PROVE  /\ AssetId(a) = AssetId(b) => a = b
                    /\ /\ edited = {}
                       /\ <<a.kind, a.scope, a.locator>> = <<b.kind, b.scope, b.locator>>
                       /\ a.scope = "user" \/ a.workspace = b.workspace
                       => a = b
  BY DEF OncePerSource
<1>1. AssetId(a) = AssetId(b) => a = b
  BY DEF Inv, AssetsAreKnown, Collide
<1>2. ASSUME edited = {}, <<a.kind, a.scope, a.locator>> = <<b.kind, b.scope, b.locator>>,
             a.scope = "user" \/ a.workspace = b.workspace
      PROVE  a = b
  <2>1. CASE scene.from = None
    BY <2>1 DEF CalmInv, HandoffIsAlone
  <2>2. CASE scene.from # None
    <3>1. /\ scene \in Scenes /\ scene.from \in Platforms /\ ValidSources
          /\ \A p \in DOMAIN disk : disk[p] = None \/ IsContent(disk[p])
      BY <2>2, ScenesAreKnown DEF Inv, FilesAreKnown, CalmInv, PassIsGiven
    <3>2. PICK k, c : k \in DOMAIN scene.sources /\ Sourced(k, c) /\ a = Labelled(k, c)
      BY <1>2, <2>2 DEF CalmInv, FoundIsSourced
    <3>3. PICK l, d : l \in DOMAIN scene.sources /\ Sourced(l, d) /\ b = Labelled(l, d)
      BY <1>2, <2>2 DEF CalmInv, FoundIsSourced
    <3> QED
      BY <1>2, <3>1, <3>2, <3>3, OneSource
  <2> QED
    BY <2>1, <2>2
<1> QED
  BY <1>1, <1>2

-----------------------------------------------------------------------------
(* What the exchange promises *)

(***************************************************************************)
(* Whatever records are lost, doubled or changed on the way, and whichever *)
(* version signed: the bundle that plan and inspect read is one that was   *)
(* packaged and signed by the signer they report.  verify_package accepts  *)
(* no signature but over the manifest it has, and the manifest fixes every *)
(* object.                                                                 *)
(***************************************************************************)
THEOREM WhatIsOpenedWasPublished == Spec => []OpenedIsPublished
<1>1. Inv => OpenedIsPublished
  BY DEF Inv
<1> QED
  BY <1>1, AlwaysInv, PTL

(***************************************************************************)
(* A package that this version signed and that nothing damaged opens with  *)
(* its key, below the limits of verify: nothing that the collectors read   *)
(* and package_assets_with_workspaces accepts is refused by                *)
(* verify_package or unpack_bundle.                                        *)
(***************************************************************************)
THEOREM UndamagedPackagesOpen == Spec => []UndamagedOpens
<1>1. Inv => UndamagedOpens
  BY DEF Inv
<1> QED
  BY <1>1, AlwaysInv, PTL

(***************************************************************************)
(* No text that runs, is not text or scans as a credential, and no server  *)
(* with a secret, gets into the plan of prepare_migration, whatever        *)
(* another version of the program put in the package and however it        *)
(* classified it; of a capsule only a secret is refused.  What the scanner *)
(* finds and nobody reviews, an e-mail address, and what it does not see,  *)
(* the body of a private key, are planned.                                 *)
(***************************************************************************)
THEOREM CredentialsAndCodeAreHeldBack == Spec => []CredentialsAndCodeHeldBack
<1>1. Inv => CredentialsAndCodeHeldBack
  BY DEF Inv, PlannedIsReviewed, CredentialsAndCodeHeldBack
<1> QED
  BY <1>1, AlwaysInv, PTL

(***************************************************************************)
(* When plan has rendered the bundle, an asset it does not report is whole *)
(* at its target, in whichever order the assets came: every file of it has *)
(* its content and its server is in the document, although assets share    *)
(* files.  And what the adapter of the one product collected, the adapter  *)
(* of the other renders where its own collector finds it as what it is,    *)
(* but for what Found names.                                               *)
(***************************************************************************)
THEOREM WhatIsNotReportedArrives == Spec => []AssetsArrive
<1>1. Inv => AssetsArrive
  <2> SUFFICES ASSUME Inv, Finished, NEW a \in opened.bundle.assets \ skipped
               PROVE  Found(a) /\ Whole(a)
    BY DEF AssetsArrive
  <2>1. target \in Platforms /\ WellFormed(a) /\ left = {}
    BY DEF Inv, BundleIsValid, Finished, Valid
  <2>2. Render(target, a) # Manual /\ Whole(a)
    BY <2>1 DEF Inv, RenderedArrives
  <2>3. Located(a) /\ a.kind \in Kinds
    BY <2>1 DEF WellFormed
  <2>4. CASE a.kind = "handoff" \/ (a.kind = "mcp" /\ a.scope = "user" /\ target = "cursor")
    BY <2>2, <2>4 DEF Found
  <2>5. CASE a.kind # "handoff" /\ ~(a.kind = "mcp" /\ a.scope = "user" /\ target = "cursor")
    <3>1. Reads(target, KindAt(target, a.kind), Render(target, a))
      BY <2>1, <2>2, <2>3, <2>5, RenderedIsFound
    <3> QED
      BY <2>2, <3>1 DEF Found
  <2> QED
    BY <2>4, <2>5
<1> QED
  BY <1>1, AlwaysInv, PTL

(***************************************************************************)
(* extract_workspaces gives one asset of every source: the user's files,   *)
(* which every pass reads again, become one asset each, and those of the   *)
(* workspaces get their own, as long as nobody edits meanwhile.  When the  *)
(* user edits between two passes, both versions have ids of their own, or  *)
(* export refuses: no asset takes the place of another.                    *)
(***************************************************************************)
THEOREM AssetsHaveOneSource == Spec => []OncePerSource
  BY CalmFindsOnce, AlwaysInv, AlwaysCalm, PTL

(***************************************************************************)
(* An export that nobody disturbs fails only over the command line, a      *)
(* capsule with a secret, or a file that Accepted names: one that a        *)
(* collector refuses, or one that a collector takes and                    *)
(* package_assets_with_workspaces refuses, because its redacted text, the  *)
(* JSON form of its text or its name in a Skill scans as a credential.     *)
(* All else that the collectors read is packaged, and the passes over      *)
(* several workspaces never collide.                                       *)
(***************************************************************************)
THEOREM ExportsFailForAReason == Spec => []CleanExports
<1>1. CalmInv => CleanExports
  BY DEF CalmInv
<1> QED
  BY <1>1, AlwaysCalm, PTL

=============================================================================

------------------------- MODULE SigningIdentityProofs -------------------------
(***************************************************************************)
(* SigningIdentity for any number of processes, keys, errors and power     *)
(* losses: a key that was handed out is the key of the file.               *)
(***************************************************************************)
EXTENDS SigningIdentity, TLAPS

-----------------------------------------------------------------------------
(* The inductive invariant *)

Writing == {"created", "written", "synced"}

\* Whoever left "idle" holds a seed until it is handed out or given up.
SeedDrawn == \A p \in Procs : pc[p] # "idle" => seed[p] \in Keys

\* create_new lets one process write the file.
OneWriter == \A p, q \in Procs : pc[p] \in Writing /\ pc[q] \in Writing => p = q

\* What the file holds is known at every step of its writer.
WriterKnows ==
    \A p \in Procs :
        /\ pc[p] = "created" => content = Torn
        /\ pc[p] \in {"written", "synced"} => content = seed[p]
        /\ pc[p] = "synced" => contentSynced
        /\ pc[p] = "exists" => content # None

\* A key that was not read early survives every power loss.
HandedIsSynced == handed \ early # {} => Synced

Inv ==
    /\ TypeOK /\ SeedDrawn /\ OneWriter /\ WriterKnows
    /\ HandedIsSynced /\ HandedKeysLast

-----------------------------------------------------------------------------
(* Types *)

LEMMA NoneApart == None \notin Keys /\ Torn \notin Keys /\ None # Torn
  BY NoneIsNoKey

LEMMA HandTypes ==
    ASSUME TypeOK, NEW p \in Procs, NEW k \in Keys, Hand(p, k)
    PROVE  /\ pc' \in [Procs -> PC] /\ seed' \in [Procs -> Keys \union {None}]
           /\ result' \in [Procs -> Keys \union {None, "err"}]
           /\ handed' \subseteq Keys
  BY DEF TypeOK, Hand, Goto, PC

LEMMA RefuseTypes ==
    ASSUME TypeOK, NEW p \in Procs, Refuse(p)
    PROVE  /\ pc' \in [Procs -> PC] /\ seed' \in [Procs -> Keys \union {None}]
           /\ result' \in [Procs -> Keys \union {None, "err"}]
           /\ handed' \subseteq Keys
  BY DEF TypeOK, Refuse, Goto, PC

\* What a file with a key in it gives, and what a torn one gives.
LEMMA ParseCases ==
    ASSUME TypeOK, NEW p \in Procs, Parse(p), content # None
    PROVE  \/ content = Torn /\ Refuse(p) /\ UNCHANGED early
           \/ /\ content \in Keys /\ Hand(p, content)
              /\ early' = IF Synced THEN early ELSE early \union {content}
  BY DEF TypeOK, Parse

LEMMA ParseTypes ==
    ASSUME TypeOK, NEW p \in Procs, Parse(p), content # None, UNCHANGED <<fileVars, boundVars>>
    PROVE  TypeOK'
<1>1. CASE content = Torn /\ Refuse(p) /\ UNCHANGED early
  BY <1>1, RefuseTypes DEF TypeOK, Refuse, fileVars, boundVars
<1>2. CASE /\ content \in Keys /\ Hand(p, content)
           /\ early' = IF Synced THEN early ELSE early \union {content}
  BY <1>2, HandTypes DEF TypeOK, Hand, fileVars, boundVars
<1> QED
  BY <1>1, <1>2, ParseCases

LEMMA StepTypes ==
    ASSUME Inv, NEW p \in Procs, Step(p)
    PROVE  TypeOK'
<1> USE DEF Inv
<1>1. CASE Load(p)
  <2>1. CASE content = None
    BY <1>1, <2>1 DEF Load, TypeOK, Goto, PC, fileVars, boundVars, keyVars
  <2>2. CASE content # None
    BY <1>1, <2>2, ParseTypes DEF Load
  <2> QED
    BY <2>1, <2>2
<1>2. CASE Create(p)
  BY <1>2 DEF Create, TypeOK, Goto, PC, boundVars, keyVars
<1>3. CASE Reread(p)
  BY <1>3, ParseTypes DEF Reread, WriterKnows
<1>4. CASE WriteSeed(p)
  BY <1>4 DEF WriteSeed, SeedDrawn, TypeOK, Goto, PC, boundVars, keyVars
<1>5. CASE SyncFile(p)
  BY <1>5 DEF SyncFile, TypeOK, Goto, PC, boundVars, keyVars
<1>6. CASE SyncDirectory(p)
  <2>1. seed[p] \in Keys /\ content = seed[p]
    BY <1>6 DEF SyncDirectory, SeedDrawn, WriterKnows
  <2> QED
    BY <1>6, <2>1, HandTypes DEF SyncDirectory, Hand, TypeOK, boundVars
<1> QED
  BY <1>1, <1>2, <1>3, <1>4, <1>5, <1>6 DEF Step

LEMMA FailTypes ==
    ASSUME TypeOK, NEW p \in Procs, Fail(p)
    PROVE  TypeOK'
<1>1. /\ pc' \in [Procs -> PC] /\ seed' \in [Procs -> Keys \union {None}]
      /\ result' \in [Procs -> Keys \union {None, "err"}]
  BY RefuseTypes DEF Fail
<1>2. faults' \in Nat /\ UNCHANGED <<fileVars, handed, early, power>>
  BY DEF Fail, Refuse, TypeOK
<1> QED
  BY <1>1, <1>2 DEF TypeOK, fileVars

LEMMA PowerLossTypes ==
    ASSUME TypeOK, PowerLoss
    PROVE  TypeOK'
  BY DEF PowerLoss, TypeOK, PC, keyVars

-----------------------------------------------------------------------------
(* The writer *)

\* A process that ends its load is no writer any more and holds no seed.
LEMMA EndedSeeds ==
    ASSUME TypeOK, SeedDrawn, NEW p \in Procs, pc' = [pc EXCEPT ![p] = "idle"],
           seed' = [seed EXCEPT ![p] = None]
    PROVE  SeedDrawn'
  BY DEF TypeOK, SeedDrawn

LEMMA EndedWriters ==
    ASSUME TypeOK, OneWriter, WriterKnows, NEW p \in Procs, pc' = [pc EXCEPT ![p] = "idle"],
           seed' = [seed EXCEPT ![p] = None], content' = content, contentSynced' = contentSynced
    PROVE  OneWriter' /\ WriterKnows'
  BY DEF TypeOK, OneWriter, WriterKnows, Writing

LEMMA EndsLoad ==
    ASSUME NEW p, \/ Refuse(p) \/ \E k : Hand(p, k)
    PROVE  pc' = [pc EXCEPT ![p] = "idle"] /\ seed' = [seed EXCEPT ![p] = None]
  BY DEF Refuse, Hand, Goto

LEMMA ParseEnds ==
    ASSUME NEW p, Parse(p)
    PROVE  pc' = [pc EXCEPT ![p] = "idle"] /\ seed' = [seed EXCEPT ![p] = None]
  BY EndsLoad DEF Parse

LEMMA StepSeeds ==
    ASSUME Inv, NEW p \in Procs, Step(p)
    PROVE  SeedDrawn'
<1> USE DEF Inv
<1>1. CASE Load(p)
  <2>1. CASE content = None
    BY <1>1, <2>1 DEF Load, Goto, TypeOK, SeedDrawn
  <2>2. CASE content # None
    BY <1>1, <2>2, ParseEnds, EndedSeeds DEF Load
  <2> QED
    BY <2>1, <2>2
<1>2. CASE Create(p)
  BY <1>2 DEF Create, Goto, TypeOK, SeedDrawn
<1>3. CASE Reread(p)
  BY <1>3, ParseEnds, EndedSeeds DEF Reread
<1>4. CASE WriteSeed(p)
  BY <1>4 DEF WriteSeed, Goto, TypeOK, SeedDrawn
<1>5. CASE SyncFile(p)
  BY <1>5 DEF SyncFile, Goto, TypeOK, SeedDrawn
<1>6. CASE SyncDirectory(p)
  BY <1>6, EndsLoad, EndedSeeds DEF SyncDirectory
<1> QED
  BY <1>1, <1>2, <1>3, <1>4, <1>5, <1>6 DEF Step

\* create_new finds no file while another process writes it.
LEMMA StepWriters ==
    ASSUME Inv, NEW p \in Procs, Step(p)
    PROVE  OneWriter' /\ WriterKnows'
<1> USE NoneApart DEF Inv
<1>1. CASE Load(p)
  <2>1. CASE content = None
    BY <1>1, <2>1 DEF Load, Goto, TypeOK, OneWriter, WriterKnows, Writing, fileVars
  <2>2. CASE content # None
    BY <1>1, <2>2, ParseEnds, EndedWriters DEF Load, fileVars
  <2> QED
    BY <2>1, <2>2
<1>2. CASE Create(p)
  <2>1. CASE content = None
    <3>1. \A q \in Procs : pc[q] \notin Writing
      BY <2>1 DEF WriterKnows, SeedDrawn, Writing
    <3>2. \A q \in Procs : pc'[q] \in Writing => q = p
      BY <1>2, <2>1, <3>1 DEF Create, Goto, TypeOK
    <3>3. content' = Torn /\ pc'[p] = "created" /\ \A q \in Procs \ {p} : pc'[q] = pc[q]
      BY <1>2, <2>1 DEF Create, Goto, TypeOK
    <3> QED
      BY <3>2, <3>3 DEF OneWriter, WriterKnows, Writing
  <2>2. CASE content # None
    BY <1>2, <2>2 DEF Create, Goto, TypeOK, OneWriter, WriterKnows, Writing
  <2> QED
    BY <2>1, <2>2
<1>3. CASE Reread(p)
  BY <1>3, ParseEnds, EndedWriters DEF Reread, fileVars
<1>4. CASE WriteSeed(p)
  <2>1. \A q \in Procs : pc[q] \in Writing => q = p
    BY <1>4 DEF WriteSeed, OneWriter, Writing
  <2>2. content' \in Keys /\ content' = seed'[p] /\ pc'[p] = "written"
    BY <1>4 DEF WriteSeed, Goto, TypeOK, SeedDrawn
  <2>3. \A q \in Procs \ {p} : pc'[q] = pc[q]
    BY <1>4 DEF WriteSeed, Goto, TypeOK
  <2> QED
    BY <2>1, <2>2, <2>3 DEF OneWriter, WriterKnows, Writing
<1>5. CASE SyncFile(p)
  BY <1>5 DEF SyncFile, Goto, TypeOK, OneWriter, WriterKnows, Writing
<1>6. CASE SyncDirectory(p)
  BY <1>6, EndsLoad, EndedWriters DEF SyncDirectory
<1> QED
  BY <1>1, <1>2, <1>3, <1>4, <1>5, <1>6 DEF Step

-----------------------------------------------------------------------------
(* The keys that were handed out *)

Kept == HandedIsSynced /\ HandedKeysLast

\* As long as the file holds no key, all handed keys were read early.
LEMMA NoneHanded ==
    ASSUME Inv, content \notin Keys
    PROVE  handed \ early = {} /\ (power = 0 => handed = {})
  BY DEF Inv, TypeOK, HandedKeysLast

LEMMA ParseKeeps ==
    ASSUME Inv, NEW p \in Procs, Parse(p), content # None, UNCHANGED <<fileVars, boundVars>>
    PROVE  Kept'
<1>1. CASE content = Torn /\ Refuse(p) /\ UNCHANGED early
  BY <1>1 DEF Refuse, Inv, Kept, HandedIsSynced, HandedKeysLast, Synced, fileVars, boundVars
<1>2. CASE /\ content \in Keys /\ Hand(p, content)
           /\ early' = IF Synced THEN early ELSE early \union {content}
  <2>1. /\ handed' = handed \union {content} /\ content' = content /\ power' = power
        /\ Synced' = Synced
    BY <1>2 DEF Hand, fileVars, boundVars, Synced
  <2>2. handed' \ early' \subseteq {content} /\ (handed' \ early' # {} => Synced)
    BY <1>2, <2>1 DEF Inv, HandedIsSynced, HandedKeysLast
  <2> QED
    BY <2>1, <2>2 DEF Inv, Kept, HandedIsSynced, HandedKeysLast
<1> QED
  BY <1>1, <1>2, ParseCases DEF Inv

LEMMA StepKeeps ==
    ASSUME Inv, NEW p \in Procs, Step(p)
    PROVE  Kept'
<1> USE DEF Kept, HandedIsSynced, HandedKeysLast, fileVars, boundVars, keyVars
<1>1. CASE Load(p)
  <2>1. CASE content = None
    BY <1>1, <2>1 DEF Load, Inv, Synced
  <2>2. CASE content # None
    BY <1>1, <2>2, ParseKeeps DEF Load
  <2> QED
    BY <2>1, <2>2
<1>2. CASE Create(p)
  <2>1. CASE content = None
    BY <1>2, <2>1, NoneHanded, NoneApart DEF Create
  <2>2. CASE content # None
    BY <1>2, <2>2 DEF Create, Inv, Synced
  <2> QED
    BY <2>1, <2>2
<1>3. CASE Reread(p)
  BY <1>3, ParseKeeps DEF Reread, Inv, WriterKnows
<1>4. CASE WriteSeed(p)
  <2>1. content = Torn
    BY <1>4 DEF WriteSeed, Inv, WriterKnows
  <2> QED
    BY <1>4, <2>1, NoneHanded, NoneApart DEF WriteSeed
<1>5. CASE SyncFile(p)
  BY <1>5 DEF SyncFile, Inv, Synced
<1>6. CASE SyncDirectory(p)
  <2>1. content' = content /\ seed[p] = content /\ contentSynced' /\ entrySynced'
    BY <1>6 DEF SyncDirectory, Inv, WriterKnows
  <2>2. handed' = handed \union {content} /\ early' = early \ {content} /\ power' = power
    BY <1>6, <2>1 DEF SyncDirectory, Hand
  <2> QED
    BY <2>1, <2>2 DEF Inv, Synced
<1> QED
  BY <1>1, <1>2, <1>3, <1>4, <1>5, <1>6 DEF Step

LEMMA FailKeeps ==
    ASSUME Inv, NEW p \in Procs, Fail(p)
    PROVE  Inv'
<1>1. TypeOK' /\ SeedDrawn'
  BY FailTypes, EndsLoad, EndedSeeds DEF Fail, Inv
<1>2. OneWriter' /\ WriterKnows'
  BY EndsLoad, EndedWriters DEF Fail, Inv, fileVars
<1>3. HandedIsSynced' /\ HandedKeysLast'
  BY DEF Fail, Refuse, Inv, HandedIsSynced, HandedKeysLast, Synced, fileVars
<1> QED
  BY <1>1, <1>2, <1>3 DEF Inv

\* A file whose content and entry were synced survives as it is.
LEMMA PowerLossKeeps ==
    ASSUME Inv, PowerLoss
    PROVE  Inv'
<1>1. TypeOK'
  BY PowerLossTypes DEF Inv
<1>2. SeedDrawn' /\ OneWriter' /\ WriterKnows'
  BY DEF PowerLoss, SeedDrawn, OneWriter, WriterKnows, Writing
<1>3. handed' = handed /\ early' = early /\ power' # 0
  BY DEF PowerLoss, keyVars, Inv, TypeOK
<1>4. ASSUME handed \ early # {} PROVE content' = content /\ Synced'
  <2>1. Synced /\ content \in Keys
    BY <1>4, NoneHanded DEF Inv, HandedIsSynced
  <2> QED
    BY <2>1, NoneApart DEF PowerLoss, Survives, Synced
<1>5. HandedIsSynced' /\ HandedKeysLast'
  BY <1>3, <1>4 DEF Inv, HandedIsSynced, HandedKeysLast
<1> QED
  BY <1>1, <1>2, <1>5 DEF Inv

-----------------------------------------------------------------------------
LEMMA InitHolds ==
    ASSUME Init
    PROVE  Inv
  BY DEF Init, Inv, TypeOK, PC, SeedDrawn, OneWriter, WriterKnows, Writing,
         HandedIsSynced, HandedKeysLast

LEMMA NextHolds ==
    ASSUME Inv, [Next]_vars
    PROVE  Inv'
<1>1. ASSUME NEW p \in Procs, Step(p) PROVE Inv'
  BY <1>1, StepTypes, StepSeeds, StepWriters, StepKeeps DEF Inv, Kept
<1>2. ASSUME NEW p \in Procs, Fail(p) PROVE Inv'
  BY <1>2, FailKeeps
<1>3. CASE PowerLoss
  BY <1>3, PowerLossKeeps
<1>4. CASE UNCHANGED vars
  BY <1>4 DEF vars, fileVars, keyVars, boundVars, Inv, TypeOK, SeedDrawn, OneWriter,
       WriterKnows, HandedIsSynced, HandedKeysLast, Synced
<1> QED
  BY <1>1, <1>2, <1>3, <1>4 DEF Next

LEMMA Invariant == Spec => []Inv
<1>1. Init => Inv
  BY InitHolds
<1>2. Inv /\ [Next]_vars => Inv'
  BY NextHolds
<1> QED
  BY <1>1, <1>2, PTL DEF Spec

(***************************************************************************)
(* The variables of load_or_create_signing_key stay in their types; in     *)
(* particular no load ever hands out what is not a whole seed.             *)
(***************************************************************************)
THEOREM TypeCorrect == Spec => []TypeOK
<1>1. Inv => TypeOK
  BY DEF Inv
<1> QED
  BY <1>1, Invariant, PTL

(***************************************************************************)
(* Whatever number of first commands race, fail or crash: a key that was   *)
(* handed out is the one the file holds, and only a power loss takes one   *)
(* away that was read before its creator had synced it.                    *)
(***************************************************************************)
THEOREM HandedKeysStay == Spec => []HandedKeysLast
<1>1. Inv => HandedKeysLast
  BY DEF Inv
<1> QED
  BY <1>1, Invariant, PTL
=============================================================================

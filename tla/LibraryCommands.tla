-------------------------- MODULE LibraryCommands --------------------------
(***************************************************************************)
(* The desktop commands on the catalogue, the settings and the prepared    *)
(* plans (native_runtime.rs), each on a thread of its own, lock by lock.   *)
(* A lock that is taken and released within a step is not represented; the *)
(* catalogue's and the settings' locks, which some commands hold while     *)
(* they wait for another, are.  The catalogue, the settings and the import *)
(* manifest are reduced to versions.                                       *)
(***************************************************************************)
EXTENDS PreparedPlans, FiniteSets, TLAPS

CONSTANTS
  Commands,   \* the commands that may be issued
  MaxCalls    \* bound on the commands issued

ASSUME MaxCallsIsNat == MaxCalls \in Nat
ASSUME CommandsAreKnown ==
  Commands \subseteq {"patch", "start", "prepare", "like", "reload", "import",
                      "search", "detail", "viewport"}

Calls  == 1..MaxCalls   \* in the order in which they are issued
NoCall == 0

VARIABLES
  call,        \* where each command is, and what it has read
  catalog,     \* generation, and the version of the imports it was made from
  imports,     \* version of the library manifest
  settings,    \* version of what a plan is made from
  liked,       \* version of the liked songs
  analysis,    \* the analysis cached for the song: {} or {the settings it was made with}
  catalogLock, \* the call that holds the lock
  settingsLock,
  coherence,   \* the lock of playback.start and settings.patch
  playing      \* the plan that was started last: {} or {plan}

data  == <<catalog, imports, settings, liked, analysis, prepared, playing>>
locks == <<catalogLock, settingsLock, coherence>>
vars  == <<call, data, locks>>

\* gen: the request's generation; set: a snapshot of the settings; comp: a
\* composition of the catalogue.
Having(op, pc, gen) == [op |-> op, pc |-> pc, gen |-> gen, set |-> 0, comp |-> 0]
NotYet == Having("none", "none", 0)

\* Just opened, or with the catalogue loaded by an earlier search.
Init ==
  /\ call = [c \in Calls |-> NotYet]
  /\ catalog \in [generation : {0, 1}, comp : {0}]
  /\ imports = 0 /\ settings = 0 /\ liked = 0
  /\ analysis = {} /\ prepared = <<>> /\ playing = {}
  /\ catalogLock = NoCall /\ settingsLock = NoCall /\ coherence = NoCall

At(c, pc)      == call[c].pc = pc
Goes(c, pc)    == call' = [call EXCEPT ![c].pc = pc]
Returns(c)     == call' = [call EXCEPT ![c] = Having(call[c].op, "over", 0)]
Free(lock)     == lock = NoCall
Current(c)     == call[c].gen = catalog.generation   \* check_generation

\* A command arrives; the user interface knows the generation it last saw.
First(op) ==
  CASE op \in {"patch", "start"} -> "cohere"
    [] op = "reload" -> "compose"
    [] op \in {"search", "viewport"} -> "ensure"
    [] OTHER -> op

Issue(c) ==
  /\ At(c, "none") /\ (c > 1 => ~At(c - 1, "none"))
  /\ \E op \in Commands :
       /\ op \in {"prepare", "like", "detail", "viewport"} => catalog.generation > 0
       /\ call' = [call EXCEPT ![c] = Having(op, First(op), catalog.generation)]
  /\ UNCHANGED <<data, locks>>

(***************************************************************************)
(* settings.patch and playback.start, which exclude each other.            *)
(***************************************************************************)
\* A plausible bug: start does not take part in the exclusion.
BugCohere(c) ==
  /\ At(c, "cohere") /\ (call[c].op = "start" \/ Free(coherence))
  /\ coherence' = IF call[c].op = "start" THEN coherence ELSE c
  /\ Goes(c, call[c].op)
  /\ UNCHANGED <<data, catalogLock, settingsLock>>

Cohere(c) ==
  /\ At(c, "cohere") /\ Free(coherence)
  /\ coherence' = c
  /\ Goes(c, call[c].op)
  /\ UNCHANGED <<data, catalogLock, settingsLock>>

Patch(c) ==
  /\ At(c, "patch") /\ Free(settingsLock)
  /\ settingsLock' = c
  /\ settings' = settings + 1
  /\ Goes(c, "patched")
  /\ UNCHANGED <<catalog, imports, liked, analysis, prepared, playing, catalogLock, coherence>>

\* invalidate_settings, then invalidate_analysis_cache, the settings still locked.
PatchInvalidates(c) ==
  /\ \/ At(c, "patched") /\ InvalidatePlans /\ Goes(c, "cleared") /\ UNCHANGED <<analysis, settingsLock, coherence>>
     \/ /\ At(c, "cleared")
        /\ analysis' = {} /\ settingsLock' = NoCall /\ coherence' = NoCall
        /\ Returns(c)
        /\ UNCHANGED prepared
  /\ UNCHANGED <<catalog, imports, settings, liked, playing, catalogLock>>

\* settings_snapshot, then NativePlaybackService::start with it: a plan that
\* is there and has the fingerprint of the snapshot is consumed.
StartReads(c) ==
  /\ At(c, "start") /\ Free(settingsLock)
  /\ call' = [call EXCEPT ![c].set = settings, ![c].pc = "consume"]
  /\ UNCHANGED <<data, locks>>

Fits(plan, set) == plan.settings = set

StartConsumes(c) ==
  /\ At(c, "consume")
  /\ \/ \E i \in DOMAIN prepared :
          /\ Fits(prepared[i], call[c].set)
          /\ RemovePlan(i)
          /\ playing' = {prepared[i]}
     \/ UNCHANGED <<prepared, playing>>
  /\ coherence' = IF coherence = c THEN NoCall ELSE coherence
  /\ Returns(c)
  /\ UNCHANGED <<catalog, imports, settings, liked, analysis, catalogLock, settingsLock>>

(***************************************************************************)
(* prepare_playback: the catalogue stays locked to the end.                *)
(***************************************************************************)
PrepareFinds(c) ==
  /\ At(c, "prepare") /\ Free(catalogLock)
  /\ \/ Current(c) /\ catalogLock' = c /\ Goes(c, "preparing")
     \/ ~Current(c) /\ Returns(c) /\ UNCHANGED catalogLock
  /\ UNCHANGED <<data, settingsLock, coherence>>

PrepareReads(c) ==
  /\ At(c, "preparing") /\ Free(settingsLock)
  /\ call' = [call EXCEPT ![c].set = settings, ![c].pc = "push"]
  /\ UNCHANGED <<data, locks>>

PreparePushes(c) ==
  /\ At(c, "push")
  /\ PushPlan([generation |-> call[c].gen, settings |-> call[c].set])
  /\ catalogLock' = IF catalogLock = c THEN NoCall ELSE catalogLock
  /\ Returns(c)
  /\ UNCHANGED <<catalog, imports, settings, liked, analysis, playing, settingsLock, coherence>>

(***************************************************************************)
(* set_song_liked: the settings stay locked while the catalogue is counted.*)
(***************************************************************************)
LikeChecks(c) ==
  /\ At(c, "like") /\ Free(catalogLock)
  /\ IF Current(c) THEN Goes(c, "liking") ELSE Returns(c)
  /\ UNCHANGED <<data, locks>>

LikeStores(c) ==
  /\ At(c, "liking") /\ Free(settingsLock)
  /\ settingsLock' = c
  /\ liked' = liked + 1
  /\ Goes(c, "count")
  /\ UNCHANGED <<catalog, imports, settings, analysis, prepared, playing, catalogLock, coherence>>

\* A generation that is stale by now fails the command, the song stays liked.
LikeCounts(c) ==
  /\ At(c, "count") /\ Free(catalogLock)
  /\ settingsLock' = NoCall
  /\ Returns(c)
  /\ UNCHANGED <<data, catalogLock, coherence>>

(***************************************************************************)
(* reload, import_paths, and the first load of the catalogue.              *)
(***************************************************************************)
Import(c) ==
  /\ At(c, "import")
  /\ imports' = imports + 1
  /\ Goes(c, "compose")
  /\ UNCHANGED <<catalog, settings, liked, analysis, prepared, playing, locks>>

\* catalog_composition: the files are read with no lock held.
Compose(c) ==
  /\ At(c, "compose")
  /\ call' = [call EXCEPT ![c].comp = imports, ![c].pc = "install"]
  /\ UNCHANGED <<data, locks>>

Replaced(comp) == catalog' = [generation |-> catalog.generation + 1, comp |-> comp]

ReloadInstalls(c) ==
  /\ At(c, "install") /\ Free(catalogLock)
  /\ Replaced(call[c].comp)
  /\ call' = [call EXCEPT ![c].gen = catalog.generation + 1, ![c].pc = "forget"]
  /\ UNCHANGED <<imports, settings, liked, analysis, prepared, playing, locks>>

\* invalidate_analysis_cache, then invalidate_catalog with the new generation.
ReloadInvalidates(c) ==
  /\ \/ At(c, "forget") /\ analysis' = {} /\ Goes(c, "invalidate") /\ UNCHANGED prepared
     \/ At(c, "invalidate") /\ InvalidateCatalog(call[c].gen) /\ Goes(c, "total") /\ UNCHANGED analysis
  /\ UNCHANGED <<catalog, imports, settings, liked, playing, locks>>

\* primary_catalog_total fails if yet another reload has come in between.
ReloadCounts(c) ==
  /\ At(c, "total") /\ Free(catalogLock)
  /\ Returns(c)
  /\ UNCHANGED <<data, locks>>

Loaded(c) == IF call[c].op = "viewport" THEN "find" ELSE "search"

\* ensure_catalog_loaded, checked again under the lock.
Ensure(c) ==
  /\ At(c, "ensure") /\ Free(catalogLock)
  /\ call' = [call EXCEPT ![c].pc = IF catalog.generation = 0 THEN "load" ELSE Loaded(c), ![c].comp = imports]
  /\ UNCHANGED <<data, locks>>

EnsureLoads(c) ==
  /\ At(c, "load") /\ Free(catalogLock)
  /\ IF catalog.generation = 0 THEN Replaced(call[c].comp) ELSE UNCHANGED catalog
  /\ Goes(c, Loaded(c))
  /\ UNCHANGED <<imports, settings, liked, analysis, prepared, playing, locks>>

SearchReads(c) ==
  /\ At(c, "search") /\ Free(settingsLock)
  /\ Goes(c, "page")
  /\ UNCHANGED <<data, locks>>

SearchPages(c) ==
  /\ At(c, "page") /\ Free(catalogLock)
  /\ settingsLock' = IF settingsLock = c THEN NoCall ELSE settingsLock
  /\ Returns(c)
  /\ UNCHANGED <<data, catalogLock, coherence>>

\* A cached analysis is served; otherwise the settings are read ...
DetailFinds(c) ==
  /\ At(c, "detail") /\ Free(catalogLock)
  /\ IF Current(c) /\ analysis = {} THEN Goes(c, "analyze") ELSE Returns(c)
  /\ UNCHANGED <<data, locks>>

DetailReads(c) ==
  /\ At(c, "analyze") /\ Free(settingsLock)
  /\ call' = [call EXCEPT ![c].set = settings, ![c].pc = "cache"]
  /\ UNCHANGED <<data, locks>>

\* ... and what was analysed with them is cached.
DetailCaches(c) ==
  /\ At(c, "cache")
  /\ analysis' = {call[c].set}
  /\ Returns(c)
  /\ UNCHANGED <<catalog, imports, settings, liked, prepared, playing, locks>>

(***************************************************************************)
(* set_viewport: the rows are found, the settings read, and every song that *)
(* has no analysis by then gets the one made with those settings.          *)
(***************************************************************************)
ViewportFinds(c) ==
  /\ At(c, "find") /\ Free(catalogLock)
  /\ IF Current(c) THEN Goes(c, "hydrate") ELSE Returns(c)
  /\ UNCHANGED <<data, locks>>

ViewportReads(c) ==
  /\ At(c, "hydrate") /\ Free(settingsLock)
  /\ call' = [call EXCEPT ![c].set = settings, ![c].pc = "fill"]
  /\ UNCHANGED <<data, locks>>

ViewportFills(c) ==
  /\ At(c, "fill")
  /\ IF analysis = {} THEN Goes(c, "cache") ELSE Returns(c)
  /\ UNCHANGED <<data, locks>>

(***************************************************************************)
(* The specification: every thread runs on, every lock is granted in turn. *)
(***************************************************************************)
Step(c) ==
  \/ Cohere(c) \/ Patch(c) \/ PatchInvalidates(c) \/ StartReads(c) \/ StartConsumes(c)
  \/ PrepareFinds(c) \/ PrepareReads(c) \/ PreparePushes(c)
  \/ LikeChecks(c) \/ LikeStores(c) \/ LikeCounts(c)
  \/ Import(c) \/ Compose(c) \/ ReloadInstalls(c) \/ ReloadInvalidates(c) \/ ReloadCounts(c)
  \/ Ensure(c) \/ EnsureLoads(c) \/ SearchReads(c) \/ SearchPages(c)
  \/ DetailFinds(c) \/ DetailReads(c) \/ DetailCaches(c)
  \/ ViewportFinds(c) \/ ViewportReads(c) \/ ViewportFills(c)

Next == \E c \in Calls : Issue(c) \/ Step(c)

Spec     == Init /\ [][Next]_vars
FairSpec == Spec /\ \A c \in Calls : SF_vars(Step(c))

(***************************************************************************)
(* Properties.                                                             *)
(***************************************************************************)
\* Every variable has its type, and a lock is held by a command that is
\* between taking and releasing it.
TypeOK ==
  /\ catalog \in [generation : 0..(2 * MaxCalls), comp : 0..MaxCalls]
  /\ imports \in 0..MaxCalls /\ settings \in 0..MaxCalls /\ liked \in 0..MaxCalls
  /\ analysis \in SUBSET (0..MaxCalls) /\ Cardinality(playing) <= 1 /\ Len(prepared) <= MaxPlans
  /\ catalogLock \in Calls <=> \E c \in Calls : call[c].op = "prepare" /\ call[c].pc \in {"preparing", "push"}
  /\ settingsLock \in Calls <=> \E c \in Calls : call[c].pc \in {"patched", "cleared", "count"}
  /\ coherence \in Calls <=> \E c \in Calls : call[c].pc \in {"patch", "patched", "cleared", "start", "consume"}

\* A plan that is started was made from the settings of this moment, whatever
\* patches came while it was prepared, stored and looked up.
StartedPlanIsCurrent ==
  [][\A plan \in playing' \ playing : plan.settings = settings]_playing

\* Apart from a reload that is about to drop them, no plan of an old
\* catalogue is kept, though plans are made while catalogues are replaced.
PlansAreOfTheCatalog ==
  \/ \E c \in Calls : At(c, "forget") \/ At(c, "invalidate")
  \/ \A i \in DOMAIN prepared : prepared[i].generation = catalog.generation

\* A plan that is started, or kept, is of this moment's settings and catalogue
\* (native_runtime.rs start, reload_library).
PlansAreCurrent == StartedPlanIsCurrent /\ []PlansAreOfTheCatalog

Running(c) == call[c].pc \notin {"none", "over"}

\* commands.rs:588: "Tauri may run multiple async commands concurrently."
\* Those that do all return.
ConcurrentCommandsReturn == \A c \in Calls : Running(c) ~> ~Running(c)
-----------------------------------------------------------------------------
(***************************************************************************)
(* PlansAreCurrent for any number of commands.  A plan is pushed with the  *)
(* catalogue still locked, so it is of the current generation; a new one is *)
(* installed only by a reload that goes on to drop the older plans, or when *)
(* there was none and hence no plan.  From the reading of the settings to   *)
(* the consuming of a plan nobody else is in a patch.                       *)
(***************************************************************************)
Plans == [generation : Nat, settings : Nat]

Pcs == {"none", "over", "cohere", "patch", "patched", "cleared", "start", "consume",
        "prepare", "preparing", "push", "like", "liking", "count", "import", "compose",
        "install", "forget", "invalidate", "total", "ensure", "load", "search", "page",
        "find", "hydrate", "fill", "detail", "analyze", "cache"}

CallRecords ==
  [op : Commands \cup {"none"}, pc : Pcs, gen : Nat, set : Nat, comp : Nat]

Types ==
  /\ call \in [Calls -> CallRecords]
  /\ catalog \in [generation : Nat, comp : Nat]
  /\ imports \in Nat /\ settings \in Nat
  /\ prepared \in Seq(Plans)

Preparing == {"preparing", "push"}
Cohering  == {"patch", "patched", "cleared", "start", "consume"}

LockInv ==
  \A c \in Calls :
    /\ call[c].pc = "cohere" => call[c].op \in {"patch", "start"}
    /\ call[c].pc \in Preparing => catalogLock = c
    /\ call[c].pc \in Cohering => coherence = c

\* What a command has read and still rests on.
ReadInv ==
  \A c \in Calls :
    /\ call[c].pc \in Preparing \cup {"prepare"} => call[c].gen > 0
    /\ call[c].pc \in Preparing => call[c].gen = catalog.generation
    /\ call[c].pc = "consume" => call[c].set = settings

WillDrop(c) == call[c].pc \in {"forget", "invalidate"} /\ call[c].gen = catalog.generation

PlanInv ==
  /\ \A i \in DOMAIN prepared : prepared[i].generation \in 1..catalog.generation
  /\ \/ \A i \in DOMAIN prepared : prepared[i].generation = catalog.generation
     \/ \E c \in Calls : WillDrop(c)

LInv == Types /\ LockInv /\ ReadInv /\ PlanInv

\* Only c goes on.
OnlyMoves(c) ==
  /\ call' \in [Calls -> CallRecords]
  /\ \A d \in Calls \ {c} : call'[d] = call[d]

\* A step that touches nothing of what LInv speaks of.
Bystands(c) ==
  /\ OnlyMoves(c)
  /\ call[c].pc \notin {"forget", "invalidate"}
  /\ call'[c].pc \notin Preparing \cup Cohering
  /\ call'[c].pc = "prepare" => call'[c].gen > 0
  /\ call'[c].pc = "cohere" => call'[c].op \in {"patch", "start"}
  /\ imports' \in Nat
  /\ UNCHANGED <<catalog, settings, prepared, playing, catalogLock, coherence>>

\* What Goes, Returns and the reading of a snapshot make of the call.
LEMMA GoesOn ==
  ASSUME Types, NEW c \in Calls, NEW pc \in Pcs, Goes(c, pc)
  PROVE  /\ OnlyMoves(c)
         /\ call'[c].pc = pc /\ call'[c].gen = call[c].gen
         /\ call'[c].set = call[c].set /\ call'[c].op = call[c].op
  BY DEF Types, CallRecords, Goes, OnlyMoves

LEMMA ReturnsOver ==
  ASSUME Types, NEW c \in Calls, Returns(c)
  PROVE  OnlyMoves(c) /\ call'[c].pc = "over"
<1>1. Having(call[c].op, "over", 0) \in CallRecords
  BY DEF Types, CallRecords, Having, Pcs
<1>. QED
  BY <1>1 DEF Returns, Having, Types, OnlyMoves

LEMMA ReadsSettings ==
  ASSUME Types, NEW c \in Calls, NEW pc \in Pcs,
         call' = [call EXCEPT ![c].set = settings, ![c].pc = pc]
  PROVE  /\ OnlyMoves(c)
         /\ call'[c].pc = pc /\ call'[c].gen = call[c].gen
         /\ call'[c].set = settings
  BY DEF Types, CallRecords, OnlyMoves

LEMMA ReadsImports ==
  ASSUME Types, NEW c \in Calls, NEW pc \in Pcs,
         call' = [call EXCEPT ![c].comp = imports, ![c].pc = pc]
  PROVE  OnlyMoves(c) /\ call'[c].pc = pc
  BY DEF Types, CallRecords, OnlyMoves

LEMMA GetsGeneration ==
  ASSUME Types, NEW c \in Calls, NEW pc \in Pcs, NEW gen \in Nat,
         call' = [call EXCEPT ![c].gen = gen, ![c].pc = pc]
  PROVE  OnlyMoves(c) /\ call'[c].pc = pc /\ call'[c].gen = gen
  BY DEF Types, CallRecords, OnlyMoves

\* What stays in the store was in it.
LEMMA Retained ==
  ASSUME Types, NEW kept, kept \subseteq DOMAIN prepared, Retain(kept)
  PROVE  /\ prepared' \in Seq(Plans)
         /\ \A k \in DOMAIN prepared' : \E i \in kept : prepared'[k] = prepared[i]
<1>1. PICK n \in 0..Len(prepared) : \E at \in [1..n -> kept] :
        prepared' = [k \in 1..n |-> prepared[at[k]]]
  BY DEF Retain
<1>2. PICK at \in [1..n -> kept] : prepared' = [k \in 1..n |-> prepared[at[k]]]
  BY <1>1
<1>3. \A k \in 1..n : at[k] \in kept /\ at[k] \in 1..Len(prepared)
  BY <1>2 DEF Types
<1>4. \A k \in 1..n : prepared[at[k]] \in Plans
  BY <1>3 DEF Types
<1>5. n \in Nat
  BY <1>1 DEF Types
<1>. QED
  BY <1>2, <1>3, <1>4, <1>5

LEMMA Pushed ==
  ASSUME Types, NEW plan \in Plans, PushPlan(plan)
  PROVE  /\ prepared' \in Seq(Plans)
         /\ \A k \in DOMAIN prepared' :
              prepared'[k] = plan \/ \E i \in DOMAIN prepared : prepared'[k] = prepared[i]
<1>. DEFINE grown == Append(prepared, plan)
<1>1. /\ grown \in Seq(Plans) /\ Len(grown) = Len(prepared) + 1
      /\ \A k \in 1..Len(grown) :
           grown[k] = plan \/ \E i \in DOMAIN prepared : grown[k] = prepared[i]
  BY DEF Types
<1>2. /\ Tail(grown) \in Seq(Plans) /\ Len(Tail(grown)) = Len(grown) - 1
      /\ \A k \in 1..Len(Tail(grown)) : Tail(grown)[k] = grown[k + 1]
  <2>1. Len(grown) > 0
    BY <1>1 DEF Types
  <2>. HIDE DEF grown
  <2>. QED
    BY <1>1, <2>1
<1>3. prepared' = grown \/ prepared' = Tail(grown)
  BY DEF PushPlan
<1>4. CASE prepared' = grown
  BY <1>1, <1>4
<1>5. CASE prepared' = Tail(grown)
  <2>1. \A k \in 1..Len(Tail(grown)) : k + 1 \in 1..Len(grown)
    BY <1>1, <1>2, Len(prepared) \in Nat DEF Types
  <2>. QED
    BY <1>1, <1>2, <1>5, <2>1
<1>. QED
  BY <1>3, <1>4, <1>5

LEMMA BystandersKeepLInv ==
  ASSUME LInv, NEW c \in Calls, Bystands(c)
  PROVE  LInv'
<1>. USE DEF LInv, Bystands, OnlyMoves, Preparing, Cohering
<1>1. Types'
  BY DEF Types
<1>2. LockInv'
  BY DEF LockInv
<1>3. ReadInv'
  BY DEF ReadInv
<1>4. PlanInv'
  BY DEF PlanInv, WillDrop
<1>. QED
  BY <1>1, <1>2, <1>3, <1>4

LEMMA LInvInit == Init => LInv
<1>. SUFFICES ASSUME Init PROVE LInv
  OBVIOUS
<1>1. \A c \in Calls : call[c] = NotYet
  BY DEF Init
<1>2. Types
  <2>1. NotYet \in CallRecords
    BY DEF NotYet, Having, CallRecords, Pcs
  <2>. QED
    BY <2>1 DEF Init, Types
<1>3. LockInv /\ ReadInv
  BY <1>1 DEF LockInv, ReadInv, NotYet, Having, Preparing, Cohering
<1>4. PlanInv
  BY DEF Init, PlanInv
<1>. QED
  BY <1>2, <1>3, <1>4 DEF LInv

\* The steps that neither hold a lock for long nor replace or drop anything.
Idles(c) ==
  \/ Issue(c)
  \/ PrepareFinds(c) /\ ~Current(c)
  \/ LikeChecks(c) \/ LikeStores(c) \/ LikeCounts(c)
  \/ Import(c) \/ Compose(c) \/ ReloadCounts(c)
  \/ Ensure(c) \/ SearchReads(c) \/ SearchPages(c)
  \/ DetailFinds(c) \/ DetailReads(c) \/ DetailCaches(c)
  \/ ViewportFinds(c) \/ ViewportReads(c) \/ ViewportFills(c)

LEMMA Bystanders ==
  ASSUME LInv, NEW c \in Calls, Idles(c)
  PROVE  Bystands(c)
<1>. USE DEF LInv, At, Pcs, data, locks, Preparing, Cohering
<1>0. Types /\ imports \in Nat /\ imports + 1 \in Nat
  BY DEF Types
<1>1. CASE Issue(c)
  <2>1. PICK op \in Commands :
          /\ op = "prepare" => catalog.generation > 0
          /\ call' = [call EXCEPT ![c] = Having(op, First(op), catalog.generation)]
    BY <1>1 DEF Issue
  <2>2. /\ First(op) \in Pcs \ (Preparing \cup Cohering)
        /\ First(op) = "prepare" => op = "prepare"
        /\ First(op) = "cohere" => op \in {"patch", "start"}
    BY CommandsAreKnown DEF First
  <2>3. /\ OnlyMoves(c)
        /\ call'[c].pc = First(op) /\ call'[c].op = op
        /\ call'[c].gen = catalog.generation
    <3>1. Having(op, First(op), catalog.generation) \in CallRecords
      BY <1>0, <2>2 DEF Types, CallRecords, Having
    <3>. QED
      BY <1>0, <2>1, <3>1 DEF Having, Types, OnlyMoves
  <2>. QED
    BY <1>0, <1>1, <2>1, <2>2, <2>3 DEF Issue, Bystands
<1>2. CASE PrepareFinds(c) /\ ~Current(c)
  BY <1>0, <1>2, ReturnsOver DEF PrepareFinds, Bystands
<1>3. CASE LikeChecks(c)
  BY <1>0, <1>3, ReturnsOver, GoesOn DEF LikeChecks, Bystands
<1>4. CASE LikeStores(c)
  BY <1>0, <1>4, GoesOn DEF LikeStores, Bystands
<1>5. CASE LikeCounts(c)
  BY <1>0, <1>5, ReturnsOver DEF LikeCounts, Bystands
<1>6. CASE Import(c)
  BY <1>0, <1>6, GoesOn DEF Import, Bystands
<1>7. CASE Compose(c)
  <2>1. OnlyMoves(c) /\ call'[c].pc = "install"
    BY <1>0, <1>7, ReadsImports DEF Compose
  <2>. QED
    BY <1>0, <1>7, <2>1 DEF Compose, Bystands
<1>8. CASE ReloadCounts(c)
  BY <1>0, <1>8, ReturnsOver DEF ReloadCounts, Bystands
<1>9. CASE Ensure(c)
  <2>. DEFINE pc == IF catalog.generation = 0 THEN "load" ELSE Loaded(c)
  <2>1. pc \in Pcs /\ pc \in {"load", "find", "search"}
    BY DEF Loaded
  <2>2. OnlyMoves(c) /\ call'[c].pc = pc
    <3>1. call' = [call EXCEPT ![c].comp = imports, ![c].pc = pc]
      BY <1>9 DEF Ensure
    <3>. HIDE DEF pc
    <3>. QED
      BY <1>0, <2>1, <3>1, ReadsImports
  <2>. QED
    BY <1>0, <1>9, <2>1, <2>2 DEF Ensure, Bystands
<1>10. CASE SearchReads(c)
  BY <1>0, <1>10, GoesOn DEF SearchReads, Bystands
<1>11. CASE SearchPages(c)
  BY <1>0, <1>11, ReturnsOver DEF SearchPages, Bystands
<1>12. CASE DetailFinds(c)
  BY <1>0, <1>12, ReturnsOver, GoesOn DEF DetailFinds, Bystands
<1>13. CASE DetailReads(c)
  BY <1>0, <1>13, ReadsSettings DEF DetailReads, Bystands
<1>14. CASE DetailCaches(c)
  BY <1>0, <1>14, ReturnsOver DEF DetailCaches, Bystands
<1>15. CASE ViewportFinds(c)
  BY <1>0, <1>15, ReturnsOver, GoesOn DEF ViewportFinds, Bystands
<1>16. CASE ViewportReads(c)
  BY <1>0, <1>16, ReadsSettings DEF ViewportReads, Bystands
<1>17. CASE ViewportFills(c)
  BY <1>0, <1>17, ReturnsOver, GoesOn DEF ViewportFills, Bystands
<1>. QED
  BY <1>1, <1>2, <1>3, <1>4, <1>5, <1>6, <1>7, <1>8, <1>9, <1>10, <1>11, <1>12,
     <1>13, <1>14, <1>15, <1>16, <1>17 DEF Idles

\* settings.patch and playback.start: from one lock to the other.
LEMMA CoherentStepsKeepLInv ==
  ASSUME LInv, NEW c \in Calls,
         Cohere(c) \/ Patch(c) \/ PatchInvalidates(c) \/ StartReads(c) \/ StartConsumes(c)
  PROVE  LInv'
<1>. USE DEF LInv, At, Free, Pcs, data, locks, Preparing, Cohering
<1>0. Types /\ settings \in Nat /\ settings + 1 \in Nat /\ \A d \in Calls : d # NoCall
  BY MaxCallsIsNat DEF Types, Calls, NoCall
<1>1. CASE Cohere(c)
  <2>1. OnlyMoves(c) /\ call'[c].pc \in {"patch", "start"}
    BY <1>0, <1>1, GoesOn DEF Cohere, LockInv
  <2>2. UNCHANGED <<catalog, imports, settings, prepared, catalogLock>>
    BY <1>1 DEF Cohere
  <2>3. Types' /\ ReadInv' /\ PlanInv'
    BY <1>0, <1>1, <2>1, <2>2 DEF Cohere, OnlyMoves, Types, ReadInv, PlanInv, WillDrop
  <2>4. LockInv'
    BY <1>0, <1>1, <2>1, <2>2 DEF Cohere, OnlyMoves, LockInv
  <2>. QED
    BY <2>3, <2>4
<1>2. CASE Patch(c)
  <2>1. OnlyMoves(c) /\ call'[c].pc = "patched"
    BY <1>0, <1>2, GoesOn DEF Patch
  <2>2. Types' /\ LockInv' /\ PlanInv'
    BY <1>0, <1>2, <2>1 DEF Patch, OnlyMoves, Types, LockInv, PlanInv, WillDrop
  <2>3. ReadInv'
    BY <1>0, <1>2, <2>1 DEF Patch, OnlyMoves, LockInv, ReadInv
  <2>. QED
    BY <2>2, <2>3
<1>3. CASE At(c, "patched") /\ PatchInvalidates(c)
  <2>1. OnlyMoves(c) /\ call'[c].pc = "cleared" /\ prepared' = <<>>
    BY <1>0, <1>3, GoesOn DEF PatchInvalidates, InvalidatePlans
  <2>2. UNCHANGED <<catalog, imports, settings, catalogLock, coherence>>
    BY <1>3 DEF PatchInvalidates
  <2>3. Types' /\ LockInv' /\ ReadInv'
    BY <1>0, <1>3, <2>1, <2>2 DEF OnlyMoves, Types, LockInv, ReadInv
  <2>4. PlanInv'
    BY <2>1 DEF PlanInv
  <2>. QED
    BY <2>3, <2>4
<1>4. CASE At(c, "cleared") /\ PatchInvalidates(c)
  <2>1. OnlyMoves(c) /\ call'[c].pc = "over" /\ coherence' = NoCall
    BY <1>0, <1>4, ReturnsOver DEF PatchInvalidates
  <2>2. UNCHANGED <<catalog, imports, settings, prepared, catalogLock>>
    BY <1>4 DEF PatchInvalidates
  <2>3. Types' /\ ReadInv' /\ PlanInv'
    BY <1>0, <1>4, <2>1, <2>2 DEF OnlyMoves, Types, ReadInv, PlanInv, WillDrop
  <2>4. LockInv'
    BY <1>0, <1>4, <2>1, <2>2 DEF OnlyMoves, LockInv
  <2>. QED
    BY <2>3, <2>4
<1>5. CASE StartReads(c)
  <2>1. OnlyMoves(c) /\ call'[c].pc = "consume" /\ call'[c].set = settings
    BY <1>0, <1>5, ReadsSettings DEF StartReads
  <2>2. UNCHANGED <<catalog, imports, settings, prepared, catalogLock, coherence>>
    BY <1>5 DEF StartReads
  <2>3. Types' /\ ReadInv' /\ PlanInv'
    BY <1>0, <1>5, <2>1, <2>2 DEF StartReads, OnlyMoves, Types, ReadInv, PlanInv, WillDrop
  <2>4. LockInv'
    BY <1>0, <1>5, <2>1, <2>2 DEF StartReads, OnlyMoves, LockInv
  <2>. QED
    BY <2>3, <2>4
<1>6. CASE StartConsumes(c)
  <2>1. OnlyMoves(c) /\ call'[c].pc = "over"
    BY <1>0, <1>6, ReturnsOver DEF StartConsumes
  <2>2. UNCHANGED <<catalog, imports, settings, catalogLock>>
    BY <1>6 DEF StartConsumes
  <2>3. /\ prepared' \in Seq(Plans)
        /\ \A k \in DOMAIN prepared' : \E i \in DOMAIN prepared : prepared'[k] = prepared[i]
    <3>1. CASE UNCHANGED prepared
      BY <1>0, <3>1 DEF Types
    <3>2. CASE \E i \in DOMAIN prepared : RemovePlan(i)
      BY <1>0, <3>2, Retained DEF RemovePlan
    <3>. QED
      BY <1>6, <3>1, <3>2 DEF StartConsumes
  <2>4. Types' /\ ReadInv'
    BY <1>0, <1>6, <2>1, <2>2, <2>3 DEF OnlyMoves, Types, ReadInv
  <2>5. LockInv'
    BY <1>0, <1>6, <2>1, <2>2 DEF StartConsumes, OnlyMoves, LockInv
  <2>6. PlanInv'
    BY <1>0, <1>6, <2>1, <2>2, <2>3 DEF StartConsumes, OnlyMoves, PlanInv, WillDrop
  <2>. QED
    BY <2>4, <2>5, <2>6
<1>. QED
  BY <1>1, <1>2, <1>3, <1>4, <1>5, <1>6 DEF PatchInvalidates

\* prepare_playback, under the catalogue's lock.
LEMMA PreparingKeepsLInv ==
  ASSUME LInv, NEW c \in Calls,
         (PrepareFinds(c) /\ Current(c)) \/ PrepareReads(c) \/ PreparePushes(c)
  PROVE  LInv'
<1>. USE DEF LInv, At, Free, Pcs, data, locks, Preparing, Cohering
<1>0. Types /\ \A d \in Calls : d # NoCall
  BY MaxCallsIsNat DEF Calls, NoCall
<1>1. CASE PrepareFinds(c) /\ Current(c)
  <2>1. /\ OnlyMoves(c) /\ call'[c].pc \in {"preparing", "over"}
        /\ call'[c].pc = "preparing" =>
             catalogLock' = c /\ call'[c].gen = call[c].gen
    BY <1>0, <1>1, GoesOn, ReturnsOver DEF PrepareFinds
  <2>2. UNCHANGED <<catalog, imports, settings, prepared, coherence>>
    BY <1>1 DEF PrepareFinds
  <2>3. Types' /\ LockInv'
    BY <1>0, <1>1, <2>1, <2>2 DEF PrepareFinds, OnlyMoves, Types, LockInv
  <2>4. ReadInv' /\ PlanInv'
    BY <1>0, <1>1, <2>1, <2>2
    DEF PrepareFinds, Current, OnlyMoves, ReadInv, PlanInv, WillDrop
  <2>. QED
    BY <2>3, <2>4
<1>2. CASE PrepareReads(c)
  <2>1. OnlyMoves(c) /\ call'[c].pc = "push" /\ call'[c].gen = call[c].gen
    BY <1>0, <1>2, ReadsSettings DEF PrepareReads
  <2>2. UNCHANGED <<catalog, imports, settings, prepared, catalogLock, coherence>>
    BY <1>2 DEF PrepareReads
  <2>3. Types' /\ LockInv'
    BY <1>0, <1>2, <2>1, <2>2 DEF PrepareReads, OnlyMoves, Types, LockInv
  <2>4. ReadInv' /\ PlanInv'
    BY <1>0, <1>2, <2>1, <2>2 DEF PrepareReads, OnlyMoves, ReadInv, PlanInv, WillDrop
  <2>. QED
    BY <2>3, <2>4
<1>3. CASE PreparePushes(c)
  <2>. DEFINE plan == [generation |-> call[c].gen, settings |-> call[c].set]
  <2>1. OnlyMoves(c) /\ call'[c].pc = "over"
    BY <1>0, <1>3, ReturnsOver DEF PreparePushes
  <2>2. UNCHANGED <<catalog, imports, settings, coherence>>
    BY <1>3 DEF PreparePushes
  <2>3. plan \in Plans /\ plan.generation = catalog.generation /\ plan.generation > 0
    BY <1>0, <1>3 DEF PreparePushes, Types, CallRecords, Plans, ReadInv
  <2>4. /\ prepared' \in Seq(Plans)
        /\ \A k \in DOMAIN prepared' :
             prepared'[k] = plan \/ \E i \in DOMAIN prepared : prepared'[k] = prepared[i]
    BY <1>0, <1>3, <2>3, Pushed DEF PreparePushes
  <2>5. Types' /\ ReadInv'
    BY <1>0, <2>1, <2>2, <2>4 DEF OnlyMoves, Types, ReadInv
  <2>6. LockInv'
    BY <1>0, <1>3, <2>1, <2>2 DEF PreparePushes, OnlyMoves, LockInv
  <2>7. PlanInv'
    <3>1. \A k \in DOMAIN prepared' : prepared'[k].generation \in 1..catalog'.generation
      BY <2>2, <2>3, <2>4 DEF PlanInv, Types
    <3>2. \/ \A k \in DOMAIN prepared' : prepared'[k].generation = catalog'.generation
          \/ \E d \in Calls : WillDrop(d)'
      <4>1. CASE \A i \in DOMAIN prepared : prepared[i].generation = catalog.generation
        BY <2>2, <2>3, <2>4, <4>1
      <4>2. CASE \E d \in Calls : WillDrop(d)
        BY <1>3, <2>1, <2>2, <4>2 DEF PreparePushes, OnlyMoves, WillDrop
      <4>. QED
        BY <4>1, <4>2 DEF PlanInv
    <3>. QED
      BY <3>1, <3>2 DEF PlanInv
  <2>. QED
    BY <2>5, <2>6, <2>7
<1>. QED
  BY <1>1, <1>2, <1>3

\* A catalogue is installed, and what was made from the older ones dropped.
LEMMA ReloadingKeepsLInv ==
  ASSUME LInv, NEW c \in Calls,
         ReloadInstalls(c) \/ ReloadInvalidates(c) \/ EnsureLoads(c)
  PROVE  LInv'
<1>. USE DEF LInv, At, Free, Pcs, data, locks, Preparing, Cohering
<1>0. Types /\ \A d \in Calls : d # NoCall
  BY MaxCallsIsNat DEF Calls, NoCall
<1>1. CASE ReloadInstalls(c)
  <2>1. /\ catalog' \in [generation : Nat, comp : Nat]
        /\ catalog'.generation = catalog.generation + 1
    BY <1>0, <1>1 DEF ReloadInstalls, Replaced, Types, CallRecords
  <2>2. OnlyMoves(c) /\ call'[c].pc = "forget" /\ call'[c].gen = catalog'.generation
    <3>1. catalog.generation + 1 \in Nat
      BY <1>0 DEF Types
    <3>. QED
      BY <1>0, <1>1, <2>1, <3>1, GetsGeneration DEF ReloadInstalls
  <2>3. UNCHANGED <<imports, settings, prepared, catalogLock, coherence>>
    BY <1>1 DEF ReloadInstalls
  <2>4. \A d \in Calls : call[d].pc \notin Preparing
    BY <1>0, <1>1 DEF ReloadInstalls, LockInv
  <2>5. Types' /\ LockInv' /\ ReadInv'
    BY <1>0, <2>1, <2>2, <2>3, <2>4 DEF OnlyMoves, Types, LockInv, ReadInv
  <2>6. PlanInv'
    BY <1>0, <2>1, <2>2, <2>3 DEF PlanInv, WillDrop, Types
  <2>. QED
    BY <2>5, <2>6
<1>2. CASE At(c, "forget") /\ ReloadInvalidates(c)
  <2>1. OnlyMoves(c) /\ call'[c].pc = "invalidate" /\ call'[c].gen = call[c].gen
    BY <1>0, <1>2, GoesOn DEF ReloadInvalidates
  <2>2. UNCHANGED <<catalog, imports, settings, prepared, catalogLock, coherence>>
    BY <1>2 DEF ReloadInvalidates
  <2>3. Types' /\ LockInv' /\ ReadInv'
    BY <1>0, <2>1, <2>2 DEF OnlyMoves, Types, LockInv, ReadInv
  <2>4. PlanInv'
    BY <1>0, <2>1, <2>2 DEF OnlyMoves, PlanInv, WillDrop
  <2>. QED
    BY <2>3, <2>4
<1>3. CASE At(c, "invalidate") /\ ReloadInvalidates(c)
  <2>. DEFINE kept == {i \in DOMAIN prepared : prepared[i].generation = call[c].gen}
  <2>1. OnlyMoves(c) /\ call'[c].pc = "total"
    BY <1>0, <1>3, GoesOn DEF ReloadInvalidates
  <2>2. UNCHANGED <<catalog, imports, settings, catalogLock, coherence>>
    BY <1>3 DEF ReloadInvalidates
  <2>3. /\ prepared' \in Seq(Plans)
        /\ \A k \in DOMAIN prepared' : \E i \in kept : prepared'[k] = prepared[i]
    BY <1>0, <1>3, Retained DEF ReloadInvalidates, InvalidateCatalog
  <2>4. Types' /\ LockInv' /\ ReadInv'
    BY <1>0, <2>1, <2>2, <2>3 DEF OnlyMoves, Types, LockInv, ReadInv
  <2>5. \A k \in DOMAIN prepared' : prepared'[k].generation \in 1..catalog'.generation
    BY <2>2, <2>3 DEF PlanInv
  <2>6. \/ \A k \in DOMAIN prepared' : prepared'[k].generation = catalog'.generation
        \/ \E d \in Calls : WillDrop(d)'
    <3>1. CASE call[c].gen = catalog.generation
      BY <2>2, <2>3, <3>1
    <3>2. CASE \A i \in DOMAIN prepared : prepared[i].generation = catalog.generation
      BY <2>2, <2>3, <3>2
    <3>3. CASE \E d \in Calls \ {c} : WillDrop(d)
      BY <2>1, <2>2, <3>3 DEF OnlyMoves, WillDrop
    <3>. QED
      BY <3>1, <3>2, <3>3 DEF PlanInv, WillDrop
  <2>. QED
    BY <2>4, <2>5, <2>6 DEF PlanInv
<1>4. CASE EnsureLoads(c)
  <2>1. OnlyMoves(c) /\ call'[c].pc \in {"find", "search"}
    <3>1. Loaded(c) \in {"find", "search"}
      BY DEF Loaded
    <3>. QED
      BY <1>0, <1>4, <3>1, GoesOn DEF EnsureLoads
  <2>2. UNCHANGED <<imports, settings, prepared, catalogLock, coherence>>
    BY <1>4 DEF EnsureLoads
  <2>3. \A d \in Calls : call[d].pc \notin Preparing
    BY <1>0, <1>4 DEF EnsureLoads, LockInv
  <2>4. /\ catalog' \in [generation : Nat, comp : Nat]
        /\ catalog' # catalog => catalog.generation = 0
    BY <1>0, <1>4 DEF EnsureLoads, Replaced, Types, CallRecords
  <2>5. Types' /\ LockInv' /\ ReadInv'
    BY <1>0, <2>1, <2>2, <2>3, <2>4 DEF OnlyMoves, Types, LockInv, ReadInv
  <2>6. PlanInv'
    <3>1. CASE catalog' = catalog
      BY <1>4, <2>1, <2>2, <3>1 DEF EnsureLoads, OnlyMoves, PlanInv, WillDrop
    <3>2. CASE catalog' # catalog
      BY <1>0, <2>2, <2>4, <3>2 DEF PlanInv
    <3>. QED
      BY <3>1, <3>2
  <2>. QED
    BY <2>5, <2>6
<1>. QED
  BY <1>1, <1>2, <1>3, <1>4 DEF ReloadInvalidates

LEMMA LInvNext == LInv /\ [Next]_vars => LInv'
<1>. SUFFICES ASSUME LInv, [Next]_vars PROVE LInv'
  OBVIOUS
<1>1. CASE UNCHANGED vars
  BY <1>1 DEF vars, data, locks, LInv, Types, LockInv, ReadInv, PlanInv, WillDrop
<1>2. ASSUME NEW c \in Calls, Issue(c) \/ Step(c) PROVE LInv'
  <2>1. \/ Cohere(c) \/ Patch(c) \/ PatchInvalidates(c) \/ StartReads(c) \/ StartConsumes(c)
        \/ PrepareFinds(c) /\ Current(c)
        \/ PrepareReads(c) \/ PreparePushes(c)
        \/ ReloadInstalls(c) \/ ReloadInvalidates(c) \/ EnsureLoads(c)
        \/ Bystands(c)
    <3>1. Idles(c) => Bystands(c)
      BY Bystanders
    <3>. QED
      BY <1>2, <3>1 DEF Step, Idles
  <2>. QED
    BY <1>2, <2>1, CoherentStepsKeepLInv, PreparingKeepsLInv, ReloadingKeepsLInv,
       BystandersKeepLInv
<1>. QED
  BY <1>1, <1>2 DEF Next

\* Whatever other commands do, a plan that playback.start takes was made with
\* the settings of this moment, and no plan of an older catalogue is in the store
\* once no reload is about to drop it (native_runtime.rs start, reload_library).
THEOREM PlansStayCurrent == Spec => PlansAreCurrent
<1>1. LInv => PlansAreOfTheCatalog
  BY DEF LInv, PlanInv, WillDrop, PlansAreOfTheCatalog, At
<1>2. LInv /\ [Next]_vars =>
        [\A plan \in playing' \ playing : plan.settings = settings]_playing
  <2>. SUFFICES ASSUME LInv, [Next]_vars, playing' # playing
                PROVE  \A plan \in playing' \ playing : plan.settings = settings
    OBVIOUS
  <2>1. PICK c \in Calls : StartConsumes(c)
    <3>1. PICK c \in Calls : Issue(c) \/ Step(c)
      BY DEF Next, vars, data
    <3>2. ~Idles(c)
      BY Bystanders DEF Bystands
    <3>. QED
      BY <3>1, <3>2
      DEF Idles, Step, Cohere, Patch, PatchInvalidates, StartReads, PrepareFinds, PrepareReads,
          PreparePushes, ReloadInstalls, ReloadInvalidates, EnsureLoads, data
  <2>2. PICK i \in DOMAIN prepared : prepared[i].settings = call[c].set /\ playing' = {prepared[i]}
    BY <2>1 DEF StartConsumes, Fits
  <2>3. call[c].set = settings
    BY <2>1 DEF StartConsumes, At, LInv, ReadInv
  <2>. QED
    BY <2>2, <2>3
<1>. QED
  BY <1>1, <1>2, LInvInit, LInvNext, PTL
  DEF Spec, PlansAreCurrent, StartedPlanIsCurrent
=============================================================================

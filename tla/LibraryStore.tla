---------------------------- MODULE LibraryStore ----------------------------
(***************************************************************************)
(* The desktop's view of the library (store.ts): the search and its pages, *)
(* the selected song and its detail, the prepared playback and the         *)
(* settings it depends on.  The store's code runs between two awaits       *)
(* without interruption, so an action is what it does up to its next       *)
(* request, or from an answer to the end.  The native side answers the     *)
(* requests in any order, and its events come when they come.              *)
(* The tokens and epochs of the store are compared for equality with their *)
(* last value only: a request remembers whether its token is still it.     *)
(* The likes, the playlists' membership and the rows' metadata are left    *)
(* out.                                                                    *)
(***************************************************************************)
EXTENDS Naturals, FiniteSets

CONSTANTS
  Views,          \* a source of the library and a query
  AllSongs,       \* the one the store starts with
  Songs,
  MaxGeneration,  \* bound on the generations of the catalogue
  MaxActs,        \* bound on what the user does
  NoView, NoSong

ASSUME FirstView == AllSongs \in Views
ASSUME ActsAreNat == MaxActs \in Nat /\ MaxGeneration \in Nat \ {0}

Pages       == {0, 1}      \* the offsets, in pages; every result has both
Generations == 1..MaxGeneration

VARIABLES
  lib,        \* the library's state; a page is <<view, generation, offset>>
  cache,      \* pageCache
  detail,     \* details.bySongId; a value has the generation it was made of
  prepared,   \* playback.prepared, with what it was made from
  settings,   \* the settings' version known to the store
  calls,      \* the requests on their way, pageRequests among them
  served,     \* native: the catalogue's generation
  stored,     \* native: the settings' version
  announced,  \* the generations whose catalog.changed is on its way
  inputs      \* how often the user has acted

store     == <<lib, cache, detail, prepared, settings>>
native    == <<served, stored, announced>>
storeVars == <<store, calls, native, inputs>>

NoDetail   == [s \in Songs |-> [state |-> "idle", gen |-> 0]]
Unprepared == [song |-> NoSong, gen |-> 0, config |-> 0, made |-> 0]

\* A request; the store's token for it is still current if it is fresh.  A
\* page is awaited by a search, or watched by a viewport, of the current token.
Request(kind) ==
  [kind |-> kind, view |-> NoView, song |-> NoSong, page |-> 0, gen |-> lib.generation, config |-> settings,
   fresh |-> TRUE, awaited |-> FALSE, watched |-> FALSE, status |-> "sent", got |-> 0]
PageRequest(v, g, page) == [Request("page") EXCEPT !.view = v, !.gen = g, !.page = page]

\* A request whose token or epoch the store has advanced.
Outdated(cs, kinds) ==
  {IF c.kind \in kinds THEN [c EXCEPT !.fresh = FALSE, !.awaited = FALSE, !.watched = FALSE] ELSE c : c \in cs}

\* pageRequests: the request of a page that is on its way.
InFlight(cs, v, g, page) == {c \in cs : c.kind = "page" /\ c.view = v /\ c.gen = g /\ c.page = page}

\* A plausible bug: any page is taken, whatever was asked for since.
BugMergePage(l, key, fresh) ==
  [l EXCEPT !.pages = {p \in @ : p[3] # key[3]} \cup {key}, !.found = TRUE]

MergePage(l, key, fresh) ==
  IF fresh /\ l.generation = key[2]
  THEN [l EXCEPT !.pages = {p \in @ : p[3] # key[3]} \cup {key}, !.found = TRUE]
  ELSE l

\* What a search, and its continuation, make of the library.
Asked(l, v)      == [l EXCEPT !.view = v, !.pages = {}, !.found = FALSE, !.loading = TRUE, !.error = FALSE]
Completed(l, g)  == [l EXCEPT !.generation = g, !.found = TRUE, !.loading = FALSE, !.error = FALSE]
Refused(l)       == [l EXCEPT !.loading = FALSE, !.error = TRUE]

\* search, and the loadPage of its first page: from the cache, with the
\* request that is on its way already, or with one of its own.
Search(l, cs, v) ==
  LET key  == <<v, l.generation, 0>>
      past == Outdated(cs, {"page"})
      way  == InFlight(past, v, l.generation, 0)
  IN  IF key \in cache
      THEN lib' = Completed(MergePage(Asked(l, v), key, TRUE), l.generation) /\ calls' = past
      ELSE /\ lib' = Asked(l, v)
           /\ calls' = IF way # {}
                       THEN (past \ way) \cup {[c EXCEPT !.awaited = TRUE] : c \in way}
                       ELSE past \cup {[PageRequest(v, l.generation, 0) EXCEPT !.awaited = TRUE]}

\* The store after initialize, whose last step is a search.
StoreInit ==
  /\ served = 1 /\ stored = 0 /\ settings = 0
  /\ lib = [view |-> AllSongs, generation |-> 1, pages |-> {}, found |-> FALSE, loading |-> TRUE,
            error |-> FALSE, selected |-> NoSong]
  /\ calls = {[PageRequest(AllSongs, 1, 0) EXCEPT !.awaited = TRUE]}
  /\ cache = {}
  /\ detail = NoDetail
  /\ prepared = Unprepared
  /\ announced = {}
  /\ inputs = 0

(***************************************************************************)
(* The user.                                                               *)
(***************************************************************************)
Acts == inputs < MaxActs /\ inputs' = inputs + 1

SearchFor(v) ==
  /\ Acts
  /\ Search(lib, calls, v)
  /\ UNCHANGED <<cache, detail, prepared, settings, native>>

\* selectLibrarySource, openPlaylistAdd and exitPlaylistAdd: what was selected goes.
SelectSource(v) ==
  /\ Acts /\ v # lib.view
  /\ Search([lib EXCEPT !.selected = NoSong], Outdated(calls, {"detail", "prepare"}), v)
  /\ detail' = NoDetail
  /\ prepared' = Unprepared
  /\ UNCHANGED <<cache, settings, native>>

\* setViewport: ensureRange over the page that has come into view.
SetViewport(page) ==
  LET key == <<lib.view, lib.generation, page>>
      way == InFlight(calls, lib.view, lib.generation, page)
  IN  /\ lib.found
      /\ lib' = IF key \in cache THEN MergePage(lib, key, TRUE) ELSE lib
      /\ calls' = IF key \in cache THEN calls
                  ELSE IF way # {}
                  THEN (calls \ way) \cup {[c EXCEPT !.watched = TRUE] : c \in way}
                  ELSE calls \cup {[PageRequest(lib.view, lib.generation, page) EXCEPT !.watched = TRUE]}
      /\ UNCHANGED <<cache, detail, prepared, settings, native, inputs>>

\* A detail is asked for unless the song has one; an earlier request may have
\* lost its token to another song.
AsksDetail(s) == detail[s].state \in {"idle", "loading"}

SelectSong(s) ==
  /\ Acts
  /\ ~(lib.selected = s /\ detail[s].state \in {"ready", "loading"})
  /\ lib' = [lib EXCEPT !.selected = s]
  /\ detail' = [detail EXCEPT ![s].state = IF @ = "idle" THEN "loading" ELSE @]
  /\ prepared' = Unprepared
  /\ calls' = Outdated(calls, {"detail", "prepare"})
                \cup (IF AsksDetail(s) THEN {[Request("detail") EXCEPT !.song = s]} ELSE {})
  /\ UNCHANGED <<cache, settings, native>>

ReloadLibrary ==
  /\ Acts
  /\ lib' = [lib EXCEPT !.loading = TRUE, !.error = FALSE]
  /\ calls' = calls \cup {Request("reload")}
  /\ UNCHANGED <<cache, detail, prepared, settings, native>>

\* importLocalFilesToPlaylist and importLocalFolderToPlaylist.
ImportLocal ==
  /\ Acts
  /\ calls' = calls \cup {Request("import")}
  /\ UNCHANGED <<store, native>>

PrepareSelectedPlayback ==
  /\ Acts /\ lib.selected # NoSong
  /\ calls' = calls \cup {[Request("prepare") EXCEPT !.song = lib.selected]}
  /\ UNCHANGED <<store, native>>

\* patchSettings: settingsMutationTail sends one mutation at a time.
PatchSettings ==
  /\ Acts /\ ~\E c \in calls : c.kind = "patch"
  /\ calls' = calls \cup {Request("patch")}
  /\ UNCHANGED <<store, native>>

(***************************************************************************)
(* The native side.  What it read is settled long before its answer comes; *)
(* an error may be decided on when it comes.                               *)
(***************************************************************************)
Becomes(c, status, got) == calls' = (calls \ {c}) \cup {[c EXCEPT !.status = status, !.got = got]}

\* Every reader of the catalogue checks the generation it is asked for.
ServeRead(c) ==
  /\ c.kind \in {"page", "detail", "prepare"} /\ c.status = "sent" /\ c.gen = served
  /\ Becomes(c, "ok", IF c.kind = "prepare" THEN stored ELSE served)
  /\ UNCHANGED <<store, native, inputs>>

\* reload replaces the catalogue; an import does if it brings a new source.
ServeReload(c) ==
  /\ c.kind \in {"reload", "import"} /\ c.status = "sent"
  /\ \/ c.kind = "import" /\ Becomes(c, "ok", served) /\ UNCHANGED served
     \/ served < MaxGeneration /\ served' = served + 1 /\ Becomes(c, "installed", served + 1)
  /\ UNCHANGED <<store, stored, announced, inputs>>

\* Its event is published later, and not at all if the catalogue has moved on.
Announce(c) ==
  /\ c.status = "installed" /\ c.got = served
  /\ Becomes(c, "ok", c.got)
  /\ announced' = announced \cup {c.got}
  /\ UNCHANGED <<store, served, stored, inputs>>

ServePatch(c) ==
  /\ c.kind = "patch" /\ c.status = "sent"
  /\ Becomes(c, "ok", stored + 1)
  /\ stored' = stored + 1
  /\ UNCHANGED <<store, served, announced, inputs>>

(***************************************************************************)
(* The answers and the event.                                              *)
(***************************************************************************)
Arrives(c) == calls' = calls \ {c}
Comes(c)   == c.status = "ok" /\ Arrives(c)
Fails(c)   == (c.status = "sent" \/ (c.status = "installed" /\ c.got # served)) /\ Arrives(c)

\* loadPage after its await, then whoever awaits the request: its owner's
\* token decides about the merge, the search's about the rest.
PageComes(c) ==
  LET key == <<c.view, c.got, c.page>>
      l   == MergePage(lib, key, c.fresh)
  IN  /\ c.kind = "page" /\ Comes(c)
      /\ cache' = cache \cup {key}
      /\ lib' = IF c.awaited THEN Completed(l, c.got) ELSE l
      /\ UNCHANGED <<detail, prepared, settings, native, inputs>>

PageFails(c) ==
  /\ c.kind = "page" /\ Fails(c)
  /\ lib' = IF c.awaited \/ c.watched THEN Refused(lib) ELSE lib
  /\ UNCHANGED <<cache, detail, prepared, settings, native, inputs>>

TakesDetail(c) == c.fresh /\ (c.status = "ok" => c.gen = lib.generation)

DetailComes(c) ==
  /\ c.kind = "detail" /\ (Comes(c) \/ Fails(c))
  /\ detail' = IF ~TakesDetail(c) THEN detail
               ELSE [detail EXCEPT ![c.song] = IF c.status = "ok" THEN [state |-> "ready", gen |-> c.got]
                                               ELSE [state |-> "fatal", gen |-> 0]]
  /\ UNCHANGED <<lib, cache, prepared, settings, native, inputs>>

TakesPlan(c) == c.fresh /\ c.song = lib.selected /\ c.gen = lib.generation

PlanComes(c) ==
  /\ c.kind = "prepare" /\ (Comes(c) \/ Fails(c))
  /\ prepared' = IF ~TakesPlan(c) THEN prepared
                 ELSE IF c.status = "sent" THEN Unprepared
                 ELSE [song |-> c.song, gen |-> c.gen, config |-> c.config, made |-> c.got]
  /\ UNCHANGED <<lib, cache, detail, settings, native, inputs>>

PatchComes(c) ==
  /\ c.kind = "patch"
  /\ \/ /\ c.status = "ok"
        /\ calls' = Outdated(calls \ {c}, {"prepare"})
        /\ settings' = c.got
        /\ prepared' = Unprepared
     \/ Fails(c) /\ UNCHANGED <<settings, prepared>>
  /\ UNCHANGED <<lib, cache, detail, native, inputs>>

\* syncCatalogGeneration, and what catalog.changed does.
Advance(g, cs) ==
  \/ g <= lib.generation /\ calls' = cs /\ UNCHANGED <<lib, detail, prepared>>
  \/ /\ g > lib.generation
     /\ Search([lib EXCEPT !.generation = g, !.selected = NoSong], Outdated(cs, {"detail", "prepare"}), lib.view)
     /\ detail' = NoDetail
     /\ prepared' = Unprepared

CatalogChanged(g) ==
  /\ g \in announced /\ announced' = announced \ {g}
  /\ Advance(g, calls)
  /\ UNCHANGED <<cache, settings, served, stored, inputs>>

ImportComes(c) ==
  /\ c.kind = "import"
  /\ \/ c.status = "ok" /\ Advance(c.got, calls \ {c})
     \/ Fails(c) /\ UNCHANGED <<lib, detail, prepared>>
  /\ UNCHANGED <<cache, settings, native, inputs>>

\* A reload waits for its event; only a failure ends the loading here.
ReloadComes(c) ==
  /\ c.kind = "reload"
  /\ \/ Comes(c) /\ UNCHANGED lib
     \/ Fails(c) /\ lib' = Refused(lib)
  /\ UNCHANGED <<cache, detail, prepared, settings, native, inputs>>

User ==
  \/ \E v \in Views : SearchFor(v) \/ SelectSource(v)
  \/ \E s \in Songs : SelectSong(s)
  \/ ReloadLibrary \/ ImportLocal \/ PrepareSelectedPlayback \/ PatchSettings
Serve  == \E c \in calls : ServeRead(c) \/ ServeReload(c) \/ Announce(c) \/ ServePatch(c)
Answer == \E c \in calls : \/ PageComes(c) \/ PageFails(c) \/ DetailComes(c) \/ PlanComes(c)
                           \/ PatchComes(c) \/ ImportComes(c) \/ ReloadComes(c)
Event  == \E g \in Generations : CatalogChanged(g)
Scroll == \E page \in Pages : SetViewport(page)

StoreNext == User \/ Serve \/ Answer \/ Event \/ Scroll

StoreSpec == StoreInit /\ [][StoreNext]_storeVars

(***************************************************************************)
(* Properties.                                                             *)
(***************************************************************************)
StoreTypeOK ==
  /\ lib \in [view : Views, generation : Generations, pages : SUBSET (Views \X Generations \X Pages),
              found : BOOLEAN, loading : BOOLEAN, error : BOOLEAN, selected : Songs \cup {NoSong}]
  /\ cache \subseteq Views \X Generations \X Pages
  /\ announced \subseteq Generations

\* Every page on the screen answers the query on the screen, of the catalogue's
\* generation the store believes in, whatever answers came late.
PagesAnswerTheQuery == \A p \in lib.pages : p[1] = lib.view /\ p[2] = lib.generation

\* The spinner turns only while somebody is going to stop it.
LoadingIsAwaited ==
  lib.loading => \/ \E c \in calls : c.kind = "page" /\ c.awaited
                 \/ \E c \in calls : c.kind = "reload"
                 \/ \E g \in announced : g > lib.generation

\* The detail of the selected song is being loaded only while a request whose
\* answer will be taken is on its way, and a detail is of the current catalogue.
DetailIsAwaited ==
  /\ \A s \in Songs : detail[s].state = "ready" => detail[s].gen = lib.generation
  /\ lib.selected # NoSong /\ detail[lib.selected].state = "loading" =>
       \E c \in calls : c.kind = "detail" /\ c.song = lib.selected /\ c.fresh

\* What the Play button would start is the selected song, of the shown
\* generation, prepared with the settings shown; and with those the native side
\* has, unless a change of them is on its way.
PreparedIsCurrent ==
  prepared # Unprepared =>
    /\ prepared.song = lib.selected /\ prepared.gen = lib.generation /\ prepared.config = settings
    /\ prepared.made = stored \/ \E c \in calls : c.kind = "patch"

\* Once all has been answered the store has caught up with the catalogue.
CatchesUp == calls = {} /\ announced = {} => lib.generation = served

\* What the window shows, whatever answers and announcements come in whatever
\* order, is current: pages of the query asked last, a plan of the selected song,
\* and a spinner only where an answer will be taken (store.ts:380-520, 940-964,
\* 1411-1418).
ViewIsCurrent ==
  PagesAnswerTheQuery /\ LoadingIsAwaited /\ DetailIsAwaited /\ PreparedIsCurrent /\ CatchesUp
=============================================================================

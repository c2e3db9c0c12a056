------------------------------- MODULE Catalog -------------------------------
(***************************************************************************)
(* The song catalogue: the composition of the songs directory and the      *)
(* imported sources (FileCatalogSource, sky_native_adapters/src/lib.rs),   *)
(* the index made of it (CatalogIndex, sky_app_core/src/catalog.rs), and   *)
(* the commands search, detail and reload of native_runtime.rs as far as   *)
(* the index goes, with a user interface that reads a result page by page. *)
(*                                                                         *)
(* A path is a model value; paths that differ in case only have the same   *)
(* Folded name, which stands for the song ID (no hash collides).  A query  *)
(* gives every title a score: 2 contains it, 1 is similar enough, 0 not.   *)
(***************************************************************************)
EXTENDS Integers, Sequences, FiniteSets, SequencesExt

CONSTANTS
  PathOrder,        \* all paths, in the order of their names
  Folded,           \* normalized_canonical_path
  TitleRank,        \* where the title of a path sorts; equal titles are possible
  Queries, Score,   \* [query -> [path -> 0..2]]
  EmptyQuery, OneCharacter,   \* the queries that are treated apart
  Playlist,         \* the songs of a playlist, by ID
  Primary, Imports, \* the songs directory, and the imported sources in order
  Contents,         \* what a source may hold: sets of paths, or Unreadable
  Unreadable,
  PageSize,
  MaxReloads        \* bound

VARIABLES
  disk,             \* what every source holds
  catalog,          \* CatalogState: generation, entries, by_id, primary_membership
  reloading,        \* the composition a reload has made and not yet installed
  reloads,
  view,             \* the list of the user interface: query, source, generation, rows
  search,           \* the search under way: allowed IDs, generation asked for
  shown,            \* the last answer to a song ID: [id, path]
  past              \* history: the catalogue of every generation, and what was readable

vars == <<disk, catalog, reloading, reloads, view, search, shown, past>>

Nothing == <<>>
Sources == {Primary} \union ToSet(Imports)
Readable(s) == disk[s] # Unreadable
PathsIn(s) == IF Readable(s) THEN disk[s] ELSE {}
Ids(paths) == {Folded[p] : p \in paths}

\* The loop over the imports: one that is missing or fails counts as empty.
Imported == UNION {PathsIn(Imports[i]) : i \in DOMAIN Imports}

\* catalog_composition_with_imports, sorted by path.
Composition ==
  LET paths == PathsIn(Primary) \union Imported
  IN [entries |-> SelectSeq(PathOrder, LAMBDA p : p \in paths),
      primary |-> Ids(PathsIn(Primary)),
      readable |-> Ids(UNION {PathsIn(s) : s \in Sources})]

\* Of the paths that differ in case only the first one is kept.
First(paths) ==
  FoldLeft(LAMBDA kept, p : IF Folded[p] \in Ids(ToSet(kept)) THEN kept ELSE Append(kept, p),
           <<>>, paths)

Ranks == {TitleRank[p] : p \in ToSet(PathOrder)}

\* A stable sort by title.
ByTitle(paths) ==
  FlattenSeq([r \in 1..Cardinality(Ranks) |-> SelectSeq(paths, LAMBDA p : TitleRank[p] = r)])

PositionsIn(entries) ==
  [id \in Ids(ToSet(entries)) |-> CHOOSE i \in DOMAIN entries : Folded[entries[i]] = id]

\* MUTANT: the positions are those before the sort.
BugReplaced(composition) ==
  [generation |-> catalog.generation + 1, entries |-> ByTitle(First(composition.entries)),
   byId |-> PositionsIn(First(composition.entries)), primary |-> composition.primary]

\* CatalogIndex::replace_entries, and the membership that goes with it.
Replaced(composition) ==
  LET entries == ByTitle(First(composition.entries))
  IN [generation |-> catalog.generation + 1, entries |-> entries,
      byId |-> PositionsIn(entries), primary |-> composition.primary]

Past(c, composition) ==
  [entries |-> c.entries, primary |-> c.primary, readable |-> composition.readable]

\* check_generation; 0 stands for a request without one.
Current(generation) == generation = 0 \/ generation = catalog.generation

\* WRatioRanker::rank: by score, then by position.
Ranked(entries, query) ==
  SelectSeq(entries, LAMBDA p : Score[query][p] = 2)
    \o SelectSeq(entries, LAMBDA p : Score[query][p] = 1)

\* search_with_allowed_ids before the window is cut out.
Results(entries, query, allowed) ==
  LET candidates == SelectSeq(entries, LAMBDA p : Folded[p] \in allowed)
  IN IF query = EmptyQuery THEN candidates
     ELSE IF query = OneCharacter THEN SelectSeq(candidates, LAMBDA p : Score[query][p] = 2)
     ELSE Ranked(candidates, query)

Window(rows, offset) ==
  SubSeq(rows, offset + 1, IF offset + PageSize < Len(rows) THEN offset + PageSize ELSE Len(rows))

-----------------------------------------------------------------------------
Init ==
  /\ disk \in [Sources -> Contents] /\ Readable(Primary)
  /\ catalog = [generation |-> 0, entries |-> <<>>, byId |-> <<>>, primary |-> {}]
  /\ reloading = Nothing /\ reloads = 0
  /\ view = [query |-> EmptyQuery, source |-> "all", generation |-> 0, rows |-> <<>>, total |-> 0, named |-> FALSE]
  /\ search = Nothing /\ shown = Nothing /\ past = <<>>

\* Files come and go, a drive is taken out or put back.
DiskChanges ==
  /\ reloads < MaxReloads
  /\ \E s \in Sources, c \in Contents : c # disk[s] /\ disk' = [disk EXCEPT ![s] = c]
  /\ UNCHANGED <<catalog, reloading, reloads, view, search, shown, past>>

\* ensure_catalog_loaded and reload compose with no lock held; a songs
\* directory that cannot be read ends them.
Compose ==
  /\ reloading = Nothing /\ reloads < MaxReloads
  /\ reloads' = reloads + 1
  /\ reloading' = IF Readable(Primary) THEN Composition ELSE Nothing
  /\ UNCHANGED <<disk, catalog, view, search, shown, past>>

Install ==
  /\ reloading # Nothing
  /\ catalog' = Replaced(reloading)
  /\ past' = Append(past, Past(catalog', reloading))
  /\ reloading' = Nothing
  /\ UNCHANGED <<disk, reloads, view, search, shown>>

\* The list is started anew: another query or source, or catalog.changed.
Restarts(query, source, generation) ==
  view' = [query |-> query, source |-> source, generation |-> generation, rows |-> <<>>,
           total |-> 0, named |-> generation > 0]

NewView ==
  /\ search = Nothing /\ catalog.generation > 0
  /\ \E q \in Queries, s \in {"all", "playlist"}, g \in {view.generation, catalog.generation} :
       Restarts(q, s, g)
  /\ view' # view
  /\ UNCHANGED <<disk, catalog, reloading, reloads, search, shown, past>>

\* search, first part: the allowed IDs, under the lock of the catalogue.
SearchAllows ==
  /\ search = Nothing /\ catalog.generation > 0
  /\ view.rows = <<>> \/ Len(view.rows) < view.total
  /\ search' = [allowed |-> IF view.source = "all" THEN catalog.primary ELSE Playlist]
  /\ UNCHANGED <<disk, catalog, reloading, reloads, view, shown, past>>

\* Second part: the page, under the lock again.
SearchPages ==
  /\ search # Nothing
  /\ LET rows == Results(catalog.entries, view.query, search.allowed)
     IN view' = IF ~Current(view.generation) THEN view
                ELSE [view EXCEPT !.generation = catalog.generation, !.total = Len(rows),
                                  !.rows = @ \o Window(rows, Len(view.rows))]
  /\ search' = Nothing
  /\ UNCHANGED <<disk, catalog, reloading, reloads, shown, past>>

\* detail and prepare: the song of a row, by entry_for_song_id.
Lookup ==
  /\ \E i \in DOMAIN view.rows :
       LET id == Folded[view.rows[i]]
       IN /\ Current(view.generation) /\ id \in DOMAIN catalog.byId
          /\ shown' = [id |-> id, path |-> catalog.entries[catalog.byId[id]]]
  /\ UNCHANGED <<disk, catalog, reloading, reloads, view, search, past>>

Next == DiskChanges \/ Compose \/ Install \/ NewView \/ SearchAllows \/ SearchPages \/ Lookup

CatalogSpec == Init /\ [][Next]_vars

-----------------------------------------------------------------------------

\* A song that is in some readable source is listed, exactly once however many
\* sources have it and whatever the others do, and the ID of a row leads to the
\* file of that song (catalog_composition_with_imports, replace_entries).
SongsAreFound ==
  /\ \A g \in DOMAIN past :
       /\ Ids(ToSet(past[g].entries)) = past[g].readable
       /\ Len(past[g].entries) = Cardinality(past[g].readable)
  /\ shown # Nothing => Folded[shown.path] = shown.id
=============================================================================

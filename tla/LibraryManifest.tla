--------------------------- MODULE LibraryManifest ---------------------------
(***************************************************************************)
(* The library manifest: LibraryManifestService (sky_app_core, library.rs) *)
(* over JsonLibraryManifestStore (sky_native_adapters, lib.rs).  It holds  *)
(* the playlists and the imported sources.  The document is read once, at  *)
(* the start; every operation makes the next manifest, validates it, saves *)
(* it and only then takes it over.  One operation runs at a time.          *)
(*                                                                         *)
(* Names, path lengths and the form of identifiers are left out; paths are *)
(* compared without regard to case.                                        *)
(***************************************************************************)
EXTENDS AtomicReplace, Naturals, Sequences, SequencesExt

CONSTANTS
  Down,             \* no manifest: the program is not running
  Playlists, Sources, Songs,
  Paths, CaseOf(_), \* CaseOf: a path without regard to case
  MaxPlaylists, MaxSources,  \* MAX_COLLECTIONS, MAX_IMPORTED_SOURCES
  MaxSongs,         \* MAX_COLLECTION_SONGS
  MaxOperations,    \* bound: operations, restarts included
  MaxFaults         \* bound: failing steps and crashes

VARIABLES
  memory,           \* LibraryManifestService.current
  op,               \* the manifest under way to the disk, or none
  operations, faults,
  possible          \* history: the manifests a restart may find

vars == <<fileVars, memory, op, operations, faults, possible>>

\* A playlist is [id, songs], a source [id, path].
Manifest(version, imports, playlists) ==
  [version |-> version, imports |-> imports, playlists |-> playlists]
NewManifest == Manifest(1, <<>>, <<>>)

Idle == [pc |-> "idle", next |-> NewManifest]

Ids(seq) == {seq[i].id : i \in DOMAIN seq}
Distinct(seq) == \A i, j \in DOMAIN seq : i # j => seq[i].id # seq[j].id
Find(playlists, id) == SelectInSeq(playlists, LAMBDA p : p.id = id)

\* validate_manifest
Valid(m) ==
  /\ m.version = 1
  /\ Len(m.playlists) <= MaxPlaylists /\ Distinct(m.playlists)
  /\ \A i \in DOMAIN m.playlists : Len(m.playlists[i].songs) <= MaxSongs
  /\ Len(m.imports) <= MaxSources /\ Distinct(m.imports)

\* JsonLibraryManifestStore::load, then LibraryManifestService::load, which
\* gives a version to a manifest without one.
Readable(f) == f = Missing \/ IsWhole(f)
Read(f) == IF IsWhole(f) THEN f.is ELSE NewManifest
Versioned(m) == IF m.version = 0 THEN [m EXCEPT !.version = 1] ELSE m

Init ==
  /\ file \in {Missing, Torn, Whole([NewManifest EXCEPT !.version = 0]),
               Whole([NewManifest EXCEPT !.version = 2])}
  /\ temp = Missing /\ memory = Down /\ op = Idle /\ operations = 0 /\ faults = 0
  /\ possible = {Read(file)}

-----------------------------------------------------------------------------
Running == memory # Down
Step(pc) == op.pc = pc
Operates == Step("idle") /\ operations < MaxOperations /\ operations' = operations + 1
Fault == faults < MaxFaults /\ faults' = faults + 1

\* A manifest that cannot be read, or is not valid, is no manifest: the program
\* does not start, and nothing is written over it.
Load ==
  /\ Operates /\ ~Running
  /\ LET m == Versioned(Read(file))
     IN  IF ~Readable(file) \/ ~Valid(m)
           THEN UNCHANGED <<memory, op, possible>>
           ELSE IF m # Read(file)
             THEN /\ op' = [pc |-> "write", next |-> m]
                  /\ possible' = possible \union {m}
                  /\ UNCHANGED memory
             ELSE memory' = m /\ possible' = {m} /\ UNCHANGED op
  /\ UNCHANGED <<fileVars, faults>>

\* commit: an invalid manifest is refused.
Commit(next) ==
  /\ IF Valid(next)
       THEN op' = [pc |-> "write", next |-> next] /\ possible' = possible \union {next}
       ELSE UNCHANGED <<op, possible>>
  /\ UNCHANGED <<fileVars, memory, faults>>

Operation == Operates /\ Running

\* create_collection: identifiers are drawn at random by the caller.
CreatePlaylist ==
  /\ Operation
  /\ \E p \in Playlists \ Ids(memory.playlists) :
       /\ Len(memory.playlists) < MaxPlaylists
       /\ Commit([memory EXCEPT !.playlists = Append(@, [id |-> p, songs |-> <<>>])])

DeletePlaylist ==
  /\ Operation
  /\ \E p \in Ids(memory.playlists) :
       Commit([memory EXCEPT !.playlists = RemoveAt(@, Find(@, p))])

\* Songs that a playlist has already stay where they are.
With(songs, more) == songs \o SelectSeq(more, LAMBDA s : ~Contains(songs, s))
Without(songs, less) == SelectSeq(songs, LAMBDA s : ~Contains(less, s))
Requests == {<<s>> : s \in Songs} \union {<<s, t>> : s, t \in Songs}

Unrepeated(r) == IF r[1] = r[Len(r)] THEN <<r[1]>> ELSE r

\* add_songs and remove_songs
AddSongs ==
  /\ Operation
  /\ \E i \in DOMAIN memory.playlists, r \in Requests :
       Commit([memory EXCEPT !.playlists[i].songs = With(@, Unrepeated(r))])

RemoveSongs ==
  /\ Operation
  /\ \E i \in DOMAIN memory.playlists, r \in Requests :
       Commit([memory EXCEPT !.playlists[i].songs = Without(@, r)])

\* A source whose path is there already, in whatever case, is not added.
Known(imports, path) == \E i \in DOMAIN imports : CaseOf(imports[i].path) = CaseOf(path)
WithImport(imports, source, path) ==
  IF Known(imports, path) THEN imports ELSE Append(imports, [id |-> source, path |-> path])

\* register_imports, of one source.
RegisterImport ==
  /\ Operation
  /\ \E source \in Sources \ Ids(memory.imports), path \in Paths :
       LET next == [memory EXCEPT !.imports = WithImport(@, source, path)]
       IN  /\ next # memory
           /\ Commit(next)

\* import_and_add_songs: the source and its songs are one transaction.
ImportAndAddSongs ==
  /\ Operation
  /\ \E i \in DOMAIN memory.playlists, source \in Sources \ Ids(memory.imports), path \in Paths, s \in Songs :
       LET next == [memory EXCEPT !.imports = WithImport(@, source, path),
                                  !.playlists[i].songs = With(@, <<s>>)]
       IN  /\ next # memory
           /\ Commit(next)

RemoveImport ==
  /\ Operation
  /\ \E source \in Ids(memory.imports) :
       Commit([memory EXCEPT !.imports = RemoveAt(@, SelectInSeq(@, LAMBDA x : x.id = source))])

-----------------------------------------------------------------------------
Write ==
  /\ Step("write") /\ WriteTemp(op.next)
  /\ op' = [op EXCEPT !.pc = "replace"]
  /\ UNCHANGED <<memory, operations, faults, possible>>

Move ==
  /\ Step("replace") /\ Replace
  /\ memory' = op.next /\ op' = Idle /\ possible' = {op.next}
  /\ UNCHANGED <<operations, faults>>

Fails ==
  /\ Fault
  /\ \/ Step("write") /\ WriteFails
     \/ Step("replace") /\ ReplaceFails
  /\ op' = Idle
  /\ UNCHANGED <<memory, operations, possible>>

Crash ==
  /\ Fault /\ (Running \/ ~Step("idle"))
  /\ memory' = Down /\ op' = Idle
  /\ temp' \in IF Step("write") THEN {temp, Torn} ELSE {temp}
  /\ UNCHANGED <<file, operations, possible>>

Next ==
  \/ Load \/ CreatePlaylist \/ DeletePlaylist \/ AddSongs \/ RemoveSongs
  \/ RegisterImport \/ ImportAndAddSongs \/ RemoveImport
  \/ Write \/ Move \/ Fails \/ Crash

Spec == Init /\ [][Next]_vars

-----------------------------------------------------------------------------
\* Memory is the document, and a crash or a failure at any step of an operation
\* leaves the manifest of before it or of after it; a document that could not
\* be read, or is of another version, is never written over.
ManifestIsDurable ==
  /\ Running /\ Step("idle") => file = Whole(memory) \/ (file = Missing /\ memory = NewManifest)
  /\ Read(file) \in possible
  /\ (file = Torn \/ Read(file).version = 2) => ~Running

\* However it came about, a manifest names every source once, also by another
\* case of its path, and every song of a playlist once.
SourcesAndSongsAreDistinct ==
  Running =>
    /\ \A i, j \in DOMAIN memory.imports :
         i # j => /\ memory.imports[i].id # memory.imports[j].id
                  /\ CaseOf(memory.imports[i].path) # CaseOf(memory.imports[j].path)
    /\ \A i \in DOMAIN memory.playlists : IsInjective(memory.playlists[i].songs)
=============================================================================

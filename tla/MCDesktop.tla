------------------------------ MODULE MCDesktop ------------------------------
(***************************************************************************)
(* The desktop program's commands on the library, with the parts that its  *)
(* settings, its library, its updates and its reports rest on, each on a   *)
(* small instance of its own.  They share no state here (the README says   *)
(* where the code joins them): a behaviour runs one of them, which says    *)
(* which.                                                                  *)
(***************************************************************************)
EXTENDS LibraryCommands, Settings, Update, HealthReports

CONSTANTS s1, s2, p1, p2, i1, i2, k1, k2

VARIABLES
  which,
  manifestFile, manifestTemp, manifestMemory, manifestOp, manifestOperations,
  manifestFaults, manifestPossible,
  notes, tempo,
  disk, catalogState, reloading, reloads, view, search, looked, past

manifestVars == <<manifestFile, manifestTemp, manifestMemory, manifestOp,
                  manifestOperations, manifestFaults, manifestPossible>>
scheduleVars == <<notes, tempo>>
catalogVars  == <<disk, catalogState, reloading, reloads, view, search, looked, past>>

\* Documents of this version, with or without a local hold, and of schema 3.
Keys == [NoKeys EXCEPT !.other = "kept"]
SomeDocuments ==
  {[Keys EXCEPT !.profile = [name |-> n, hold |-> h]] :
     n \in {"audience_safe", "local"}, h \in {Absent, 5, 9}}
  \union {[Keys EXCEPT !.schema = 3, !.hold = h, !.likes = l, !.inUpdate = u] :
     h \in {6, 7}, l \in {Absent, {s1}}, u \in {Absent, "kept"}}

IgnoringCase(path) == IF path = "B" THEN "b" ELSE path

Manifest == INSTANCE LibraryManifest WITH
  file <- manifestFile, temp <- manifestTemp, memory <- manifestMemory,
  op <- manifestOp, operations <- manifestOperations, faults <- manifestFaults,
  possible <- manifestPossible,
  Down <- Absent, Playlists <- {p1, p2}, Sources <- {i1, i2}, Songs <- {s1, s2},
  Paths <- {"a", "b", "B"}, CaseOf <- IgnoringCase,
  MaxPlaylists <- 2, MaxSources <- 2, MaxSongs <- 2, MaxOperations <- 5, MaxFaults <- 1

Schedule == INSTANCE Schedule WITH
  Keys <- {k1, k2}, Frame <- 1, HoldQuarters <- 6, Grace <- 0, Margin <- 0,
  Tempos <- {<<1, 1>>, <<3, 2>>, <<2, 3>>}, MaxTime <- 7, MaxNotes <- 4,
  DenseWindow <- 3, DenseCount <- 2, DenseMerge <- 1, PeakWindow <- 5

\* "B" and "b" differ in case only, with another name between them; b and c
\* have the same title, and a sorts after them.
Names == {"B", "a", "b", "c"}
Found == [q \in {"", "x", "xyz"} |-> [p \in Names |->
            IF q = "" \/ p = "a" THEN 2 ELSE IF p = "c" /\ q # "x" THEN 1 ELSE 0]]

Catalog == INSTANCE Catalog WITH
  catalog <- catalogState, shown <- looked,
  PathOrder <- <<"B", "a", "b", "c">>, Folded <- [p \in Names |-> IgnoringCase(p)],
  TitleRank <- [p \in Names |-> IF p = "a" THEN 2 ELSE 1],
  Queries <- {"", "x", "xyz"}, EmptyQuery <- "", OneCharacter <- "x", Score <- Found,
  Playlist <- {"a", "b"}, Primary <- "songs", Imports <- <<"usb", "folder">>,
  Contents <- {{}, {"a", "b"}, {"B", "c"}, Absent}, Unreadable <- Absent,
  PageSize <- 1, MaxReloads <- 2

-----------------------------------------------------------------------------
\* What is not run starts in one of its initial states.
MCInit ==
  /\ which \in {"commands", "settings", "manifest", "schedule", "catalog", "update", "reports"}
  /\ Init /\ (which = "commands" \/ catalog.generation = 0)
  /\ SettingsInit /\ (which = "settings" \/ file = Missing)
  /\ Manifest!Init /\ (which = "manifest" \/ manifestFile = Missing)
  /\ Schedule!ScheduleInit /\ (which = "schedule" \/ tempo = <<1, 1>>)
  /\ Catalog!Init /\ (which = "catalog" \/ \A s \in DOMAIN disk : disk[s] = {})
  /\ UpdateInit /\ (which = "update" \/ preferences.channel = "stable")
  /\ ReportsInit /\ (which = "reports" \/ physical)

Rest(part) ==
  /\ which = part /\ UNCHANGED which
  /\ IF part = "commands" THEN TRUE ELSE UNCHANGED vars
  /\ IF part = "settings" THEN TRUE ELSE UNCHANGED settingsVars
  /\ IF part = "manifest" THEN TRUE ELSE UNCHANGED manifestVars
  /\ IF part = "schedule" THEN TRUE ELSE UNCHANGED scheduleVars
  /\ IF part = "catalog" THEN TRUE ELSE UNCHANGED catalogVars
  /\ IF part = "update" THEN TRUE ELSE UNCHANGED updateVars
  /\ IF part = "reports" THEN TRUE ELSE UNCHANGED reportVars

MCNext ==
  \/ Rest("commands") /\ Next
  \/ Rest("settings") /\ SettingsNext
  \/ Rest("manifest") /\ Manifest!Next
  \/ Rest("schedule") /\ Schedule!ScheduleNext
  \/ Rest("catalog") /\ Catalog!Next
  \/ Rest("update") /\ UpdateNext
  \/ Rest("reports") /\ ReportsNext

mcVars == <<which, vars, settingsVars, manifestVars, scheduleVars, catalogVars,
            updateVars, reportVars>>

MCSpec == MCInit /\ [][MCNext]_mcVars

\* Two states that differ differ in the part that runs: TLC need not look at
\* the others, which have not moved.
MCView ==
  <<which, CASE which = "commands" -> vars
             [] which = "settings" -> settingsVars
             [] which = "manifest" -> manifestVars
             [] which = "schedule" -> scheduleVars
             [] which = "catalog"  -> catalogVars
             [] which = "update"   -> updateVars
             [] which = "reports"  -> reportVars>>

-----------------------------------------------------------------------------
\* Schedule: what is admitted can be played as it is written, and its analysis
\* is true of the song (song.rs of sky_app_core).
AdmittedSchedulesArePlayable ==
  which = "schedule" => Schedule!AdmittedSchedulesArePlayable /\ Schedule!AnalysisIsTrue

\* Catalog and LibraryManifest: every song that can be read is listed once, and
\* its row leads to it; a restart finds the manifest that was promised, whatever
\* failed or crashed on the way to the disk, and it names a source and a song of
\* a playlist once (sky_native_adapters catalog_composition_with_imports,
\* library.rs of sky_app_core).
SongsAreFound ==
  /\ Catalog!SongsAreFound
  /\ which = "manifest" => Manifest!ManifestIsDurable /\ Manifest!SourcesAndSongsAreDistinct
=============================================================================

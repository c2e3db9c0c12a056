------------------------------ MODULE Settings ------------------------------
(***************************************************************************)
(* The application settings: SettingsService (sky_app_core, settings.rs)   *)
(* over JsonSettingsStore (sky_native_adapters, lib.rs).  The document     *)
(* config.json is read again before most operations, migrated from the     *)
(* layouts of older versions when it is loaded, and on a save merged with  *)
(* the settings in memory, so that keys this version does not know stay.   *)
(* The runtime calls the service under one lock, so one operation runs at  *)
(* a time; it may fail, or the program may stop, at any of its steps.      *)
(*                                                                         *)
(* Of the known keys the hold, the liked songs and the time of the last    *)
(* update check are kept, of the unknown ones one, and one inside of       *)
(* "update".  Holds are in quarters of a frame.                            *)
(***************************************************************************)
EXTENDS AtomicReplace, Integers

CONSTANTS
  Absent,           \* no such key, and no settings: not a value of any kind
  Likeable,
  Documents,        \* the documents a user's edit, or an older version, leaves
  MaxOperations,    \* bound: operations, restarts included
  MaxFaults,        \* bound: failing steps and crashes
  MaxEdits          \* bound: edits of the file by the user

Options == {4, 5, 6}        \* HOLD_FRAME_OPTIONS
DefaultHold == 4

\* The documents there may be, and the settings in memory.
DocumentRecords ==
  [schema : Nat, hold : Int \cup {Absent},
   profile : {Absent} \cup [name : STRING, hold : Int \cup {Absent}],
   likes : {Absent} \cup SUBSET Likeable, checked : Nat \cup {Absent},
   other : {Absent, "kept"}, inUpdate : {Absent, "kept"}]

SettingsRecords == [hold : Options, likes : SUBSET Likeable, checked : Nat]

ASSUME DocumentsAreDocuments == Documents \subseteq DocumentRecords
ASSUME AbsentIsNoValue ==
  Absent \notin Int /\ Absent \notin SettingsRecords /\ \A l \in SUBSET Likeable : l # Absent

VARIABLES
  memory,           \* SettingsService.current; Absent when the program is not running
  op,               \* the operation under way
  operations, faults, edits,
  possible,         \* history: what a restart may find, by what was promised
  foreign,          \* history: the unknown keys that were last in a readable file
  blind             \* history: a file that is there could not be read

opVars == <<memory, op, operations, faults, edits>>
history == <<possible, foreign, blind>>
settingsVars == <<fileVars, opVars, history>>

NoOp == [kind |-> "none", pc |-> "idle", next |-> Absent, contents |-> Absent]

\* A missing document, or one that is not an object, is an object without keys.
NoKeys == [schema |-> 0, hold |-> Absent, profile |-> Absent, likes |-> Absent,
           checked |-> Absent, other |-> Absent, inUpdate |-> Absent]

Object(f) == IF IsWhole(f) THEN f.is ELSE NoKeys

\* nearest_hold_frames: of two options at the same distance the longer one.
Distance(a, b) == IF a > b THEN a - b ELSE b - a
NearestHold(value) ==
  CHOOSE o \in Options : \A p \in Options :
    Distance(o, value) < Distance(p, value)
    \/ (Distance(o, value) = Distance(p, value) /\ o >= p)

\* The hold of a document that has none: that of its legacy timing profile,
\* else what the profile's name stands for (legacy_profile_hold).
Candidate(profile) ==
  IF profile = Absent THEN DefaultHold
  ELSE IF profile.hold # Absent THEN NearestHold(profile.hold)
  ELSE IF profile.name = "audience_safe" THEN 6 ELSE DefaultHold

\* migrate_raw
Migrate(d) ==
  [d EXCEPT !.schema = 3, !.profile = Absent,
            !.hold = IF @ = Absent THEN Candidate(d.profile)
                     ELSE IF @ \in Options THEN @ ELSE DefaultHold]

\* settings_from_raw and normalize_settings
SettingsOf(d) ==
  [hold |-> IF d.hold \in Options THEN d.hold ELSE DefaultHold,
   likes |-> IF d.likes = Absent THEN {} ELSE d.likes,
   checked |-> IF d.checked = Absent THEN 0 ELSE d.checked]

\* overlay_settings: an empty set of likes is written only over another one.
Overlay(d, s) ==
  [d EXCEPT !.schema = 3, !.profile = Absent, !.hold = s.hold, !.checked = s.checked,
            !.likes = IF s.likes # {} \/ @ # Absent THEN s.likes ELSE @]

Unknown(f) == <<Object(f).other, Object(f).inUpdate>>
AfterRestart == SettingsOf(Migrate(Object(file)))

SettingsInit ==
  /\ file \in {Missing, Torn} \union {Whole(d) : d \in Documents} /\ temp = Missing
  /\ memory = Absent /\ op = NoOp /\ operations = 0 /\ faults = 0 /\ edits = 0
  /\ possible = {AfterRestart} /\ foreign = Unknown(file) /\ blind = FALSE

-----------------------------------------------------------------------------
ProgramRuns == memory # Absent
OpAt(pc) == op.pc = pc
OpEnds == op' = NoOp
OpGoes(pc, contents) == op' = [op EXCEPT !.pc = pc, !.contents = contents]
Fault == faults < MaxFaults /\ faults' = faults + 1

\* The operations of the service; load starts the program.  The runtime
\* reloads before every one of them but a patch.
Begin(kind) ==
  /\ OpAt("idle") /\ operations < MaxOperations
  /\ (kind = "load") = ~ProgramRuns
  /\ op' = [NoOp EXCEPT !.kind = kind, !.pc = IF kind = "patch" THEN "change" ELSE "read"]
  /\ operations' = operations + 1
  /\ UNCHANGED <<fileVars, memory, faults, edits, history>>

\* What the store's load makes of what it has read; a document that the
\* migration changes is written back first.
AfterLoad(d) ==
  IF op.kind \in {"load", "reload"} THEN OpEnds ELSE OpGoes("change", Absent)

LoadFrom(d) ==
  IF Migrate(d) # d
    THEN OpGoes("write", Migrate(d)) /\ UNCHANGED <<memory, possible>>
    ELSE /\ memory' = SettingsOf(d) /\ possible' = {SettingsOf(d)} /\ AfterLoad(d)

SaveOver(d) ==
  OpGoes("write", Overlay(d, op.next)) /\ UNCHANGED <<memory, possible>>

\* read_object, for a load or a save.
Read ==
  /\ \/ OpAt("read") /\ LoadFrom(Object(file))
     \/ OpAt("save") /\ SaveOver(Object(file))
  /\ UNCHANGED <<fileVars, operations, faults, edits, foreign, blind>>

\* A file that is there and cannot be read passes for one that is not.
ReadFails ==
  /\ Fault /\ IsWhole(file)
  /\ blind' = TRUE
  /\ \/ OpAt("read") /\ LoadFrom(NoKeys)
     \/ OpAt("save") /\ SaveOver(NoKeys)
  /\ UNCHANGED <<fileVars, operations, edits, foreign>>

Write ==
  /\ OpAt("write") /\ WriteTemp(op.contents)
  /\ op' = [op EXCEPT !.pc = "replace"]
  /\ UNCHANGED <<memory, operations, faults, edits, history>>

\* The service takes over what the store has loaded, or saved.
Commit ==
  IF op.next = Absent
    THEN memory' = SettingsOf(op.contents) /\ AfterLoad(op.contents)
    ELSE memory' = op.next /\ OpEnds

Move ==
  /\ OpAt("replace") /\ Replace
  /\ Commit
  /\ possible' = {memory'}
  /\ UNCHANGED <<operations, faults, edits, foreign, blind>>

\* The operation fails: a start that fails leaves the program down.
OpFails ==
  /\ Fault
  /\ \/ OpAt("write") /\ WriteFails
     \/ OpAt("replace") /\ ReplaceFails
  /\ OpEnds
  /\ UNCHANGED <<memory, operations, edits, history>>

\* set_song_liked, patch, record_update_success or record_update_error: the
\* next settings; an operation that changes nothing saves nothing.
Changed ==
  CASE op.kind = "like"  -> {[memory EXCEPT !.likes = l] : l \in UNION {{memory.likes \ {s}, memory.likes \union {s}} : s \in Likeable}}
    [] op.kind = "patch" -> {[memory EXCEPT !.hold = h] : h \in Options}
    [] op.kind = "check" -> {[memory EXCEPT !.checked = operations]}

\* MUTANT: memory changes before the save.
BugChange ==
  /\ OpAt("change")
  /\ \E next \in Changed :
       IF next = memory
         THEN OpEnds /\ UNCHANGED <<memory, possible>>
         ELSE /\ op' = [op EXCEPT !.next = next, !.pc = "save"]
              /\ memory' = next /\ possible' = possible \union {next}
  /\ UNCHANGED <<fileVars, operations, faults, edits, foreign, blind>>

Change ==
  /\ OpAt("change")
  /\ \E next \in Changed :
       IF next = memory
         THEN OpEnds /\ UNCHANGED possible
         ELSE op' = [op EXCEPT !.next = next, !.pc = "save"] /\ possible' = possible \union {next}
  /\ UNCHANGED <<fileVars, memory, operations, faults, edits, foreign, blind>>

\* The program stops; a write under way is cut short or has just ended.
Crash ==
  /\ Fault /\ (ProgramRuns \/ ~OpAt("idle"))
  /\ memory' = Absent /\ OpEnds
  /\ temp' \in IF OpAt("write") THEN {temp, Torn} ELSE {temp}
  /\ UNCHANGED <<file, operations, edits, history>>

\* The user, or another version, edits the document between two operations.
Edit ==
  /\ OpAt("idle") /\ edits < MaxEdits
  /\ edits' = edits + 1
  /\ file' \in {Missing, Torn} \union {Whole(d) : d \in Documents}
  /\ possible' = {SettingsOf(Migrate(Object(file')))}
  /\ foreign' = Unknown(file')
  /\ UNCHANGED <<temp, memory, op, operations, faults, blind>>

SettingsNext ==
  \/ \E kind \in {"load", "reload", "like", "patch", "check"} : Begin(kind)
  \/ Read \/ ReadFails \/ Write \/ Move \/ OpFails \/ Change \/ Crash \/ Edit

SettingsSpec == SettingsInit /\ [][SettingsNext]_settingsVars

-----------------------------------------------------------------------------
\* What the program holds in memory is what a restart will load, and a restart
\* at any step of an operation loads the settings of before it or of after it:
\* a failed save changes neither, and a second migration changes nothing more.
\* (A user's edit is known only after the next reload.)
SettingsAreDurable ==
  ~blind =>
    /\ AfterRestart \in possible
    /\ ProgramRuns /\ OpAt("idle") /\ edits = 0 => AfterRestart = memory

\* Keys that this version does not know, at the top of the document or inside of
\* "update", survive migrations and saves.  (The sections of the hotkeys and of the
\* safety prompts are written anew and keep only what is known.)
UnknownKeysSurvive == ~blind => Unknown(file) = foreign

\* Settings: what a restart loads was promised, whatever failed or crashed on the
\* way to the disk, and no key that UnknownKeysSurvive speaks of is lost (settings.rs of
\* sky_app_core, sky_native_adapters).
DocumentsAreDurable == SettingsAreDurable /\ UnknownKeysSurvive
=============================================================================

---------------------------- MODULE AtomicReplace ----------------------------
(***************************************************************************)
(* atomic_replace of sky_native_adapters (lib.rs): the new contents go to  *)
(* a temporary file beside the document, which is then moved over it.      *)
(* Either step may fail, and the program may stop between the two.         *)
(* Contents are whole documents; what a write that failed, or that a crash *)
(* cut short, leaves in the temporary file is Torn.                        *)
(***************************************************************************)
VARIABLES
  file,             \* the document: Missing, Torn (not readable as one), or a value
  temp              \* the file <name>.json.tmp

fileVars == <<file, temp>>

Missing == [kind |-> "missing"]
Torn == [kind |-> "torn"]
Whole(d) == [kind |-> "document", is |-> d]
IsWhole(f) == f.kind = "document"

\* create_dir_all and fs::write, which truncates what is there.
WriteTemp(d) == temp' = Whole(d) /\ UNCHANGED file
WriteFails == temp' \in {temp, Torn} /\ UNCHANGED file

\* replace_file: MoveFileExW with MOVEFILE_REPLACE_EXISTING.
Replace == file' = temp /\ temp' = Missing

\* The temporary file is removed, if it can be.
ReplaceFails == temp' \in {temp, Missing} /\ UNCHANGED file
=============================================================================

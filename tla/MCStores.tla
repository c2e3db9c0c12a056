------------------------------- MODULE MCStores -------------------------------
(***************************************************************************)
(* The desktop's store: its view of the library, with two songs and three  *)
(* generations of the catalogue, and its view of the playback, with two    *)
(* songs that nothing tells apart.  The two views meet in the selected     *)
(* song and the prepared playback, which each models for itself: a         *)
(* behaviour runs one of them, which says which.                           *)
(***************************************************************************)
EXTENDS LibraryStore, PlaybackStore, TLC

CONSTANTS x, y

VARIABLE which

Symmetry == Permutations({x, y})

-----------------------------------------------------------------------------
MCInit ==
  /\ which \in {"library", "playback"}
  /\ StoreInit
  /\ PlaybackInit /\ (which = "playback" \/ chosen = x)

MCNext ==
  \/ which = "library" /\ UNCHANGED <<which, playbackVars>> /\ StoreNext
  \/ which = "playback" /\ UNCHANGED <<which, storeVars>> /\ PlaybackNext

mcVars == <<which, storeVars, playbackVars>>

MCSpec == MCInit /\ [][MCNext]_mcVars

\* Two states that differ differ in the part that runs: TLC need not look at
\* the other, which has not moved.
MCView == <<which, IF which = "library" THEN storeVars ELSE playbackVars>>
=============================================================================

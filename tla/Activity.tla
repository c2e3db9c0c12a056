------------------------------ MODULE Activity ------------------------------
(***************************************************************************)
(* The admission authority of the desktop program (app_state.rs): at most  *)
(* one of physical playback, calibration and update installation owns the  *)
(* input boundary.  A granted request is a lease, an object whose Drop     *)
(* clears the flag it set; begin_shutdown clears two of the flags while    *)
(* their leases are still alive somewhere.                                 *)
(***************************************************************************)
EXTENDS Naturals

CONSTANTS
  Sessions,     \* identifiers of physical playback sessions
  Operations,   \* identifiers of calibration operations
  Updates,      \* update installations
  NoSession     \* physical_playback: None

ASSUME OwnersDiffer ==
  /\ Sessions \cap Operations = {}
  /\ Sessions \cap Updates = {}
  /\ Operations \cap Updates = {}
  /\ NoSession \notin Sessions

VARIABLES
  physical_playback,   \* the session that holds the boundary, or NoSession
  calibration_active,
  update_installing,
  closing,
  leases               \* the lease objects that have not been dropped

activity == <<physical_playback, calibration_active, update_installing, closing, leases>>

ActivityInit ==
  /\ physical_playback = NoSession
  /\ calibration_active = FALSE
  /\ update_installing = FALSE
  /\ closing = FALSE
  /\ leases = {}

\* Every reservation makes the same four tests, under one lock.
Admissible ==
  /\ ~closing
  /\ ~calibration_active
  /\ ~update_installing
  /\ physical_playback = NoSession

ReservePlayback(s) ==
  /\ Admissible
  /\ physical_playback' = s
  /\ leases' = leases \cup {s}
  /\ UNCHANGED <<calibration_active, update_installing, closing>>

ReserveCalibration(o) ==
  /\ Admissible
  /\ calibration_active' = TRUE
  /\ leases' = leases \cup {o}
  /\ UNCHANGED <<physical_playback, update_installing, closing>>

ReserveUpdate(u) ==
  /\ Admissible
  /\ update_installing' = TRUE
  /\ leases' = leases \cup {u}
  /\ UNCHANGED <<physical_playback, calibration_active, closing>>

\* Drop of a PhysicalActivityLease: the flag is cleared only if it is its own.
DropPlayback(s) ==
  /\ s \in leases
  /\ leases' = leases \ {s}
  /\ physical_playback' = IF physical_playback = s THEN NoSession ELSE physical_playback
  /\ UNCHANGED <<calibration_active, update_installing, closing>>

DropCalibration(o) ==
  /\ o \in leases
  /\ leases' = leases \ {o}
  /\ calibration_active' = FALSE
  /\ UNCHANGED <<physical_playback, update_installing, closing>>

DropUpdate(u) ==
  /\ u \in leases
  /\ leases' = leases \ {u}
  /\ update_installing' = FALSE
  /\ UNCHANGED <<physical_playback, calibration_active, closing>>

\* The leases stay with their owners: only the flags are cleared.
BeginShutdown ==
  /\ closing' = TRUE
  /\ physical_playback' = NoSession
  /\ calibration_active' = FALSE
  /\ UNCHANGED <<update_installing, leases>>

ActivityNext ==
  \/ \E s \in Sessions : ReservePlayback(s) \/ DropPlayback(s)
  \/ \E o \in Operations : ReserveCalibration(o) \/ DropCalibration(o)
  \/ \E u \in Updates : ReserveUpdate(u) \/ DropUpdate(u)
  \/ BeginShutdown

ActivitySpec == ActivityInit /\ [][ActivityNext]_activity

ActivityTypeOK ==
  /\ physical_playback \in Sessions \cup {NoSession}
  /\ calibration_active \in BOOLEAN
  /\ update_installing \in BOOLEAN
  /\ closing \in BOOLEAN
  /\ leases \subseteq Sessions \cup Operations \cup Updates

(***************************************************************************)
(* Two owners never hold the physical boundary together, not even when the *)
(* shutdown has cleared the flags while their leases were alive: the flags *)
(* are then no witness, and only the closing flag keeps a second owner out *)
(* (app_state.rs:62-167).                                                  *)
(***************************************************************************)
OneOwner == \A a, b \in leases : a = b
=============================================================================

SPECIFICATION FairSpec
CONSTANTS
  k1 = k1
  k2 = k2
  Slots <- MCSlots
  Schedules <- MCSchedules
  MinHold = 2
  MaxTick = 5
  MaxSuspends = 1
INVARIANTS
  LedgerIsConsistent
  NoInvariantFault
  AdmissionSuffices
  DirectCommitsAgree
PROPERTIES
  ImplementsLedger
  PlayedAsWritten
  ScheduleDrains
CHECK_DEADLOCK FALSE

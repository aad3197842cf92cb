SPECIFICATION Spec
CONSTANTS
  t1 = t1
  t2 = t2
  v1 = v1
  v2 = v2
  None = None
  Refused = Refused
  Unknown = Unknown
  Late = "late"
  Tasks <- MCTasks
  Outcomes <- MCOutcomes
  Slots <- MCSlots
  PrepareBy = 1
  ExecuteBy = 2
  Retention = 1
  MaxNow = 2
  MaxAuthority = 2
  Setups <- RetiredOffline
INVARIANTS
  RefusedNeverRan
CHECK_DEADLOCK FALSE

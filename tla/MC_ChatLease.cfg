\* Two tabs of any processes; writes may fail.
CONSTANTS
  Tabs = {t1, t2}
  Gone = Gone
  None = None
  TTL = 3
  BEAT = 1
  StorageMayFail = TRUE
SPECIFICATION FairSpec
INVARIANT OneTurnUnlessExposed
PROPERTIES TakenOnlyWhenSilent OrphanIsRemoved OvertakenIsTold
CHECK_DEADLOCK FALSE

\* Two tabs, with failing reads and writes; a page dies.  The tabs share the chat, or one page at a
\* time has it, with a limited localStorage and dropped caches.
CONSTANTS
  Tabs = {t1, t2}
  MaxSaves = 3
  MaxCrashes = 1
SPECIFICATION CacheSpec
INVARIANTS CacheTypeOK SavedIsRestored
PROPERTY SaveLosesNothing
SYMMETRY AnyTab
CONSTRAINT Explored
CHECK_DEADLOCK FALSE

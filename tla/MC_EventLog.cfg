\* One process after another, a failing write, a caller of flush beside the timers.
CONSTANTS
  Sessions = {s1, s2}
  Flushers = {f1}
  Timer = Timer
  Torn = Torn
  MaxEvents = 2
  MaxFails = 1
  MaxLives = 2
SPECIFICATION FairSpec
INVARIANTS TypeOK LoadIsPrefix NothingLost NothingStranded
PROPERTIES FlushIsBarrier FlushEnds
CHECK_DEADLOCK FALSE

\* Two faults, each an aborted transaction or a lost connection, under anything but an
\* operation that went past the queue.
CONSTANTS
  MaxOps = 4
  MaxFaults = 2
  MaxLoads = 1
  LosesBypassed = FALSE
SPECIFICATION FairStoreSpec
INVARIANTS TypeOK AnswersHold
PROPERTIES Implements EverySaveAnswered
CHECK_DEADLOCK FALSE

\* Limits of two, and room for one resume.
CONSTANTS
  Notes = {n1, n2}
  DEFAULT_MAX_TURNS = 2
  NO_PROGRESS_LIMIT = 2
  MAX_ERRORS_IN_A_ROW = 2
  TurnBound = 4
  NoGoal = NoGoal
  NotReading = NotReading
SPECIFICATION FairSpec
INVARIANT NotesKept
PROPERTY EndsOnItsOwn

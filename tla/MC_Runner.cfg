\* Two tasks, two messages, two turns for each task.
CONSTANTS
  NumTasks = 2
  Steers = {m1, m2}
  MAX_TURNS_PER_EPISODE = 2
  MAX_STEP_LIMIT_CONTINUES = 1
  MAX_ANSWER_EPISODES = 1
  MaxConsecutiveFails = 2
  Nothing = Nothing
SPECIFICATION FairRunnerSpec
INVARIANTS
  RunnerTypeOK
  SteersArrive
PROPERTIES
  EndsOrAsks
  StopIsFinalButForThree

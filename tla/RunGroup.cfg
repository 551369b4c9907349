\* One group of two runs, with one analysis request from outside at a time.
SPECIFICATION FairSpec
CONSTANTS
  Count = 2
  MaxThreadDays = 2
  ApiCallers = {api}
  MaxDbFailures = 1
  MaxPublishes = 1
INVARIANTS
  FailureIsExplained
  SettledWhenDone
PROPERTIES
  LoadsOnlyWhileRunning
  ImplementsQueue
  EveryExecutionEnds

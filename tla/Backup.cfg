SPECIFICATION FairSpec
CONSTANTS
  j1 = j1  w1 = w1  w2 = w2
  Jobs <- MCJobs
  Workers <- MCWorkers
  MaxRetries = 1
  Schedules <- MCSchedules
  Budget = 4
INVARIANTS TypeOK CancelIsFinal
PROPERTIES OutcomeOnlyWorsens SlotIsReleased DueJobMovesOn

SPECIFICATION FairSpec
CONSTANTS
  run_command = run_command
  write_file = write_file
  None = None
  Calls <- MCCalls
  Mutating <- MCMutating
  MaxSteps = 3
  MaxToolCalls = 3
  MaxRetries = 1
  KeepRecent = 2
  MinSpan = 2
  MaxStarts = 2
INVARIANTS
  LedgerAgrees
  NoThirdRepeat
PROPERTIES
  Returns
CHECK_DEADLOCK FALSE

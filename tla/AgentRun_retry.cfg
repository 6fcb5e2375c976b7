SPECIFICATION Spec
CONSTANTS
  run_command = run_command
  write_file = write_file
  None = None
  Calls <- MCCalls
  Mutating <- MCMutating
  MaxSteps = 2
  MaxToolCalls = 2
  MaxRetries = 1
  KeepRecent = 2
  MinSpan = 2
  MaxStarts = 1
PROPERTIES
  GrantedRetryIsSent
CHECK_DEADLOCK FALSE

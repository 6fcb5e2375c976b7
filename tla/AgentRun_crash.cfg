SPECIFICATION Spec
CONSTANTS
  run_command = run_command
  write_file = write_file
  None = None
  Calls <- MCCalls
  Mutating <- MCMutating
  MaxSteps = 2
  MaxToolCalls = 2
  MaxRetries = 2
  KeepRecent = 3
  MinSpan = 2
  MaxStarts = 3
INVARIANTS
  TypeOK
  AtMostOnceUnreported
  RepeatGuarded
  RoleDirectiveOnce
  BudgetsHold
PROPERTIES
  RetryChangesPrompt
  ProgressKept
  ImplementsGuard
CHECK_DEADLOCK FALSE

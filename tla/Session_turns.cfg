SPECIFICATION FairSpec
CONSTANTS
  run_tests = run_tests
  write_note = write_note
  look_up = look_up
  main_py = main_py
  database = database
  None = None
  Keys <- MCKeys
  ToolOf <- MCToolOf
  WritesTo <- MCWritesTo
  Paths = {main_py, database}
  OwnPaths = {database}
  Setups <- MCSetups
  Kind <- MCKind
  Replies <- MCReplies
  MaxDepth = 1
  MaxSteps = 2
  MaxToolCalls = 3
  MaxRetries = 1
  Repeats = 2
  MaxMessages = 2
  MaxCalls = 2
  EditsAt = {"model"}
INVARIANTS
  SessionTypeOK
  Gated
  UnaskedIsListed
  MessagesKept
  NothingUntold
  VerifiedWasDone
  ReasoningNotActed
PROPERTIES
  AnsweredMeansOver
  TurnEnds
CHECK_DEADLOCK FALSE

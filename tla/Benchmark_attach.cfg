SPECIFICATION BenchSpec
CONSTANTS
  None = None
  Attached = Attached
  Launched <- MCLaunched
  Foreign <- MCForeign
  Serving <- MCServing
  Visible <- MCVisible
  ours = ours
  old_server = old_server
  new_server = new_server
  web_server = web_server
INVARIANTS
  ErrorMeansNoRun
CHECK_DEADLOCK FALSE

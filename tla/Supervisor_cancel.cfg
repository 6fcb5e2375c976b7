SPECIFICATION Spec
CONSTANTS
  None = None
  Attached = Attached
  Launched <- MCLaunched
  Foreign <- MCForeign
  Serving <- MCServing
  Visible <- MCVisible
  first = first
  second = second
  model_server = model_server
  web_server = web_server
INVARIANTS
  StartCleansUp

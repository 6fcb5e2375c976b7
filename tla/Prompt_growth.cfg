SPECIFICATION Spec
CONSTANTS
  this_host = this_host
  other_host = other_host
  Null = Null
  NoTool = NoTool
  NoLayers = NoLayers
  Unbuilt = Unbuilt
  LocalHost = this_host
  LocalPort = 8080
  DefaultWindow = 1024
  DefaultCeiling = 700
  LeastWindow = 512
  LeastCeiling = 256
  MaxLines = 8
  MaxBytes = 400
  StderrLines = 3
  StderrBytes = 150
  LeastStdout = 60
  LineBytes = 200
  KeepResults = 1
  SummaryLines = 3
  SummaryBytes = 200
  KeepMessages = 4
  MinSpan = 2
  ExtractBytes = 60
  MarginPercent = 50
  PrefixTexts = {p1, p2}
  MaxProbes = 4
  Layers <- MCLayers
  Outputs <- MCOutputs
  Retrieved = {0, 90}
  PrefixTokens = 330
  MaxSteps = 3
  MaxRetries = 2
  MaxTurns = 1
SYMMETRY MCSymmetry
INVARIANTS
  PromptTypeOK
  BudgetFitsServer
  ViewTellsAll
  NewestResultKept
PROPERTIES
  SettingsExplained
  SilentChangeCaught
  OverflowRecognised
  RecoveryShrinks
  ResolvedMeansFits
CHECK_DEADLOCK FALSE

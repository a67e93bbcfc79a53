SPECIFICATION MCSpec
CONSTANTS
  MaxSamples = 2
  MaxErrors = 2
  MaxBytes = 2
  MaxFrames = 2
  Limit = 3
  Block = 2
  MaxOutput = 4
  Local = {"socket"}
  Remote = {"remote"}
  DefaultSocket = "socket"
  Names = {"name"}
  Engines = {"A", "B"}
  MaxChanges = 2
  None = None
INVARIANTS
  ReportStands
  NoSurvivors
  CleanIsComplete
  PassedIsEarned
  EngineAsRecorded
PROPERTIES
  CollectorEnds
  CheckEnds
CHECK_DEADLOCK FALSE

CONSTANTS
  MaxChats = 2
  MaxEntries = 4
  MaxSubs = 1
  MaxFails = 1
  MaxCrashes = 1
SPECIFICATION Spec
INVARIANTS
  TypeOK
  ContextSurvivesRestart
  CallsAreAnswered
  NoLineTwice
  AcknowledgedStaysOnFile
PROPERTIES
  EveryWriteReturns
  ImplementsTranscript
CHECK_DEADLOCK FALSE

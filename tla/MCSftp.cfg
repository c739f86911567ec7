SPECIFICATION FairSpec
CONSTANTS
  MaxRead = 2
  OurVersion = 3
  IdBase = 16
  IdDigits = 2
  FileSize = 3
  Scenarios <- MCScenarios
INVARIANTS
  AnswersAreTheirs
  FilesInOrder

  
CHECK_DEADLOCK FALSE

SPECIFICATION Spec
CONSTANTS
  PageSizes <- MCPageSizes
  ApiJobs <- MCApiJobs
  Rolls <- MCRolls
  Picks <- MCPicks
  NoAnswer = NoAnswer
  NoOption = NoOption
  Unknown = Unknown
INVARIANTS
  OneOptionPerName
  ReadyIsPrinted
  AskedIsPrinted
  ElementsApart
  NothingIsCutOff
  LengthIsPrintable
  QuietZone
  AcceptedIsRendered
CHECK_DEADLOCK FALSE

SPECIFICATION FairSpec
CONSTANTS
  Slots = {s1, s2}
  NoSlot = NoSlot
  MaxJobs = 2
  SerialSenders = TRUE
INVARIANTS
  IInv
  PrintedAtMostOnce
  ConvertsOwnDocument
PROPERTIES
  TerminalIsFinal
  CancelEndsJob
  StartedEndsJob
  Lifecycle

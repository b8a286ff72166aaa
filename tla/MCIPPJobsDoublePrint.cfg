SPECIFICATION Spec
CONSTANTS
  Slots = {s1, s2}
  NoSlot = NoSlot
  MaxJobs = 1
  SerialSenders = FALSE
INVARIANT
  PrintedAtMostOnce

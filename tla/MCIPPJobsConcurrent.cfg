SPECIFICATION Spec
CONSTANTS
  Slots = {s1, s2, s3}
  NoSlot = NoSlot
  MaxJobs = 1
  SerialSenders = FALSE
SYMMETRY Symmetry
INVARIANTS
  PrinterExclusive
PROPERTIES
  CancelIsHonored
  CanceledNeverPrints

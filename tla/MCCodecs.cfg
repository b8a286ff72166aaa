SPECIFICATION Spec
CONSTANTS
  Lines <- MCLines
  MaxRun = 128
  Widths = {0, 1, 3}
  Heights = {0, 1, 3}
  Counts = {0, 1, 2, 127, 128, 254, 255}
  MaxPWGPages = 2
  Batches <- MCBatches
  SettingsAsked <- MCSettings
  Keep = Keep
  InvalidateBytes = 200
  RowBytes = 90
  MaxStreams = 3
  Sides = {1, 2, 3}
INVARIANTS
  LineComesBack
  PagesAreDecoded
  PrinterObeys
  
CHECK_DEADLOCK FALSE

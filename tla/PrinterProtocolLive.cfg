SPECIFICATION FairSpec
CONSTANTS
  MaxCalls = 2
  Pages = 2
  Patient = FALSE
PROPERTIES
  CallsEnd

SPECIFICATION Spec
CONSTANTS
  MaxCalls = 3
  Pages = 2
  Patient = TRUE
INVARIANTS
  ConfirmedIsPrinted
  NothingLeftOver
  IInv

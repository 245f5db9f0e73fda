SPECIFICATION Spec
CONSTANTS
  Amount = {1}
  MaxRequests = 2
  LastMount = 0
INVARIANT
  WidgetIsSigned
CHECK_DEADLOCK FALSE

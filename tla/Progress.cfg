SPECIFICATION ProgressSpec
CONSTANTS
  User = {"u1"}
  Channel = {"card", "pse"}
  Threshold <- ChannelThreshold
  DefaultThreshold = 3
  Amount = {1, 3}
  JustBelow = {1}
  MinCount = 2
  WindowHours = 0
  Dedupe = 1
  MaxTime = 1
  MaxTx = 2
  Nit = {"n1"}
  Value = {"a"}
  Worker = {"w1", "w2"}
  SlaDays = 0
  Batch = 1
  MaxAge = 1
  LastDay = 1
  MaxLog = 2
  Price = {1, 2}
  MaxRequests = 2
  LastMount = 1
INVARIANTS
  TypesOK
  FlagsAreFounded
  RightsAreKept
  WidgetIsOwn
PROPERTIES
  SuspectIsAlerted
  BreachIsFlagged
  LoadingEnds
CHECK_DEADLOCK FALSE

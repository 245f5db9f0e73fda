SPECIFICATION Spec
CONSTANTS
  Limit = 1
  MaxMonth = 8
  MaxComplaints = 1
INVARIANT
  ReportsEndedHalf
CHECK_DEADLOCK FALSE

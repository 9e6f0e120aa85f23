SPECIFICATION TabSpec
CONSTANTS
  Customer = {u1}
  Operation = {o1, o2, o3}
  Nothing = Nothing
  MaxEpoch = 2
PROPERTIES
  PendingHasPrecedence
CHECK_DEADLOCK FALSE

SPECIFICATION Spec
CONSTANTS
  Tickets = {t1, t2}
  MaxSpare = 1
  MaxQueue = 6
  MaxRedelivery = 0
  MaxFault = 0
INVARIANT OwnRow
CHECK_DEADLOCK FALSE

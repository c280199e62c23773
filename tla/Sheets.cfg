SPECIFICATION FairSpec
CONSTANTS
  Tickets = {t1, t2}
  MaxSpare = 1
  MaxQueue = 2
  MaxRedelivery = 1
  MaxFault = 1
INVARIANTS OwnRowIfExact RowsPerTicket IInv
PROPERTIES NotNewAgain ColumnsKept AllProcessed
CHECK_DEADLOCK FALSE

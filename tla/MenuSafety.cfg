SPECIFICATION Spec
CONSTANTS
  Users = {u1}
  Admins = {u1}
  MaxPress = 2
  MaxText = 2
  MaxLapse = 1
  MaxToggle = 1
  MaxRedelivery = 1
  MaxLoss = 0
  MaxCrash = 0
INVARIANTS TypeOK OneTicketPerText NoTicketUnasked IInv
CHECK_DEADLOCK FALSE

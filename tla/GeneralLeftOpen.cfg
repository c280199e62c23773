SPECIFICATION Spec
CONSTANTS
  Users = {u1}
  Admins = {}
  MaxPress = 2
  MaxText = 0
  MaxLapse = 0
  MaxToggle = 0
  MaxRedelivery = 0
  MaxLoss = 0
  MaxCrash = 0
INVARIANT GeneralClosedAtRest
CHECK_DEADLOCK FALSE

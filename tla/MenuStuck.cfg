SPECIFICATION Spec
CONSTANTS
  Users = {u1, u2}
  Admins = {}
  MaxPress = 1
  MaxText = 0
  MaxLapse = 0
  MaxToggle = 0
  MaxRedelivery = 0
  MaxLoss = 0
  MaxCrash = 0
INVARIANT MenuUsable
CHECK_DEADLOCK FALSE

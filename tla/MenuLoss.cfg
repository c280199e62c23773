SPECIFICATION FairSpec
CONSTANTS
  Users = {u1}
  Admins = {u1}
  MaxPress = 2
  MaxText = 1
  MaxLapse = 2
  MaxToggle = 0
  MaxRedelivery = 0
  MaxLoss = 1
  MaxCrash = 1
PROPERTIES PromptEnds TextsCleared
CHECK_DEADLOCK FALSE

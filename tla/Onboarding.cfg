SPECIFICATION FairSpec
CONSTANTS
  Chats = {c1, c2, c3}
  Forums = {c1, c2}
  Commands = {"setup", "deactivate"}
  MaxGiven = 2
  MaxRedelivery = 1
  MaxFail = 1
  MaxCrash = 1
INVARIANTS TypeOK MenuIsOurs NoSecondMenu IInv
PROPERTIES MenuKept SetupHeals CommandsAnswered
CHECK_DEADLOCK FALSE

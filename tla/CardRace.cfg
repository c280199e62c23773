SPECIFICATION Spec
CONSTANTS
  Tickets = {t1}
  Users = {u1}
  Executors = {e1}
  Active = {e1}
  Nobody = Nobody
  TeamGroupConfigured = TRUE
  MaxPress = 1
  MaxRedelivery = 0
  MaxFail = 0
  MaxCrash = 0
INVARIANT CardShowsTaker
CHECK_DEADLOCK FALSE

SPECIFICATION FairMirrorSpec
CONSTANTS
  Tickets = {t1}
  Users = {u1}
  Executors = {e1, e2}
  Active = {e1}
  Nobody = Nobody
  TeamGroupConfigured = TRUE
  MaxPress = 3
  MaxRedelivery = 0
  MaxFail = 0
  MaxCrash = 0
  MaxSpare = 0
  MaxQueue = 3
  MaxFault = 0
INVARIANTS CustomerSeesStatus MirrorNotAhead MirrorInv
PROPERTIES ReachesTeam ClosingReachesTopic FactsInOrder EveryTicketMirrored
CHECK_DEADLOCK FALSE

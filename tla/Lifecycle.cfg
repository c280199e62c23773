SPECIFICATION Spec
CONSTANTS
  Tickets = {t1}
  Users = {u1, u2}
  Executors = {e1}
  Active = {e1}
  Nobody = Nobody
  TeamGroupConfigured = TRUE
  MaxPress = 3
  MaxRedelivery = 1
  MaxFail = 1
  MaxCrash = 1
INVARIANTS AuditTrail OneOfEach SnapshotHolds WorkedOnIsAttached LifecycleInv
PROPERTIES AttachedForGood KeepsStatus
CHECK_DEADLOCK FALSE
SYMMETRY UserSymmetry

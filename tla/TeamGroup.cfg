SPECIFICATION FairSpec
CONSTANTS
  p1 = p1
  n1 = n1
  n2 = n2
  People = {p1, p2}
  Nobody = Nobody
  Names = {n1, n2}
  NoName = NoName
  FirstHolder <- OneNamed
  Listed = {n1, n2}
  Chats = {g1, g2}
  Forums = {g1, g2}
  NoChat = NoChat
  Kinds = {"setup_team_group", "reload_executors"}
  MaxGiven = 2
  MaxTrouble = 1
  MaxRestart = 1
INVARIANTS TypeOK OnceEach BlockTells IInv
PROPERTIES IdsEarned SetupEnds TicksReported
CHECK_DEADLOCK FALSE

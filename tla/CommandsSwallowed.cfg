SPECIFICATION Spec
CONSTANTS
  p1 = p1
  n1 = n1
  n2 = n2
  People = {p1, p2}
  Nobody = Nobody
  Names = {n1, n2}
  NoName = NoName
  FirstHolder <- OneNamed
  Listed = {n1}
  Chats = {g1}
  Forums = {g1}
  NoChat = NoChat
  Kinds = {"setup_team_group", "print_topic_id"}
  MaxGiven = 2
  MaxTrouble = 0
  MaxRestart = 1
INVARIANT CommandsAnswered
CHECK_DEADLOCK FALSE

SPECIFICATION PlayersSpec
CONSTANTS
  Viewers = {u1}
  Titles = {film}
  Window = 3
  MaxTime = 7
  Movies = {film}
  Views = {v1, v2}
  TvPlayers = {p1}
  WebPlayers = {p2}
  Purchases = {t1, t2}
  MaxBeats = 2
PROPERTIES EndIsTaken
CHECK_DEADLOCK FALSE

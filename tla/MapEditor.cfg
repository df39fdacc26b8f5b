SPECIFICATION MapSpec
CONSTANTS
  None = None
  p1 = p1
  p2 = p2
  p3 = p3
  d1 = d1
  any = any
  rated = rated
  home = home
  here = here
  between = between
  Pois = {p1, p2, p3}
  Districts = {d1}
  Filters = {any, rated}
  Matching <- Passing
  Visits <- FiveVisits
  Views = {home, here}
  Fallback = home
  Here = here
  Between = between
  InView <- Seen
  Distance <- Far
  PLACE_LIST_LIMIT = 2
CHECK_DEADLOCK FALSE
INVARIANTS PublicLayerMatches NothingLostOrDoubled EditGoesToItsTarget ListIsOfView

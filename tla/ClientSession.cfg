SPECIFICATION Spec
CONSTANTS
  None = None
  u1 = u1
  u2 = u2
  t1 = t1
  t2 = t2
  h1 = h1
  h2 = h2
  Users = {u1, u2}
  Handlers = {t1, t2, h1, h2}
  Watched = {t1, t2}
  TicksPerSecond = 2
  Scenes <- AllScenes
SYMMETRY Symmetry
CHECK_DEADLOCK FALSE
INVARIANTS OldPasswordSessionsEnd SignedInAsShown
PROPERTY ActsAreEntitled

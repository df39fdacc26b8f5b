SPECIFICATION Spec
CONSTANTS
  h1 = h1
  h2 = h2
  None = None
  Users = {u1, u2}
  Emails = {a, b}
  Tokens = {k1, k2, k3}
  Handlers = {h1, h2}
  Serves <- Everything
  MayFail = {h1, h2}
SYMMETRY AllAlike
CHECK_DEADLOCK FALSE
INVARIANTS VerifiedIsProven OneAccountPerEmail
PROPERTY DeadLinksStayDead

SPECIFICATION Spec
CONSTANTS
  ann = ann
  rex = rex
  h1 = h1
  h2 = h2
  h3 = h3
  None = None
  Pois = {p1}
  Districts = {d1}
  Accounts = {ann, rex}
  Reviewers = {rex}
  Admins = {rex}
  Ips = {i1, i2}
  Texts = {x1, x2}
  Handlers = {h1, h2, h3}
  Serves <- VotingWorkload
  Threshold = 2
  MayFail = {h1, h2, h3}
  MaxCast = 3
  MaxRows = 1
SYMMETRY Symmetry
CHECK_DEADLOCK FALSE
INVARIANTS TypeOK NoVoteInvented ApprovalIsEarned OneVotePerVoter
PROPERTIES SettledStays LifecycleSpec

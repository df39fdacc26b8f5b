SPECIFICATION ReportsSpec
CONSTANTS
  None = None
  Targets = {t1, t2}
  Ids <- TwoReports
  Limit = 1
  Colleagues = {c1}
  Decisions <- TwoDecisions
  Loads <- TwoLoads
  Meetings <- ThreeMeetings
SYMMETRY Symmetry
CHECK_DEADLOCK FALSE
INVARIANTS ListSettles ThanksAreDue
PROPERTY OutcomeStands

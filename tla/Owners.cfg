SPECIFICATION OwnersSpec
CONSTANTS
  ann = ann
  ada = ada
  h1 = h1
  h2 = h2
  h3 = h3
  None = None
  Pois = {p1, p2}
  Districts = {d1}
  Accounts = {ann, ada}
  Admins = {ada}
  Handlers = {h1, h2, h3}
  Serves <- SweepWorkload
  MayFail = {h1, h2}
  Nothing = Nothing
  Places = {p1}
  Areas = {d1}
  Anonymous = {p1}
  Typed = {x}
  Sends <- TwoSends
  Reviews = 1
CHECK_DEADLOCK FALSE
INVARIANTS SweepSettles ListAgrees TypedForThisRow
PROPERTY BannedFallSilent

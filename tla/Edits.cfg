SPECIFICATION Spec
CONSTANTS
  ann = ann
  rex = rex
  t1 = t1
  t2 = t2
  f1 = f1
  f2 = f2
  old = old
  new = new
  bad = bad
  padded = padded
  h1 = h1
  h2 = h2
  h3 = h3
  None = None
  Entries = {t1, t2}
  Fields = {f1, f2}
  Values = {old, new, padded, bad}
  Invalid = {bad}
  Trim <- Trimming
  Start <- AsPublished
  Owner <- OwnedByAnn
  Proposals = {e1, e2}
  Changes <- SomeChanges
  Accounts = {ann, rex}
  Reviewers = {rex}
  Handlers = {h1, h2, h3}
  Serves <- ReviewWorkload
  MayFail = {h2, h3}
SYMMETRY Symmetry
CHECK_DEADLOCK FALSE
INVARIANTS TypeOK EditsCompose ApprovedIsApplied UndisturbedRejection
PROPERTY ClosedStays

SPECIFICATION Spec
CONSTANTS
  ann = ann
  rex = rex
  p1 = p1
  h1 = h1
  h2 = h2
  None = None
  Places = {p1}
  Owner <- OwnedByRex
  Accounts = {ann, rex}
  Moderators = {rex}
  Stars = {2, 5}
  Ids = {i1, i2, i3}
  Handlers = {h1, h2}
  Serves <- Everything
  MayFail = {h1}
  Bannable = {ann}
  Leaving = {ann, rex}
SYMMETRY Symmetry
CHECK_DEADLOCK FALSE
INVARIANTS TypeOK OneRatingPerPerson SummaryHeals
PROPERTY WithdrawnIsLeftAlone

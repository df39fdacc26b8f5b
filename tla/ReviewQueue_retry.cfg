SPECIFICATION Spec
CONSTANTS
  place = place
  edit = edit
  Items = {place, edit}
  Kind <- KindOf
  Proposed = {edit}
  Notes = {blank}
  Blank = blank
  Clicks = {k1}
CHECK_DEADLOCK FALSE
INVARIANT FailureFreesTheCard

SPECIFICATION PageSpec
CONSTANTS
  Nothing = Nothing
  Places = {p1}
  Areas = {d1}
  Anonymous = {p1}
  Typed = {x}
  Sends <- TwoSends
  Reviews = 1
CHECK_DEADLOCK FALSE
INVARIANT AnonymityKept

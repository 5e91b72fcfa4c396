SPECIFICATION Spec
CONSTANTS
  Starters = {s1, s2}
  Clients = {c1, c2}
  NoOne = NoOne
INVARIANTS WinnerKept
CHECK_DEADLOCK FALSE

SPECIFICATION Spec
CONSTANTS
  None = None Broadcast = Broadcast
  a = a b = b m1 = m1 m2 = m2 p = p q = q
  Agents = {a, b}
  Readers = {a, b}
  Messages = {m1, m2}
  To <- ToOneAndAll
  Size <- Even
  Lifetime <- LongForOne
  Recaps = {1}
  InboxCap = 2
  MaxContext = 2
  Repeat = 1
  MaxSessions = 1
  Every = 2
  MarkerTTL = 1
  Procs = {p, q}
  MaxRuns = 3
  MaxFaults = 1
  MaxTime = 2
SYMMETRY Symmetry
INVARIANTS HiddenWasShown 
PROPERTIES QuietWasTold HiddenStays
CHECK_DEADLOCK FALSE

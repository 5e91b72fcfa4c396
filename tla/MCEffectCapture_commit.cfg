\* Three recorder processes, two crashes and a timeout.
SPECIFICATION Spec
CONSTANTS
    p1 = p1 p2 = p2 p3 = p3 f1 = f1 f2 = f2
    None = None
    Procs = {p1, p2, p3}
    Paths = {f1}
    MaxEdits = 1
    MaxCrashes = 2
    MaxTimeouts = 1
SYMMETRY Symmetry
CHECK_DEADLOCK FALSE
INVARIANTS CommittedWhole CommittedAccounted 
 

\* Three calls of two agents on one path, claims, and everything that ages.
SPECIFICATION Spec
CONSTANTS
    A = A B = B a1 = a1 a2 = a2 b1 = b1 p = p
    Agents = {A, B}
    Paths = {p}
    Calls = {a1, a2, b1}
    Writes = {a1, a2, b1}
    AgentOf <- AgentOfCall
    PathOf <- OnePath
    MaxRetries = 1
    Requests <- ClaimP
    Parallel = FALSE
    Aging = TRUE
    MaxAged = 1
SYMMETRY Symmetry
INVARIANTS  FailOpen
CHECK_DEADLOCK FALSE

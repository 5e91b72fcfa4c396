\* Crashes, adoption of abandoned and of healthy claims, a rejected call.
SPECIFICATION Spec
CONSTANTS
    s1 = s1 s2 = s2 c1 = c1 c2 = c2 p1 = p1 p2 = p2
    Sessions = {s1}
    Calls = {c1}
    Owner <- OneCallOwner
    Rejectable = {c1}
    Ingesters = {p1, p2}
    ClaimName = {"n1", "n2", "n3", "n4", "n5"}
    StaleClaim = 1
    AbandonedAfter = 1
    TurnTTL = 9
    MaxTurns = 1
    MaxCrashes = 1
    MaxAdoptions = 1
    HostUntil = 0
    MaxTime = 1
SYMMETRY Symmetry
INVARIANTS NoLoss OncePerClaim RunningStartKept

\* Every journalled completion is settled, through a crash.
SPECIFICATION FairSpec
CONSTANTS
    s1 = s1 s2 = s2 c1 = c1 c2 = c2 p1 = p1 p2 = p2
    Sessions = {s1}
    Calls = {c1}
    Owner <- OneCallOwner
    Rejectable = {c1}
    Ingesters = {p1}
    ClaimName = {"n1", "n2", "n3", "n4", "n5"}
    StaleClaim = 1
    AbandonedAfter = 1
    TurnTTL = 9
    MaxTurns = 1
    MaxCrashes = 1
    MaxAdoptions = 9
    HostUntil = 1
    MaxTime = 2
PROPERTIES EventuallySettled ImplementsLog

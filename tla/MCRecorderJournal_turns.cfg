\* Drains one after the other, over two turns of one session; the journal
\* grows as old as an abandoned claim, so a drain may adopt its own claim.
SPECIFICATION Spec
CONSTANTS
    s1 = s1 s2 = s2 c1 = c1 c2 = c2 p1 = p1 p2 = p2
    Sessions = {s1}
    Calls = {c1, c2}
    Owner <- OneSessionOwner
    Rejectable = {}
    Ingesters = {p1}
    ClaimName = {"n1", "n2"}
    StaleClaim = 1
    AbandonedAfter = 1
    TurnTTL = 0
    MaxTurns = 2
    MaxCrashes = 0
    MaxAdoptions = 1
    HostUntil = 1
    MaxTime = 1
INVARIANTS OwnTurn
PROPERTIES OpenTurnAdvances

\* Five histories; two readers, appends and late corrections in the first.
SPECIFICATION Spec
CONSTANTS
    r1 = r1 r2 = r2 A = A B = B C = C t1 = t1 t2 = t2
    None = None
    Record <- RecordOf
    Moment <- MomentOf
    Histories <- HistoriesOf
    Readers = {r1, r2}
    MaxPosition = 5
    AgentRows = 1 FileRows = 1 EventRows = 2 MapFiles = 1 MapAgents = 1
    ChangesPerFile = 1 FileIdSample = 1 PathsPerRow = 1
    Tier <- TierOf
SYMMETRY Symmetry
INVARIANTS ReadsExact ReadsSound LensesAgree

\* Every kind of call over single contents, and buffered calls over two
\* contents of one id; prune in both.
SPECIFICATION MCSpec
CONSTANTS
    r = r a = a b = b c = c x = x y = y a2 = a2
    None = None
    Events <- SevenVariants
    Ids <- SevenVariants
    Id <- IdOf
    Parent <- ParentOf
    Refs <- NoRefs
    Corr <- CorrOf
    At <- AtOf
    Batches <- AllCalls
    Cutoffs = {2, 3}
INVARIANTS CausallyClosed OneContent AcceptedStays
PROPERTIES RowsPromoted

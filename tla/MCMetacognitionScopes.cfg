SPECIFICATION Spec
CONSTANTS
    p = p
    q = q
    v1 = v1
    r1 = r1
    s1 = s1
    s2 = s2
    f1 = f1
    x1 = x1
    x2 = x2
    Garbage = Garbage
    NoOutcome = NoOutcome
    NoRef = NoRef
    MaxRecords = 2
    MaxWrites = 2
    Proposal <- MCProposal
    Version <- MCVersion
    Ref <- MCRef
    Scope <- MCScope
    File <- MCFile
    Partition <- MCPartition
    Outcomes <- MCOutcomes
    ScopeOf <- MCScopeOf
    FileOf <- MCFileOf
    Splitting <- MCSplitting
    Slot <- MCSlot
INVARIANTS
    ScopesAreIsolated
CHECK_DEADLOCK FALSE

SPECIFICATION Spec
CONSTANTS
    c1 = c1
    c2 = c2
    c3 = c3
    cx = cx
    s1 = s1
    s2 = s2
    t1 = t1
    t2 = t2
    Missing = Missing
    NoDigest = NoDigest
    NoVersion = NoVersion
    MaxMoves = 1
    Requests <- MCRequests
    Candidate <- MCCandidate
    Source <- MCSource
    Text <- MCText
    Stores <- MCStores
    Offered <- MCOffered
INVARIANTS
    GapsPrecedeVerdicts
    GroundedOnStillStore
    ReceiptForEveryReference
    FailedAreInert
PROPERTIES
    EveryRequestEnds
CHECK_DEADLOCK FALSE

SPECIFICATION Spec
CONSTANTS
    g1 = g1
    g2 = g2
    g3 = g3
    g4 = g4
    a1 = a1
    a2 = a2
    a3 = a3
    k1 = k1
    k2 = k2
    u1 = u1
    u2 = u2
    x1 = x1
    x2 = x2
    t1 = t1
    NoGuard = NoGuard
    NoTable = NoTable
    NoObservation = NoObservation
    BadObservation = BadObservation
    NoToken = NoToken
    Unclassifiable = Unclassifiable
    Wildcard = Wildcard
    NoParty = NoParty
    NoActor = NoActor
    MaxRisk = 2
    MaxGrade = 2
    Gate <- MCGate
    Actor <- MCActor
    Kind <- MCKind
    Purpose <- MCPurpose
    Party <- MCParty
    Tag <- MCTag
    Patches <- MCPatches
    Submissions <- AlienSubmissions
CHECK_DEADLOCK FALSE
INVARIANTS
    NeverCrashes

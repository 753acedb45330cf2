SPECIFICATION Spec
CONSTANTS
    a = a
    b = b
    c = c
    NoAnswer = NoAnswer
    Node <- MCNode
    Orders <- MCOrders
INVARIANTS
    TypeOK
    Justified
    Skeptical
    QuietPrefixStable
    ReturnsGrounded
PROPERTIES
    ImplementsAdjudication
CHECK_DEADLOCK FALSE

SPECIFICATION Spec
CONSTANTS
    n1 = n1
    n2 = n2
    n3 = n3
    ghost = ghost
    Name <- MCName
    Lists <- MCLists
CHECK_DEADLOCK FALSE
INVARIANTS
    CyclesAreBroken
    DerivedRestsOnOpen
    OrdersTheFold
PROPERTIES
    Terminates

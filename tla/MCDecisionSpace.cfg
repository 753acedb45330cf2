SPECIFICATION Spec
CONSTANTS
    c1 = c1
    c2 = c2
    c3 = c3
    NoDefeat = NoDefeat
    Candidate <- MCCandidate
    Lists <- MCLists
    Declarable <- MCDeclarable
INVARIANTS
    AnswersForTheValid
    NoFabricatedWinner
CHECK_DEADLOCK FALSE

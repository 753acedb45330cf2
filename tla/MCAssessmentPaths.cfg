\* Structural conditions over a taxonomy with very many paths.
SPECIFICATION Spec
CONSTANTS
    NoLiteral = NoLiteral
    NoModality = NoModality
    Escalate = Escalate
    NoRelation = NoRelation
    NoDimension = NoDimension
    NoDate = NoDate
    NoAlgebra = NoAlgebra
    NoQuantity = NoQuantity
    NoMagnitude = NoMagnitude
    NoUnit = NoUnit
    NoElement = NoElement
    NoTerminal = NoTerminal
    NoTrace = NoTrace
    NoDatum = NoDatum
    NoRun = NoRun
    NoCard = NoCard
    NoReading = NoReading
    NoProposal = NoProposal
    NoResult = NoResult
    Currencies = {"EUR", "USD"}
    Proposals <- NoProposals
    Panels <- LadderPanels
INVARIANT
    StructuralAnswerIsReachability
CHECK_DEADLOCK FALSE

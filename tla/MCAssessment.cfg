\* The construction harnesses and the evaluation panel.
SPECIFICATION Spec
CONSTANTS
    NoLiteral = NoLiteral
    NoModality = NoModality
    Escalate = Escalate
    NoRelation = NoRelation
    NoDimension = NoDimension
    NoDate = NoDate
    NoAlgebra = NoAlgebra
    NoQuantity = NoQuantity
    NoMagnitude = NoMagnitude
    NoUnit = NoUnit
    NoElement = NoElement
    NoTerminal = NoTerminal
    NoTrace = NoTrace
    NoDatum = NoDatum
    NoRun = NoRun
    NoCard = NoCard
    NoReading = NoReading
    NoProposal = NoProposal
    NoResult = NoResult
    Currencies = {"EUR", "USD"}
    Proposals <- MCProposals
    Panels <- MCPanels
INVARIANTS
    TypeOK
    OpenIsNeverAnswered
    TemptationIsCaught
    HumanOriginates
    HitHighIsHonest
    ShippedPanelHitsHigh
    HighestNormsDecide
    GraphAnswersFollowTheText
    OrderedIsAcyclic
    ContestedStaysOpen
    RulesRestOnTheText
    WordingIsTheLimit
CHECK_DEADLOCK FALSE

CONSTANTS
    MaxNodes = 3
    MaxEdges = 3
    Payload = unit
    Sources <- MCSources
    None = None
SPECIFICATION SpecParser
INVARIANTS TypeOK IncidenceSound IncidenceExact GrammarExact SourceMeaning
PROPERTIES MergeKeepsReach
CHECK_DEADLOCK FALSE

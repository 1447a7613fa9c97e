CONSTANTS
    Values = {v1, v2}
    IdLimit = 4
    DEAD = 4
    Wires = {}
SPECIFICATION BSpec
INVARIANTS OlderFirst
PROPERTIES TakeBackRestores

CONSTANTS
    v1 = v1
    v2 = v2
    Values = {v1, v2}
    IdLimit = 8
    MaxLen = 7
    Picks <- MCPicks
    Loads <- MCLoads
SPECIFICATION Spec
INVARIANTS Layout IterMatchesIndex
PROPERTIES AddressStable ImplementsFlatVec JobsEnd

CONSTANTS
    Values = {v1, v2}
    None = None
    IdLimit = 4
    DEAD = 7
    Wires <- MCWires
SPECIFICATION RSpec
INVARIANTS TypeOK Consistent RoundTrip
PROPERTIES WiresKept DeadStaysDead TruncateSpares ImplementsOptionVec

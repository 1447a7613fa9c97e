CONSTANTS
    Node <- MCNode
    Inputs <- MCInputs
SPECIFICATION PostSpec
INVARIANTS NeverTooSmall PostDominanceExact
PROPERTIES OnlyShrink Returns
CHECK_DEADLOCK FALSE

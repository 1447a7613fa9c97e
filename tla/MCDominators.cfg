CONSTANTS
    Nodes <- MCNodes
    Root = 0
    Graphs <- MCGraphs
SPECIFICATION Spec
INVARIANTS SemiExact DominanceExact FrontierExact
CHECK_DEADLOCK FALSE

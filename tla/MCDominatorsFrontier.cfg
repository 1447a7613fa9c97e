CONSTANTS
    Nodes <- MCNodes
    Root = 0
    Graphs <- MCGraphs
SPECIFICATION Spec
INVARIANTS FrontierAsDocumented
CHECK_DEADLOCK FALSE

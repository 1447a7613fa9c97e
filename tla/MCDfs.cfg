CONSTANTS
    Nodes <- MCNodes
    EdgeIds <- MCEdgeIds
    Root = 0
    Graphs <- MCGraphs
    None = None
SPECIFICATION Spec
INVARIANTS YieldsReachable DepthFirst
PROPERTIES Drained

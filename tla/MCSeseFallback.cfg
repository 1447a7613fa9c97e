CONSTANTS
    Graphs <- MCGraphs
    None = None
SPECIFICATION Spec
INVARIANTS FallbackOnlyIfWrong

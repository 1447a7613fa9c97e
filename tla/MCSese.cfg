CONSTANTS
    Graphs <- MCGraphs
    None = None
SPECIFICATION Spec
INVARIANTS TypeOK ClassesExact BracketsExact SingleEntryExit CanonicalRegions TreeExact

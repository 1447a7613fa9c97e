CONSTANTS
    Values = {v1, v2}
    IdLimit = 4
    None = None
SPECIFICATION Spec
INVARIANTS TypeOK FreeListExact LiveCounted
PROPERTIES ImplementsSlab

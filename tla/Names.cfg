SPECIFICATION Spec
CONSTANTS
    w1 = w1
    w2 = w2
    Workers = {w1, w2}
    Names = {"a", "b"}
    Handles = {"COPORT", "COSERVICE"}
    SpaceTypes = {"PUBLIC"}
    max_nsobjects = 2
    max_namespaces = 1
    MaxCalls = 5
SYMMETRY SymWorkers
CHECK_DEADLOCK FALSE
INVARIANTS UniqueNames ListIsComplete  
PROPERTIES ObjectsOnlyAdvance

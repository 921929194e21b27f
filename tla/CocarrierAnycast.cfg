SPECIFICATION NoLapSpec
CONSTANTS
    w1 = w1
    w2 = w2
    w3 = w3
    Workers <- ThreeWorkers
    COCARRIER_SIZE = 2
    MaxSent = 3
SYMMETRY SymThree
INVARIANTS HeapIsSafe
PROPERTIES IsAnycastQueue

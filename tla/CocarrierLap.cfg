SPECIFICATION Spec
CONSTANTS
    w1 = w1
    w2 = w2
    w3 = w3
    Workers <- TwoWorkers
    COCARRIER_SIZE = 2
    MaxSent = 4
SYMMETRY SymTwo
INVARIANTS ReceivedByOne

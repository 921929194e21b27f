SPECIFICATION FairSpec
CONSTANTS
    w1 = w1
    w2 = w2
    w3 = w3
    Workers <- TwoWorkers
    COCARRIER_SIZE = 2
    MaxSent = 3
INVARIANTS TypeOK StatusIsLock RingInOrder EventsAgree
PROPERTIES CloseIsFinal TakenIsReturned

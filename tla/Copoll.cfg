SPECIFICATION Spec
CONSTANTS
    a = a
    w1 = w1
    w2 = w2
    q1 = q1
    q2 = q2
    n1 = n1
    COCARRIER_SIZE = 1
    Ports = {a}
    Workers = {w1, w2}
    Pollers = {q1, q2}
    Notifiers = {n1}
    NotifierOf <- ToNotifier
    Requests <- ReaderAndWriter
    COPORT_EVENTQUEUE_LEN = 2
SYMMETRY SymThreads
CHECK_DEADLOCK FALSE
INVARIANTS TypeOK LeventCoversListeners ListenersAreLive DoneIsOwed RemovedWithEvent

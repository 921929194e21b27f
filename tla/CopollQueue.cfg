SPECIFICATION Spec
CONSTANTS
    a = a
    w1 = w1
    w2 = w2
    q1 = q1
    q2 = q2
    n1 = n1
    COCARRIER_SIZE = 1
    Ports = {a}
    Workers = {w1}
    Pollers = {q1}
    Notifiers = {n1}
    NotifierOf <- ToNotifier
    Requests <- ReaderOnly
    COPORT_EVENTQUEUE_LEN = 32
CHECK_DEADLOCK FALSE
INVARIANTS QueueHasRoom

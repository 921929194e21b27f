SPECIFICATION Spec
CONSTANTS
    t1 = t1
    t2 = t2
    t3 = t3
    Threads = {t1, t2, t3}
    Types = {"COPIPE", "COCHANNEL"}
    max_coports = 1
    MaxCalls = 5
    COPORT_BUF_LEN = 2
    SIZE_MODULUS = 32
CHECK_DEADLOCK FALSE
INVARIANTS SlotsHandedOutOnce OverrunNeedsTwoOpens Exclusive LentBufferIsLive OneSendPerReceive ChannelIsQueue EventsMatchLength
PROPERTIES RendezvousCompletes ImplementsRendezvous

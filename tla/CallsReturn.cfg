SPECIFICATION FairSpec
CONSTANTS
    a = a
    b = b
    drainA = drainA
    drainB = drainB
    find = find
    live = live
    Node = {a, b}
    Call = {drainA, drainB, find, live}
    NoCall = NoCall
    From <- Caller
    To <- Callee
    Kind <- Task
    COMMAND_CHANNEL_CAPACITY = 1
    EVENT_CHANNEL_CAPACITY = 1
    KAD_LOOKUP_CONCURRENCY = 1
CHECK_DEADLOCK FALSE
INVARIANTS
    TypeOK
    NoCallHangs
    SlotsAreLive
    IInv
PROPERTIES
    KeepsPromise
    CallsReturn
    LoopComesBack

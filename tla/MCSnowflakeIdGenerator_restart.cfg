SPECIFICATION Spec
CONSTANTS
    g1 = g1
    g2 = g2
    t1 = t1
    t2 = t2
    t3 = t3
    Generator = {g1, g2}
    Thread = {t1, t2, t3}
    gen <- MCGen
    NoThread = NoThread
    datacenterId <- MCDatacenterId
    SequenceMax = 2
    TimestampUnit = 4
    TimestampRange = 8
    DatacenterHalf = 1
    MaxClock = 2
    MaxBack = 1
    MaxRestart = 1
PROPERTIES
    NeverTwice
CHECK_DEADLOCK FALSE

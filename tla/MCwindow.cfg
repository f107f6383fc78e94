\* Two and a half milliseconds, windows of none to three, a "day" of three.
SPECIFICATION Spec
CONSTANTS
    t1 = t1  t2 = t2  t3 = t3  m1 = m1  m2 = m2
    Tasks = {t1, t2, t3}
    Models = {m1, m2}
    ModelOf <- MCModelOf
    Confs <- MCConfs
    DefaultTimeoutMs = 3
    DayMs = 3
    TicksPerMs = 2
    UInt32s = 65536
    MaxClock = 5
INVARIANTS TypeOK WindowFromPush SleepSuffices WaitNotUnderReported
SYMMETRY Twins
CHECK_DEADLOCK FALSE

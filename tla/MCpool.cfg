\* Three workers, four units, stop() at any time and again.
SPECIFICATION Spec
CONSTANTS
    w1 = w1  w2 = w2  w3 = w3  u1 = u1  u2 = u2  u3 = u3  u4 = u4
    NoUnit = NoUnit
    Workers = {w1, w2, w3}
    Units = {u1, u2, u3, u4}
INVARIANTS TypeOK WorkConserving
PROPERTIES ImplementsExecutor
CHECK_DEADLOCK FALSE

\* FIFO as a configuration file makes it; cancels, deletions; nothing stops.
SPECIFICATION Spec
CONSTANTS
    t1 = t1  t2 = t2  t3 = t3  m1 = m1  m2 = m2  w1 = w1  w2 = w2  c1 = c1  c2 = c2
    NoTask = NoTask
    Tasks = {t1, t2}
    Models = {m1}
    ModelOf <- OneModel
    Conf <- FileConf
    Workers = {w1, w2}
    Cancelers = {c1}
    MaxClients = 2
    Cancelable = {t1}
    Deletable = {t1}
    CanStop = FALSE
    Churn = TRUE
    MayThrow = TRUE
    RelockGranted = TRUE
INVARIANTS TypeOK OnePlace InflightExact TrackedUntilSettled InferredOnce
    CanceledBeforeExecution SettledIsReported ExecutingIsCounted
PROPERTIES OutcomeIsStable OnlyLiveTasksReappear ImplementsLifecycle
SYMMETRY WorkerSymmetry

\* Fair threads, a queue limit of one, stop() at any time or never.
SPECIFICATION FairSpec
CONSTANTS
    t1 = t1  t2 = t2  t3 = t3  m1 = m1  m2 = m2  w1 = w1  w2 = w2  c1 = c1  c2 = c2
    NoTask = NoTask
    Tasks = {t1, t2}
    Models = {m1}
    ModelOf <- OneModel
    Conf <- DropConf
    Workers = {w1}
    Cancelers = {}
    MaxClients = 2
    Cancelable = {}
    Deletable = {}
    CanStop = TRUE
    Churn = FALSE
    MayThrow = FALSE
    RelockGranted = TRUE
INVARIANTS StopDrains
PROPERTIES AcceptedIsForgotten StopReturns ImplementsLifecycle

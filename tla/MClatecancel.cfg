\* A cancel request that looks the task up just before it settles.
SPECIFICATION Spec
CONSTANTS
    t1 = t1  t2 = t2  t3 = t3  m1 = m1  m2 = m2  w1 = w1  w2 = w2  c1 = c1  c2 = c2
    NoTask = NoTask
    Tasks = {t1}
    Models = {m1}
    ModelOf <- OneModel
    Conf <- FileConf
    Workers = {w1}
    Cancelers = {c1}
    MaxClients = 2
    Cancelable = {t1}
    Deletable = {}
    CanStop = FALSE
    Churn = FALSE
    MayThrow = FALSE
    RelockGranted = TRUE
INVARIANTS CancelRequestedIsInFlight

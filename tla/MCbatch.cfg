\* Batches of two that fill up, time out or lose a task; infer() may throw.
SPECIFICATION Spec
CONSTANTS
    t1 = t1  t2 = t2  t3 = t3  m1 = m1  m2 = m2  w1 = w1  w2 = w2  c1 = c1  c2 = c2
    NoTask = NoTask
    Tasks = {t1, t2, t3}
    Models = {m1}
    ModelOf <- OneModel
    Conf <- BatchConf
    Workers = {w1}
    Cancelers = {c1}
    MaxClients = 1
    Cancelable = {t1}
    Deletable = {}
    CanStop = FALSE
    Churn = FALSE
    MayThrow = TRUE
    RelockGranted = TRUE
INVARIANTS OnePlace InflightExact CanceledBeforeExecution UnitsWellFormed
SYMMETRY OthersSymmetry

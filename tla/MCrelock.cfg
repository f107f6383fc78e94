\* The dispatcher blocks when it locks the mutex it holds.
SPECIFICATION FairSpec
CONSTANTS
    t1 = t1  t2 = t2  t3 = t3  m1 = m1  m2 = m2  w1 = w1  w2 = w2  c1 = c1  c2 = c2
    NoTask = NoTask
    Tasks = {t1}
    Models = {m1}
    ModelOf <- OneModel
    Conf <- FileConf
    Workers = {w1}
    Cancelers = {}
    MaxClients = 2
    Cancelable = {}
    Deletable = {}
    CanStop = FALSE
    Churn = FALSE
    MayThrow = FALSE
    RelockGranted = FALSE
PROPERTIES AcceptedIsForgotten
CHECK_DEADLOCK FALSE

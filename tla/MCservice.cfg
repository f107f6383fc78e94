\* Three submissions, some in one tick, polled, canceled and deleted by clients.
SPECIFICATION Spec
CONSTANTS
    t1 = t1  t2 = t2  t3 = t3  i1 = i1  i2 = i2  i3 = i3  c1 = c1
    NoTask = NoTask  NoId = NoId
    Tasks = {t1, t2, t3}
    Ids = {i1, i2, i3}
    Cancelers = {c1}
    SameTick = 2
INVARIANTS TypeOK AnswersAgree RefusedIsDead CanceledOnRequest
PROPERTIES NoWayBack
SYMMETRY Symmetry
CHECK_DEADLOCK FALSE
